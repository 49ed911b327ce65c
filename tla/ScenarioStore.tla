---------------------------- MODULE ScenarioStore ----------------------------
(***************************************************************************)
(* The saved scenarios, their revisions, analysis runs and teaching        *)
(* sessions (persistence/sqlite_store.py, postgres_store.py) as the API's  *)
(* endpoints use them.  Several API processes share the database.  A store *)
(* method reads in one statement and writes in a later transaction: each   *)
(* of the two is a step, and the other processes run between them.         *)
(***************************************************************************)
EXTENDS Integers, FiniteSets, FiniteSetsExt

CONSTANTS
    Ids,          \* the scenario ids uuid4 hands out
    Processes,    \* the API processes; each serves one request at a time
    Contents,     \* normalized scenarios
    Titles,
    MaxRevision,  \* bound on the revisions of a scenario
    MaxRuns       \* bound on the analysis runs kept

\* What an instance assumes of its constants.
ScenarioStoreAssumption ==
    MaxRevision \in Nat \ {0} /\ MaxRuns \in Nat /\ "none" \notin Contents

VARIABLES
    row,       \* scenarios: the row of an id, or NoRow
    revisions, \* scenario_revisions: the rows of an id
    runs,      \* analysis_runs
    sessions,  \* the ids teaching_sessions refer to
    used,      \* the ids handed out
    call       \* what a process is in the middle of

vars == <<row, revisions, runs, sessions, used, call>>

NoRow == [content |-> "none", title |-> "none", favorite |-> FALSE]
Idle == [op |-> "idle"]
Saved == {s \in Ids : row[s] # NoRow}

Init ==
    /\ row = [s \in Ids |-> NoRow]
    /\ revisions = [s \in Ids |-> {}]
    /\ runs = {}
    /\ sessions = {}
    /\ used = {}
    /\ call = [p \in Processes |-> Idle]

(* get_scenario's current_revision: COALESCE(MAX(revision_no), 1).         *)
Latest(s) == Max({r.no : r \in revisions[s]} \cup {1})

ContentOf(s, n) == (CHOOSE r \in revisions[s] : r.no = n).content
HasRevision(s, n) == \E r \in revisions[s] : r.no = n

\* What an update overwrites: get_scenario's content and title of a scenario.
Current(s) == [content |-> row[s].content, title |-> row[s].title]

Return(p) == call' = [call EXCEPT ![p] = Idle]

\* The process's call ends in an error and its transaction is rolled back.
Refused(p) == Return(p) /\ UNCHANGED <<row, revisions, runs, sessions, used>>
-----------------------------------------------------------------------------
(* create_scenario: the row and revision 1 in one transaction.             *)

Insert(s, c, t) ==
    /\ s \notin used
    /\ used' = used \cup {s}
    /\ row' = [row EXCEPT ![s] = [content |-> c, title |-> t, favorite |-> FALSE]]
    /\ revisions' = [revisions EXCEPT ![s] = {[no |-> 1, content |-> c]}]
    /\ UNCHANGED <<runs, sessions>>

Create(p, s, c, t) ==
    /\ call[p] = Idle
    /\ Insert(s, c, t)
    /\ UNCHANGED call

CopyRead(p, s) ==
    /\ call[p] = Idle
    /\ s \in Saved
    /\ call' = [call EXCEPT ![p] = [op |-> "copy", content |-> row[s].content]]
    /\ UNCHANGED <<row, revisions, runs, sessions, used>>

CopyWrite(p, s, t) ==
    /\ call[p].op = "copy"
    /\ Insert(s, call[p].content, t)
    /\ Return(p)
-----------------------------------------------------------------------------
(* update_scenario: the row it read gives the next revision's number.  The  *)
(* request always names a title (PUT of app.py fills one in).              *)

UpdateRead(p, s, c, t) ==
    /\ call[p] = Idle
    /\ s \in Saved
    /\ Latest(s) < MaxRevision
    /\ call' = [call EXCEPT ![p] =
         [op |-> "update", id |-> s, content |-> c, title |-> t,
          current |-> Current(s), next |-> Latest(s) + 1]]
    /\ UNCHANGED <<row, revisions, runs, sessions, used>>

\* The insert breaks UNIQUE (scenario_id, revision_no) or the foreign key.
RevisionTaken(s, n) == HasRevision(s, n)

\* mutant: the number is taken in the transaction that writes
UpdateWrite_Renumbers(p) ==
    LET u == call[p] IN
    /\ u.op = "update"
    /\ u.id \in Saved
    /\ row' = [row EXCEPT ![u.id].content = u.content, ![u.id].title = u.title]
    /\ revisions' = [revisions EXCEPT ![u.id] = @ \cup {[no |-> Latest(u.id) + 1, content |-> u.content]}]
    /\ Return(p)
    /\ UNCHANGED <<runs, sessions, used>>

UpdateWrite(p) ==
    LET u == call[p] IN
    /\ u.op = "update"
    /\ u.id \in Saved
    /\ ~RevisionTaken(u.id, u.next)
    /\ row' = [row EXCEPT ![u.id].content = u.content, ![u.id].title = u.title]
    /\ revisions' = [revisions EXCEPT ![u.id] = @ \cup {[no |-> u.next, content |-> u.content]}]
    /\ Return(p)
    /\ UNCHANGED <<runs, sessions, used>>

UpdateFails(p) ==
    LET u == call[p] IN
    /\ u.op = "update"
    /\ u.id \notin Saved \/ RevisionTaken(u.id, u.next)
    /\ Refused(p)
-----------------------------------------------------------------------------
(* set_favorite and delete_scenario: an UPDATE or a DELETE of a row that   *)
(* is gone touches nothing.                                                *)

RowRead(p, s, op) ==
    /\ call[p] = Idle
    /\ s \in Saved
    /\ call' = [call EXCEPT ![p] = [op |-> op, id |-> s]]
    /\ UNCHANGED <<row, revisions, runs, sessions, used>>

FavoriteWrite(p, favorite) ==
    LET s == call[p].id IN
    /\ call[p].op = "favorite"
    /\ row' = IF s \in Saved THEN [row EXCEPT ![s].favorite = favorite] ELSE row
    /\ Return(p)
    /\ UNCHANGED <<revisions, runs, sessions, used>>

\* mutant: the runs have no ON DELETE CASCADE
DeleteWrite_KeepsRuns(p) ==
    LET s == call[p].id IN
    /\ call[p].op = "delete"
    /\ row' = [row EXCEPT ![s] = NoRow]
    /\ revisions' = [revisions EXCEPT ![s] = {}]
    /\ sessions' = sessions \ {s}
    /\ Return(p)
    /\ UNCHANGED <<runs, used>>

DeleteWrite(p) ==
    LET s == call[p].id IN
    /\ call[p].op = "delete"
    /\ row' = [row EXCEPT ![s] = NoRow]
    /\ revisions' = [revisions EXCEPT ![s] = {}]
    /\ runs' = {a \in runs : a.id # s}
    /\ sessions' = sessions \ {s}
    /\ Return(p)
    /\ UNCHANGED used
-----------------------------------------------------------------------------
(* analyze_saved_scenario and analyze_saved_revision: load, analyse, then  *)
(* save_analysis reads the row (or the revision) again and inserts the     *)
(* run.  at is the revision named in the path, 0 for the current one.      *)

AnalyzeRead(p, s, at) ==
    /\ call[p] = Idle
    /\ s \in Saved
    /\ at = 0 \/ HasRevision(s, at)
    /\ call' = [call EXCEPT ![p] =
         [op |-> "analyze", id |-> s, at |-> at,
          analysed |-> IF at = 0 THEN row[s].content ELSE ContentOf(s, at)]]
    /\ UNCHANGED <<row, revisions, runs, sessions, used>>

SaveRead(p) ==
    LET a == call[p] IN
    /\ a.op = "analyze"
    /\ a.id \in Saved
    /\ call' = [call EXCEPT ![p] =
         [op |-> "save", id |-> a.id, at |-> a.at, analysed |-> a.analysed,
          revision |-> IF a.at = 0 THEN Latest(a.id) ELSE a.at,
          content |-> IF a.at = 0 THEN row[a.id].content ELSE ContentOf(a.id, a.at)]]
    /\ UNCHANGED <<row, revisions, runs, sessions, used>>

RunOf(a) == [id |-> a.id, at |-> a.at, analysed |-> a.analysed,
             revision |-> a.revision, content |-> a.content]

SaveWrite(p) ==
    /\ call[p].op = "save"
    /\ call[p].id \in Saved
    /\ Cardinality(runs) < MaxRuns
    /\ runs' = runs \cup {RunOf(call[p])}
    /\ Return(p)
    /\ UNCHANGED <<row, revisions, sessions, used>>

\* teach_saved_scenario loads the scenario, then waits for the request's body.
TeachWrite(p) ==
    /\ call[p].op = "teach"
    /\ call[p].id \in Saved
    /\ sessions' = sessions \cup {call[p].id}
    /\ Return(p)
    /\ UNCHANGED <<row, revisions, runs, used>>

\* StoreNotFound, or the insert breaks the foreign key.
ScenarioGone(p) ==
    /\ call[p].op \in {"analyze", "save", "teach"}
    /\ call[p].id \notin Saved
    /\ Refused(p)

Next == \E p \in Processes :
    \/ \E s \in Ids :
        \/ \E c \in Contents, t \in Titles :
            \/ Create(p, s, c, t)
            \/ UpdateRead(p, s, c, t)
        \/ CopyRead(p, s)
        \/ \E t \in Titles : CopyWrite(p, s, t)
        \/ \E op \in {"favorite", "delete", "teach"} : RowRead(p, s, op)
        \/ \E at \in 0 .. MaxRevision : AnalyzeRead(p, s, at)
    \/ UpdateWrite(p)
    \/ UpdateFails(p)
    \/ \E favorite \in BOOLEAN : FavoriteWrite(p, favorite)
    \/ DeleteWrite(p)
    \/ SaveRead(p)
    \/ SaveWrite(p)
    \/ TeachWrite(p)
    \/ ScenarioGone(p)

Spec == Init /\ [][Next]_vars
-----------------------------------------------------------------------------
(* Every row, revision and run has the shape the schema gives it.          *)
TypeOK ==
    /\ row \in [Ids -> [content : Contents, title : Titles, favorite : BOOLEAN] \cup {NoRow}]
    /\ \A s \in Ids : revisions[s] \subseteq [no : 1 .. MaxRevision, content : Contents]
    /\ runs \subseteq [id : Ids, at : 0 .. MaxRevision, analysed : Contents,
                       revision : 1 .. MaxRevision, content : Contents]
    /\ sessions \subseteq Ids /\ used \subseteq Ids

(* Processes that update one scenario at the same time leave revisions     *)
(* numbered 1, 2, ... and the row holds the last of them.                  *)
RowIsLatestRevision == \A s \in Saved :
    /\ {r.no : r \in revisions[s]} = 1 .. Cardinality(revisions[s])
    /\ row[s].content = ContentOf(s, Latest(s))

(* No revision, run or teaching session outlives its scenario, however a   *)
(* deletion interleaves with an update, an analysis or a lesson.           *)
NothingOutlivesItsScenario ==
    /\ \A s \in Ids \ Saved : revisions[s] = {}
    /\ \A a \in runs : a.id \in Saved
    /\ sessions \subseteq Saved

(* A run names a revision whose content it stores.  The run of a named     *)
(* revision was computed from that content, the run of the current one     *)
(* from the content of that revision or of an earlier one.                 *)
RunsMatchTheirRevision == \A a \in runs :
    /\ HasRevision(a.id, a.revision)
    /\ a.content = ContentOf(a.id, a.revision)
    /\ a.at # 0 => a.revision = a.at /\ a.analysed = a.content
    /\ \E r \in revisions[a.id] : r.no <= a.revision /\ r.content = a.analysed

(* However saves, updates, deletions, analyses and lessons interleave, the  *)
(* tables fit together.                                                    *)
StoreSound ==
    TypeOK /\ RowIsLatestRevision /\ NothingOutlivesItsScenario /\ RunsMatchTheirRevision

(* Whatever changes of a scenario on file, an update changes it, and what   *)
(* it overwrites is the content and title that same update read: of the    *)
(* processes that update a scenario at the same time one gets through, and *)
(* no save is written over unseen.  A revision, once saved, stays, and the *)
(* update adds its own, the next.                                          *)
UpdateReplacesWhatItRead(s) == \E p \in Processes :
    LET u == call[p] IN
    /\ u.op = "update" /\ u.id = s /\ call'[p] = Idle
    /\ u.current = Current(s)
    /\ Current(s)' = [content |-> u.content, title |-> u.title]
    /\ revisions'[s] = revisions[s] \cup {[no |-> Latest(s) + 1, content |-> u.content]}

NoSaveIsLost == [][
    \A s \in Saved : row'[s] # NoRow =>
        \/ Current(s)' = Current(s) /\ revisions'[s] = revisions[s]
        \/ UpdateReplacesWhatItRead(s)]_vars

(* Every run, that of the current revision too, was computed from the      *)
(* revision it is stored under (docs/security-privacy-operations.md).      *)
AnalysisOfItsRevision == \A a \in runs : a.analysed = ContentOf(a.id, a.revision)
=============================================================================
