------------------------ MODULE InProcessJobsProofs ------------------------
(***************************************************************************)
(* Proofs about InProcessJobs for any number of jobs, pool threads and     *)
(* places, and about SolverSidecar for any number of calls and processes.  *)
(* The dictionary has no lock: what keeps it right is that a thread owns   *)
(* the entry it works on, that the event loop submits nothing in the       *)
(* middle of a cancel, and that only final statuses are dropped.  A solve  *)
(* has its process to itself; the cache is what the solves share.          *)
(***************************************************************************)
EXTENDS InProcessJobs, SolverSidecar, FiniteSetTheorems, SequenceTheorems, TLAPS

Entries == [status : Statuses, result : BOOLEAN] \cup {Gone}
ThreadStates == {Idle} \cup [at : {"computing"}, job : Jobs]
                  \cup [at : {"status"}, job : Jobs, status : Done]
LoopStates == {Idle} \cup [at : {"event", "write"}, job : Jobs]
                \cup [at : {"get"}, job : Jobs, analysis : BOOLEAN]
                \cup [at : {"got"}, status : Statuses \cup {"gone"}, analysis : BOOLEAN]

Shapes ==
    /\ job \in [Jobs -> Entries] /\ used \subseteq Jobs /\ events \subseteq Jobs
    /\ pending \in Seq(Jobs) /\ thread \in [Threads -> ThreadStates] /\ loop \in LoopStates

\* What the event loop is about to cancel keeps its place: nothing is submitted
\* before the loop is idle again, so the status it writes takes nobody's place.
Cancelling == IF loop.at \in {"event", "write"} THEN {loop.job} ELSE {}
Places == (Stored \ Stale) \cup Cancelling

\* Whoever holds a job finds an entry that is not done.
HeldIsActive == \A j \in Jobs : Held(j) => j \in used /\ j \in Stored \ Stale

IInv ==
    /\ Shapes /\ RunOnce /\ HeldIsActive
    /\ Cancelling \subseteq Stored
    /\ Cardinality(Places) <= MaxJobs

-----------------------------------------------------------------------------
(***************************************************************************)
(* Who holds a job, and whether that is the only one.                      *)
(***************************************************************************)
OnQueue(j) == \E i \in DOMAIN pending : pending[i] = j
OnThread(t, j) == thread[t] # Idle /\ thread[t].job = j

LEMMA Statements ==
  ASSUME Shapes
  PROVE  /\ \A j \in Jobs : /\ job[j].status \in Statuses \cup {"gone"} /\ job[j].result \in BOOLEAN
                            /\ j \in Stored <=> job[j].status # "gone"
                            /\ j \in Stored \ Stale <=> job[j].status \in Statuses \ Done
         /\ \A t \in Threads : /\ thread[t].at \in {"idle", "computing", "status"}
                               /\ thread[t] = Idle <=> thread[t].at = "idle"
                               /\ thread[t] # Idle => thread[t].job \in Jobs
                               /\ thread[t].at = "status" => thread[t].status \in Done
         /\ loop.at \in {"event", "write"} => loop.job \in Jobs
<1>1. \A j \in Jobs : job[j] \in [status : Statuses, result : BOOLEAN] \/ job[j] = Gone
  BY DEF Shapes, Entries
<1>2. Gone.status = "gone" /\ Gone.result = FALSE /\ "gone" \notin Statuses /\ Done \subseteq Statuses
  BY DEF Gone, Statuses, Done
<1>3. \A j \in Jobs : /\ job[j].status \in Statuses \cup {"gone"} /\ job[j].result \in BOOLEAN
                      /\ job[j] # Gone <=> job[j].status # "gone"
  BY <1>1, <1>2
<1>4. \A j \in Jobs : /\ j \in Stored <=> job[j].status # "gone"
                      /\ j \in Stored \ Stale <=> job[j].status \in Statuses \ Done
  BY <1>2, <1>3 DEF Stored, Stale
<1>5. \A t \in Threads : \/ thread[t] = Idle
                         \/ thread[t] \in [at : {"computing"}, job : Jobs]
                         \/ thread[t] \in [at : {"status"}, job : Jobs, status : Done]
  BY DEF Shapes, ThreadStates
<1>6. Idle.at = "idle"
  BY DEF Idle
<1>7. \A t \in Threads : /\ thread[t].at \in {"idle", "computing", "status"}
                         /\ thread[t] = Idle <=> thread[t].at = "idle"
                         /\ thread[t] # Idle => thread[t].job \in Jobs
                         /\ thread[t].at = "status" => thread[t].status \in Done
  BY <1>5, <1>6
<1>8. loop.at \in {"event", "write"} => loop.job \in Jobs
  BY <1>6 DEF Shapes, LoopStates
<1> QED
  BY <1>3, <1>4, <1>7, <1>8

LEMMA ActiveEntries ==
  ASSUME NEW f \in [Jobs -> Entries]
  PROVE  {j \in Jobs : f[j] # Gone} \ {j \in Jobs : f[j].status \in Done}
           = {j \in Jobs : f[j].status \in Statuses \ Done}
<1>1. \A j \in Jobs : f[j] \in [status : Statuses, result : BOOLEAN] \/ f[j] = Gone
  BY DEF Entries
<1>2. Gone.status = "gone" /\ "gone" \notin Statuses
  BY DEF Gone, Statuses, Done
<1> QED
  BY <1>1, <1>2

LEMMA PlacesFinite ==
  ASSUME InProcessAssumption, Shapes
  PROVE  /\ IsFiniteSet(Places) /\ Cardinality(Places) \in Nat
         /\ IsFiniteSet(Stored \ Stale) /\ Cardinality(Stored \ Stale) \in Nat
         /\ Cardinality(Stored \ Stale) <= Cardinality(Places)
<1>1. Places \subseteq Jobs /\ Stored \ Stale \subseteq Places
  BY Statements DEF Places, Stored, Cancelling
<1>2. IsFiniteSet(Places)
  BY <1>1, FS_Subset DEF InProcessAssumption
<1> QED
  BY <1>1, <1>2, FS_Subset, FS_CardinalityType

\* A step that takes no place.
LEMMA NoPlaceTaken ==
  ASSUME InProcessAssumption, IInv, Places' \subseteq Places
  PROVE  Cardinality(Places') <= MaxJobs
<1>1. IsFiniteSet(Places) /\ Cardinality(Places) \in Nat /\ Cardinality(Places) <= MaxJobs
  BY PlacesFinite DEF IInv
<1>2. IsFiniteSet(Places') /\ Cardinality(Places') <= Cardinality(Places)
  BY <1>1, FS_Subset
<1>3. Cardinality(Places') \in Nat
  BY <1>2, FS_CardinalityType
<1> QED
  BY <1>1, <1>2, <1>3 DEF InProcessAssumption

-----------------------------------------------------------------------------
(***************************************************************************)
(* The event loop.                                                         *)
(***************************************************************************)
LEMMA KeptEntries ==
  ASSUME Shapes
  PROVE  /\ Kept \in [Jobs -> Entries]
         /\ \A j \in Jobs : /\ j \in Stale => Kept[j] = Gone
                            /\ j \notin Stale => Kept[j] = job[j]
BY DEF Kept, Shapes, Entries

LEMMA SubmitKeeps ==
  ASSUME InProcessAssumption, IInv, NEW j \in Jobs, Submit(j)
  PROVE  IInv'
<1> DEFINE new == [status |-> "queued", result |-> FALSE]
<1>1. /\ Shapes /\ RunOnce /\ HeldIsActive /\ Cardinality(Places) <= MaxJobs
      /\ loop.at = "idle" /\ j \notin used /\ Cardinality(Stored \ Stale) < MaxJobs
      /\ job' = [Kept EXCEPT ![j] = new] /\ used' = used \cup {j} /\ pending' = Append(pending, j)
      /\ thread' = thread /\ loop' = loop /\ events' = events
  BY DEF IInv, Submit, ActiveCount
<1>2. new \in Entries /\ new.status = "queued" /\ new.status \in Statuses \ Done
  BY DEF Entries, Statuses, Done
<1>3. Shapes'
  BY <1>1, <1>2, KeptEntries DEF Shapes
<1>4. /\ job'[j] = new
      /\ \A k \in Jobs \ {j} : job'[k] = IF k \in Stale THEN Gone ELSE job[k]
  BY <1>1, KeptEntries
<1>5. (Stored \ Stale)' = (Stored \ Stale) \cup {j}
  <2>1. \A k \in Jobs : k \in (Stored \ Stale)' <=> job'[k].status \in Statuses \ Done
    BY <1>3, ActiveEntries DEF Shapes, Stored, Stale
  <2>2. \A k \in Jobs : k \in Stored \ Stale <=> job[k].status \in Statuses \ Done
    BY <1>1, Statements
  <2>3. \A k \in Stale : Gone.status \notin Statuses \ Done
    BY DEF Gone, Statuses, Done
  <2>4. (Stored \ Stale)' \subseteq Jobs /\ Stored \ Stale \subseteq Jobs
    BY DEF Stored
  <2>5. \A k \in Stale : k \notin Stored \ Stale
    OBVIOUS
  <2>6. \A k \in Jobs \ {j} : k \in (Stored \ Stale)' <=> k \in Stored \ Stale
    BY <1>4, <2>1, <2>2, <2>3, <2>5
  <2>7. j \in (Stored \ Stale)'
    BY <1>2, <1>4, <2>1
  <2> QED
    BY <2>4, <2>6, <2>7
<1>6. Len(pending) \in Nat /\ \A i \in 1 .. Len(pending) : pending'[i] = pending[i]
  BY <1>1 DEF Shapes
<1>7. DOMAIN pending = 1 .. Len(pending) /\ DOMAIN pending' = 1 .. Len(pending) + 1
      /\ pending'[Len(pending) + 1] = j
  BY <1>1 DEF Shapes
<1>8. \A k \in Jobs : Held(k)' <=> Held(k) \/ k = j
  <2> SUFFICES ASSUME NEW k \in Jobs PROVE Held(k)' <=> Held(k) \/ k = j
    OBVIOUS
  <2>1. (\E i \in DOMAIN pending' : pending'[i] = k) <=> (\E i \in DOMAIN pending : pending[i] = k) \/ k = j
    BY <1>6, <1>7
  <2> QED
    BY <1>1, <2>1 DEF Held
<1>9. ~Held(j)
  BY <1>1 DEF HeldIsActive
<1>10. RunOnce'
  <2>1. IsInjective(pending')
    <3>1. \A i \in 1 .. Len(pending) : pending[i] # j
      BY <1>7, <1>9 DEF Held
    <3> QED
      BY <1>1, <1>6, <1>7, <3>1 DEF RunOnce, IsInjective
  <2>2. \A t \in Threads, i \in DOMAIN pending' : thread[t] # Idle => thread[t].job # pending'[i]
    BY <1>1, <1>6, <1>7, <1>9 DEF RunOnce, Held
  <2> QED
    BY <1>1, <2>1, <2>2 DEF RunOnce
<1>11. HeldIsActive'
  BY <1>1, <1>5, <1>8 DEF HeldIsActive
<1>12. Cancelling' = {} /\ Places' = (Stored \ Stale) \cup {j}
  BY <1>1, <1>5 DEF Cancelling, Places
<1>13. Cardinality(Places') <= MaxJobs
  <2>1. IsFiniteSet(Stored \ Stale) /\ Cardinality(Stored \ Stale) \in Nat
    BY <1>1, PlacesFinite
  <2>2. Cardinality((Stored \ Stale) \cup {j}) <= Cardinality(Stored \ Stale) + 1
    <3>1. PICK S : S = Stored \ Stale
      OBVIOUS
    <3>2. Cardinality(S \cup {j}) = IF j \in S THEN Cardinality(S) ELSE Cardinality(S) + 1
      BY <2>1, <3>1, FS_AddElement
    <3> QED
      BY <2>1, <3>1, <3>2
  <2>3. IsFiniteSet((Stored \ Stale) \cup {j})
    BY <2>1, FS_AddElement
  <2>4. Cardinality((Stored \ Stale) \cup {j}) \in Nat
    BY <2>3, FS_CardinalityType
  <2> QED
    BY <1>1, <1>12, <2>1, <2>2, <2>4 DEF InProcessAssumption
<1> QED
  BY <1>3, <1>10, <1>11, <1>12, <1>13 DEF IInv

LEMMA QueueFullKeeps ==
  ASSUME InProcessAssumption, IInv, QueueFull
  PROVE  IInv'
<1>1. /\ Shapes /\ RunOnce /\ HeldIsActive /\ loop.at = "idle" /\ job' = Kept
      /\ used' = used /\ pending' = pending /\ thread' = thread /\ loop' = loop /\ events' = events
  BY DEF IInv, QueueFull
<1>2. Shapes'
  BY <1>1, KeptEntries DEF Shapes
<1>3. (Stored \ Stale)' = Stored \ Stale
  <2>1. \A k \in Jobs : k \in (Stored \ Stale)' <=> job'[k].status \in Statuses \ Done
    BY <1>2, ActiveEntries DEF Shapes, Stored, Stale
  <2>2. \A k \in Jobs : k \in Stored \ Stale <=> job[k].status \in Statuses \ Done
    BY <1>1, Statements
  <2>3. Gone.status \notin Statuses \ Done
    BY DEF Gone, Statuses, Done
  <2>4. (Stored \ Stale)' \subseteq Jobs /\ Stored \ Stale \subseteq Jobs
    BY DEF Stored
  <2> QED
    BY <1>1, <2>1, <2>2, <2>3, <2>4, KeptEntries
<1>4. RunOnce' /\ HeldIsActive'
  BY <1>1, <1>3 DEF RunOnce, HeldIsActive, Held
<1>5. Cancelling' = {} /\ Places' \subseteq Places
  BY <1>1, <1>3 DEF Cancelling, Places
<1> QED
  BY <1>2, <1>4, <1>5, NoPlaceTaken DEF IInv

\* The event loop moves on, without touching an entry.
LEMMA LoopMoves ==
  ASSUME InProcessAssumption, IInv, loop' \in LoopStates, events' \subseteq Jobs,
         UNCHANGED <<job, used, pending, thread>>,
         Cancelling' \subseteq Stored, Cancelling' \subseteq Places
  PROVE  IInv'
<1>1. Shapes'
  BY DEF IInv, Shapes
<1>2. Stored' = Stored /\ Stale' = Stale
  BY DEF Stored, Stale
<1>3. RunOnce' /\ HeldIsActive'
  BY <1>2 DEF IInv, RunOnce, HeldIsActive, Held
<1>4. Places' \subseteq Places
  BY <1>2 DEF Places
<1> QED
  BY <1>1, <1>2, <1>3, <1>4, NoPlaceTaken DEF IInv

LEMMA LoopKeeps ==
  ASSUME InProcessAssumption, IInv,
         (\E j \in Jobs : CancelRead(j) \/ GetResult(j)) \/ CancelEvent \/ GetStatus \/ GetDone
  PROVE  IInv'
<1>1. Shapes /\ Cancelling \subseteq Stored
  BY DEF IInv
<1>2. CASE \E j \in Jobs : CancelRead(j)
  <2>1. PICK j \in Jobs : CancelRead(j)
    BY <1>2
  <2>2. loop' = [at |-> "event", job |-> j] /\ job[j].status \in {"queued", "running"}
    BY <2>1 DEF CancelRead
  <2>3. loop' \in LoopStates /\ Cancelling' = {j}
    BY <2>2 DEF LoopStates, Cancelling
  <2>4. j \in Stored \ Stale
    BY <1>1, <2>2, Statements DEF Statuses, Done
  <2>5. Cancelling' \subseteq Stored /\ Cancelling' \subseteq Places
    BY <2>3, <2>4 DEF Places
  <2>6. events' \subseteq Jobs /\ UNCHANGED <<job, used, pending, thread>>
    BY <1>1, <2>1 DEF CancelRead, Shapes
  <2> QED
    BY <2>3, <2>5, <2>6, LoopMoves
<1>3. CASE \E j \in Jobs : GetResult(j)
  <2>1. PICK j \in Jobs : GetResult(j)
    BY <1>3
  <2>2. loop' = [at |-> "get", job |-> j, analysis |-> job[j].result]
    BY <2>1 DEF GetResult
  <2>3. job[j].result \in BOOLEAN
    BY <1>1, Statements
  <2>4. loop' \in LoopStates /\ Cancelling' = {}
    BY <2>2, <2>3 DEF LoopStates, Cancelling
  <2>5. events' \subseteq Jobs /\ UNCHANGED <<job, used, pending, thread>>
    BY <1>1, <2>1 DEF GetResult, Shapes
  <2> QED
    BY <2>4, <2>5, LoopMoves
<1>4. CASE CancelEvent
  <2>1. loop.at = "event" /\ loop.job \in Jobs
    BY <1>1, <1>4, Statements DEF CancelEvent
  <2>2. loop' = [at |-> "write", job |-> loop.job]
    BY <1>4 DEF CancelEvent
  <2>3. loop' \in LoopStates /\ Cancelling' = {loop.job} /\ Cancelling = {loop.job}
    BY <2>1, <2>2 DEF LoopStates, Cancelling
  <2>4. events' \subseteq Jobs /\ UNCHANGED <<job, used, pending, thread>>
    BY <1>1, <1>4, <2>1 DEF CancelEvent, Shapes
  <2>5. Cancelling' \subseteq Stored /\ Cancelling' \subseteq Places
    BY <1>1, <2>3 DEF Places
  <2> QED
    BY <2>3, <2>4, <2>5, LoopMoves
<1>5. CASE GetStatus
  <2>1. loop \in [at : {"get"}, job : Jobs, analysis : BOOLEAN]
    BY <1>1, <1>5 DEF GetStatus, Shapes, LoopStates, Idle
  <2>2. loop' = [at |-> "got", status |-> job[loop.job].status, analysis |-> loop.analysis]
    BY <1>5 DEF GetStatus
  <2>3. loop' \in LoopStates /\ Cancelling' = {}
    BY <1>1, <2>1, <2>2, Statements DEF LoopStates, Cancelling
  <2>4. events' \subseteq Jobs /\ UNCHANGED <<job, used, pending, thread>>
    BY <1>1, <1>5 DEF GetStatus, Shapes
  <2> QED
    BY <2>3, <2>4, LoopMoves
<1>6. CASE GetDone
  <2>1. loop' \in LoopStates /\ Cancelling' = {}
    BY <1>6 DEF GetDone, LoopStates, Idle, Cancelling
  <2>2. events' \subseteq Jobs /\ UNCHANGED <<job, used, pending, thread>>
    BY <1>1, <1>6 DEF GetDone, Shapes
  <2> QED
    BY <2>1, <2>2, LoopMoves
<1> QED
  BY <1>2, <1>3, <1>4, <1>5, <1>6

-----------------------------------------------------------------------------
(***************************************************************************)
(* Writing an entry.                                                       *)
(***************************************************************************)
\* A write of one entry that stays: who is active changes by that job at most.
LEMMA EntryWritten ==
  ASSUME Shapes, NEW j \in Stored, NEW e \in [status : Statuses, result : BOOLEAN],
         job' = [job EXCEPT ![j] = e]
  PROVE  /\ job' \in [Jobs -> Entries]
         /\ Stored' = Stored
         /\ (Stored \ Stale)' = IF e.status \in Done THEN (Stored \ Stale) \ {j}
                                ELSE (Stored \ Stale) \cup {j}
<1>1. j \in Jobs /\ job \in [Jobs -> Entries] /\ e \in Entries
  BY DEF Shapes, Stored, Entries
<1>2. job' \in [Jobs -> Entries] /\ job'[j] = e /\ \A k \in Jobs \ {j} : job'[k] = job[k]
  BY <1>1
<1>3. e # Gone
  BY DEF Gone, Statuses, Done
<1>4. Stored' = Stored
  BY <1>1, <1>2, <1>3 DEF Stored
<1>5. (Stored \ Stale)' = {k \in Jobs : job'[k].status \in Statuses \ Done}
  BY <1>2, ActiveEntries DEF Stored, Stale
<1>6. Stored \ Stale = {k \in Jobs : job[k].status \in Statuses \ Done}
  BY <1>1, ActiveEntries DEF Stored, Stale
<1> QED
  BY <1>1, <1>2, <1>4, <1>5, <1>6

LEMMA StoredEntry ==
  ASSUME Shapes, NEW j \in Stored
  PROVE  /\ job[j] \in [status : Statuses, result : BOOLEAN]
         /\ \A s \in Statuses : [job[j] EXCEPT !.status = s] \in [status : Statuses, result : BOOLEAN]
                                /\ [job[j] EXCEPT !.status = s].status = s
         /\ [job[j] EXCEPT !.result = TRUE] \in [status : Statuses, result : BOOLEAN]
         /\ [job[j] EXCEPT !.result = TRUE].status = job[j].status
<1>1. job[j] \in [status : Statuses, result : BOOLEAN]
  BY DEF Shapes, Stored, Entries
<1> QED
  BY <1>1

LEMMA CancelWriteKeeps ==
  ASSUME InProcessAssumption, IInv, CancelWrite
  PROVE  IInv'
<1>1. PICK j \in Stored : j = loop.job /\ Cancelling = {j}
  BY DEF IInv, CancelWrite, Cancelling
<1>2. PICK e : e = [job[j] EXCEPT !.status = "cancellation_requested"]
  OBVIOUS
<1>3. /\ Shapes /\ RunOnce /\ HeldIsActive /\ job' = [job EXCEPT ![j] = e] /\ loop' = Idle
      /\ UNCHANGED <<used, pending, thread, events>>
  BY <1>1, <1>2 DEF IInv, CancelWrite
<1>4. e \in [status : Statuses, result : BOOLEAN] /\ e.status \notin Done
  BY <1>2, <1>3, StoredEntry DEF Statuses, Done
<1>5. /\ job' \in [Jobs -> Entries] /\ Stored' = Stored
      /\ (Stored \ Stale)' = (Stored \ Stale) \cup {j}
  BY <1>3, <1>4, EntryWritten
<1>6. Shapes' /\ Cancelling' = {}
  BY <1>3, <1>5 DEF Shapes, LoopStates, Cancelling, Idle
<1>7. RunOnce' /\ HeldIsActive'
  BY <1>3, <1>5 DEF RunOnce, HeldIsActive, Held
<1>8. Places' \subseteq Places
  BY <1>1, <1>5, <1>6 DEF Places
<1> QED
  BY <1>6, <1>7, <1>8, NoPlaceTaken DEF IInv

-----------------------------------------------------------------------------
(***************************************************************************)
(* The pool threads.                                                       *)
(***************************************************************************)
\* The entry a thread works on is there and not done.
LEMMA WorkedOn ==
  ASSUME IInv, NEW t \in Threads, thread[t].at # "idle"
  PROVE  thread[t].job \in Jobs /\ thread[t].job \in Stored \ Stale /\ thread[t] # Idle
BY Statements DEF IInv, HeldIsActive, Held

LEMMA StartKeeps ==
  ASSUME InProcessAssumption, IInv, NEW t \in Threads, Start(t)
  PROVE  IInv'
<1>1. /\ Shapes /\ RunOnce /\ HeldIsActive /\ Cancelling \subseteq Stored
      /\ thread[t].at = "idle" /\ pending # <<>>
  BY DEF IInv, Start
<1>2. /\ pending \in Seq(Jobs) /\ Len(pending) \in Nat \ {0} /\ DOMAIN pending = 1 .. Len(pending)
      /\ Head(pending) = pending[1] /\ Tail(pending) \in Seq(Jobs)
      /\ DOMAIN Tail(pending) = 1 .. Len(pending) - 1
      /\ \A i \in 1 .. Len(pending) - 1 : Tail(pending)[i] = pending[i + 1]
  BY <1>1 DEF Shapes
<1>3. PICK j : j = pending[1]
  OBVIOUS
<1>4. j \in Jobs /\ Held(j)
  BY <1>2, <1>3 DEF Held
<1>5. j \in Stored /\ j \in Stored \ Stale
  BY <1>1, <1>4 DEF HeldIsActive
<1>6. PICK e : e = [job[j] EXCEPT !.status = "running"]
  OBVIOUS
<1>7. PICK step : step = [at |-> "computing", job |-> j]
  OBVIOUS
<1>8. /\ job' = [job EXCEPT ![j] = e] /\ thread' = [thread EXCEPT ![t] = step]
      /\ pending' = Tail(pending) /\ UNCHANGED <<used, loop, events>>
  BY <1>2, <1>3, <1>6, <1>7 DEF Start
<1>9. e \in [status : Statuses, result : BOOLEAN] /\ e.status \notin Done
  BY <1>1, <1>5, <1>6, StoredEntry DEF Statuses, Done
<1>10. job' \in [Jobs -> Entries] /\ Stored' = Stored /\ (Stored \ Stale)' = Stored \ Stale
  <2>1. /\ job' \in [Jobs -> Entries] /\ Stored' = Stored
        /\ (Stored \ Stale)' = (Stored \ Stale) \cup {j}
    BY <1>1, <1>5, <1>8, <1>9, EntryWritten
  <2> QED
    BY <1>5, <2>1
<1>11. /\ step # Idle /\ step.job = j /\ step \in ThreadStates
  BY <1>4, <1>7 DEF Idle, ThreadStates
<1>12. /\ thread' \in [Threads -> ThreadStates] /\ thread'[t] = step
       /\ \A u \in Threads \ {t} : thread'[u] = thread[u]
  BY <1>1, <1>8, <1>11 DEF Shapes
<1>13. Shapes'
  BY <1>1, <1>2, <1>8, <1>10, <1>12 DEF Shapes
<1>14. thread[t] = Idle
  BY <1>1, Statements
<1>15. \A k \in Jobs : Held(k)' => Held(k)
  <2> SUFFICES ASSUME NEW k \in Jobs, Held(k)' PROVE Held(k)
    OBVIOUS
  <2>1. CASE \E i \in DOMAIN pending' : pending'[i] = k
    <3>1. PICK i \in 1 .. Len(pending) - 1 : pending[i + 1] = k
      BY <1>2, <1>8, <2>1
    <3>2. i + 1 \in DOMAIN pending
      BY <1>2
    <3> QED
      BY <3>1, <3>2 DEF Held
  <2>2. CASE \E u \in Threads : thread'[u] # Idle /\ thread'[u].job = k
    BY <1>4, <1>11, <1>12, <2>2 DEF Held
  <2> QED
    BY <2>1, <2>2 DEF Held
<1>16. HeldIsActive'
  BY <1>1, <1>8, <1>10, <1>15 DEF HeldIsActive
<1>17. RunOnce'
  <2>1. \A i \in 1 .. Len(pending) - 1 : i + 1 \in DOMAIN pending /\ i + 1 # 1 /\ 1 \in DOMAIN pending
    BY <1>2
  <2>2. IsInjective(pending')
    <3>1. /\ DOMAIN pending' = 1 .. Len(pending) - 1
          /\ \A i \in 1 .. Len(pending) - 1 : pending'[i] = pending[i + 1]
      BY <1>2, <1>8
    <3>2. ASSUME NEW i \in 1 .. Len(pending) - 1, NEW k \in 1 .. Len(pending) - 1,
                 pending[i + 1] = pending[k + 1]
          PROVE  i = k
      <4>1. i + 1 = k + 1
        BY <1>1, <2>1, <3>2 DEF RunOnce, IsInjective
      <4> QED
        BY <4>1
    <3> QED
      BY <3>1, <3>2 DEF IsInjective
  <2>3. \A i \in 1 .. Len(pending) - 1 : pending[i + 1] # j
    BY <1>1, <1>3, <2>1 DEF RunOnce, IsInjective
  <2>4. \A u \in Threads \ {t} : thread[u] # Idle => thread[u].job # j
    BY <1>1, <1>3, <2>1, <1>2 DEF RunOnce
  <2>5. \A u, v \in Threads : u # v /\ thread'[u] # Idle /\ thread'[v] # Idle
          => thread'[u].job # thread'[v].job
    BY <1>1, <1>11, <1>12, <2>4 DEF RunOnce
  <2>6. \A u \in Threads, i \in DOMAIN pending' : thread'[u] # Idle => thread'[u].job # pending'[i]
    <3> SUFFICES ASSUME NEW u \in Threads, NEW i \in 1 .. Len(pending) - 1, thread'[u] # Idle
                 PROVE  thread'[u].job # pending[i + 1]
      BY <1>2, <1>8
    <3>1. CASE u = t
      BY <1>11, <1>12, <2>3, <3>1
    <3>2. CASE u # t
      BY <1>1, <1>12, <2>1, <3>2 DEF RunOnce
    <3> QED
      BY <3>1, <3>2
  <2> QED
    BY <2>2, <2>5, <2>6 DEF RunOnce
<1>18. Cancelling' = Cancelling /\ Places' \subseteq Places
  BY <1>8, <1>10 DEF Cancelling, Places
<1> QED
  BY <1>1, <1>10, <1>13, <1>16, <1>17, <1>18, NoPlaceTaken DEF IInv

\* A thread goes on with its job, or is done with it.
LEMMA ThreadMoves ==
  ASSUME InProcessAssumption, IInv, NEW t \in Threads, NEW step \in ThreadStates,
         thread[t].at # "idle", step # Idle => step.job = thread[t].job,
         thread' = [thread EXCEPT ![t] = step], UNCHANGED <<used, pending, loop, events>>,
         job' \in [Jobs -> Entries], Stored' = Stored,
         (Stored \ Stale)' = IF step = Idle THEN (Stored \ Stale) \ {thread[t].job}
                             ELSE Stored \ Stale
  PROVE  IInv'
<1>1. Shapes /\ RunOnce /\ HeldIsActive /\ Cancelling \subseteq Stored
  BY DEF IInv
<1>2. /\ thread' \in [Threads -> ThreadStates] /\ thread'[t] = step
      /\ \A u \in Threads \ {t} : thread'[u] = thread[u]
  BY <1>1 DEF Shapes
<1>3. Shapes'
  BY <1>1, <1>2 DEF Shapes
<1>4. thread[t] # Idle /\ thread[t].job \in Jobs
  BY WorkedOn
<1>5. RunOnce'
  BY <1>1, <1>2, <1>4 DEF RunOnce
<1>6. \A k \in Jobs : Held(k)' => Held(k) /\ (step = Idle => k # thread[t].job)
  <2> SUFFICES ASSUME NEW k \in Jobs, Held(k)' PROVE Held(k) /\ (step = Idle => k # thread[t].job)
    OBVIOUS
  <2>1. CASE \E i \in DOMAIN pending : pending[i] = k
    BY <1>1, <1>4, <2>1 DEF RunOnce, Held
  <2>2. CASE \E u \in Threads : thread'[u] # Idle /\ thread'[u].job = k
    BY <1>1, <1>2, <1>4, <2>2 DEF RunOnce, Held
  <2> QED
    BY <2>1, <2>2 DEF Held
<1>7. HeldIsActive'
  BY <1>1, <1>6 DEF HeldIsActive
<1>8. Cancelling' = Cancelling /\ Places' \subseteq Places
  BY DEF Cancelling, Places
<1> QED
  BY <1>1, <1>3, <1>5, <1>7, <1>8, NoPlaceTaken DEF IInv

LEMMA ThreadKeeps ==
  ASSUME InProcessAssumption, IInv, NEW t \in Threads,
         Completes(t) \/ (\E s \in Done \ {"completed"} : Raises(t, s)) \/ WriteStatus(t)
  PROVE  IInv'
<1>1. Shapes /\ thread[t].at # "idle"
  BY DEF IInv, Completes, Raises, WriteStatus
<1>2. PICK j \in Jobs : j = thread[t].job
  BY <1>1, WorkedOn
<1>3. j \in Stored /\ j \in Stored \ Stale
  BY <1>1, <1>2, WorkedOn
<1>4. job[j].status \notin Done
  BY <1>2, <1>3 DEF Stale
<1>5. CASE Completes(t)
  <2>1. PICK e : e = [job[j] EXCEPT !.result = TRUE]
    OBVIOUS
  <2>2. PICK step : step = [at |-> "status", job |-> j, status |-> "completed"]
    OBVIOUS
  <2>3. /\ job' = [job EXCEPT ![j] = e] /\ thread' = [thread EXCEPT ![t] = step]
        /\ UNCHANGED <<used, pending, loop, events>>
    BY <1>2, <1>5, <2>1, <2>2 DEF Completes
  <2>4. e \in [status : Statuses, result : BOOLEAN] /\ e.status \notin Done
    BY <1>1, <1>3, <1>4, <2>1, StoredEntry
  <2>5. job' \in [Jobs -> Entries] /\ Stored' = Stored /\ (Stored \ Stale)' = Stored \ Stale
    <3>1. /\ job' \in [Jobs -> Entries] /\ Stored' = Stored
          /\ (Stored \ Stale)' = (Stored \ Stale) \cup {j}
      BY <1>1, <1>3, <2>3, <2>4, EntryWritten
    <3> QED
      BY <1>3, <3>1
  <2>6. step \in ThreadStates /\ step.job = j /\ step # Idle
    BY <2>2 DEF ThreadStates, Done, Idle
  <2> QED
    BY <1>1, <1>2, <2>3, <2>5, <2>6, ThreadMoves
<1>6. CASE \E s \in Done \ {"completed"} : Raises(t, s)
  <2>1. PICK s \in Done \ {"completed"} : Raises(t, s)
    BY <1>6
  <2>2. PICK step : step = [at |-> "status", job |-> j, status |-> s]
    OBVIOUS
  <2>3. job' = job /\ thread' = [thread EXCEPT ![t] = step] /\ UNCHANGED <<used, pending, loop, events>>
    BY <1>2, <2>1, <2>2 DEF Raises
  <2>4. job' \in [Jobs -> Entries] /\ Stored' = Stored /\ (Stored \ Stale)' = Stored \ Stale
    BY <1>1, <2>3 DEF Shapes, Stored, Stale
  <2>5. step \in ThreadStates /\ step.job = j /\ step # Idle
    BY <2>2 DEF ThreadStates, Idle
  <2> QED
    BY <1>1, <1>2, <2>3, <2>4, <2>5, ThreadMoves
<1>7. CASE WriteStatus(t)
  <2>1. PICK s \in Done : s = thread[t].status
    BY <1>1, <1>7, Statements DEF WriteStatus
  <2>2. PICK e : e = [job[j] EXCEPT !.status = s]
    OBVIOUS
  <2>3. job' = [job EXCEPT ![j] = e] /\ thread' = [thread EXCEPT ![t] = Idle]
        /\ UNCHANGED <<used, pending, loop, events>>
    BY <1>2, <1>7, <2>1, <2>2 DEF WriteStatus
  <2>4. e \in [status : Statuses, result : BOOLEAN] /\ e.status \in Done
    BY <1>1, <1>3, <2>1, <2>2, StoredEntry DEF Statuses
  <2>5. job' \in [Jobs -> Entries] /\ Stored' = Stored /\ (Stored \ Stale)' = (Stored \ Stale) \ {j}
    BY <1>1, <1>3, <2>3, <2>4, EntryWritten
  <2>6. Idle \in ThreadStates
    BY DEF ThreadStates
  <2> QED
    BY <1>1, <1>2, <2>3, <2>5, <2>6, ThreadMoves
<1> QED
  BY <1>5, <1>6, <1>7

-----------------------------------------------------------------------------
(***************************************************************************)
(* The invariant holds, and with it what the run checks.                   *)
(***************************************************************************)
LEMMA InitHolds == ASSUME InProcessAssumption, Init PROVE IInv
<1>1. Stored = {} /\ Cancelling = {} /\ Places = {}
  BY DEF Init, Stored, Cancelling, Places, Idle
<1>2. Shapes
  BY DEF Init, Shapes, Entries, ThreadStates, LoopStates
<1>3. RunOnce /\ HeldIsActive
  BY DEF Init, RunOnce, HeldIsActive, Held, IsInjective
<1> QED
  BY <1>1, <1>2, <1>3, FS_EmptySet DEF IInv, InProcessAssumption

LEMMA StepKeeps == ASSUME InProcessAssumption, IInv, [Next]_vars PROVE IInv'
<1>1. CASE UNCHANGED vars
  <2>1. Stored' = Stored /\ Stale' = Stale /\ Cancelling' = Cancelling
    BY <1>1 DEF vars, Stored, Stale, Cancelling
  <2> QED
    BY <1>1, <2>1 DEF vars, IInv, Shapes, RunOnce, HeldIsActive, Held, Places
<1>2. CASE Next
  <2>1. CASE \E j \in Jobs : Submit(j)
    BY <2>1, SubmitKeeps
  <2>2. CASE (\E j \in Jobs : CancelRead(j) \/ GetResult(j)) \/ CancelEvent \/ GetStatus \/ GetDone
    BY <2>2, LoopKeeps
  <2>3. CASE QueueFull \/ CancelWrite
    BY <2>3, QueueFullKeeps, CancelWriteKeeps
  <2>4. CASE \E t \in Threads : Work(t)
    BY <2>4, StartKeeps, ThreadKeeps DEF Work
  <2> QED
    BY <1>2, <2>1, <2>2, <2>3, <2>4 DEF Next, LoopStep
<1> QED
  BY <1>1, <1>2

LEMMA InvariantSuffices == ASSUME InProcessAssumption, IInv PROVE InProcessSafe
<1>1. Shapes /\ RunOnce /\ HeldIsActive /\ Cardinality(Places) <= MaxJobs
  BY DEF IInv
<1>2. TypeOK
  BY <1>1, Statements DEF Shapes, Entries, Gone, Statuses, Done, TypeOK
<1>3. DroppedIsFinished
  BY <1>1 DEF HeldIsActive, DroppedIsFinished
<1>4. Cardinality(Stored \ Stale) <= MaxJobs /\ IsFiniteSet(Stored \ Stale)
      /\ Cardinality(Stored \ Stale) \in Nat
  BY <1>1, PlacesFinite DEF InProcessAssumption
<1>5. Len(pending) <= MaxJobs
  <2>1. Len(pending) \in Nat /\ DOMAIN pending = 1 .. Len(pending)
    BY <1>1 DEF Shapes
  <2>2. \A i \in 1 .. Len(pending) : pending[i] \in Stored \ Stale
    <3> SUFFICES ASSUME NEW i \in 1 .. Len(pending) PROVE pending[i] \in Stored \ Stale
      OBVIOUS
    <3>1. pending[i] \in Jobs /\ Held(pending[i])
      BY <1>1, <2>1 DEF Shapes, Held
    <3> QED
      BY <1>1, <3>1 DEF HeldIsActive
  <2>3. pending \in [1 .. Len(pending) -> Stored \ Stale]
    BY <1>1, <2>1, <2>2 DEF Shapes
  <2>4. pending \in Injection(1 .. Len(pending), Stored \ Stale)
    BY <1>1, <2>1, <2>3 DEF RunOnce, IsInjective, Injection
  <2>5. Cardinality(1 .. Len(pending)) <= Cardinality(Stored \ Stale)
    BY <1>4, <2>4, FS_Injection
  <2>6. Cardinality(1 .. Len(pending)) = Len(pending)
    <3>1. PICK n \in Nat : n = Len(pending)
      BY <2>1
    <3>2. Cardinality(1 .. n) = IF 1 > n THEN 0 ELSE n - 1 + 1
      BY FS_Interval
    <3> QED
      BY <3>1, <3>2
  <2> QED
    BY <1>4, <2>1, <2>5, <2>6 DEF InProcessAssumption
<1> QED
  BY <1>1, <1>2, <1>3, <1>4, <1>5 DEF InProcessSafe, CapacityHolds

\* Dictionary, executor queue and pool threads agree though they share no lock:
\* every job a thread holds or will hold has its entry, runs once, and there are
\* never more active entries than places (submit_analysis_job, InProcessJobBackend).
THEOREM InProcessStaysSafe == ASSUME InProcessAssumption PROVE Spec => []InProcessSafe
<1>1. Init => IInv
  BY InitHolds
<1>2. IInv /\ [Next]_vars => IInv'
  BY StepKeeps
<1>3. IInv => InProcessSafe
  BY InvariantSuffices
<1> QED
  BY <1>1, <1>2, <1>3, PTL DEF Spec

-----------------------------------------------------------------------------
(***************************************************************************)
(* SolverSidecar: the cache and the answers follow the processes.          *)
(***************************************************************************)
Calls == {NoCall} \cup [at : {"get", "wait", "put"}, spot : Spots]
           \cup [at : {"done"}, spot : Spots, outcome : Outcomes]

CallShapes ==
    /\ cached \subseteq Spots /\ call \in [Callers -> Calls]
    /\ proc \in [Callers -> Ended \cup {"none", "running"}] /\ event \subseteq Workers
    /\ calls \in [Callers -> 0 .. MaxCalls] /\ solved \in [Spots -> Nat]

\* Where a call is, what its process has come to, and what the cache knows of it.
CallFits(k, ended, stopped, rows, count) ==
    /\ k.at \in {"idle", "get"} => ended = "none"
    /\ k.at = "put" => ended = "ok"
    /\ k.at \in {"wait", "put"} /\ ended = "ok" => count[k.spot] > 0
    /\ k.at = "done" => /\ ended # "running"
                        /\ k.outcome = "solved" => k.spot \in rows
                        /\ k.outcome = "cancelled" => stopped

CInv ==
    /\ CallShapes /\ \A s \in cached : solved[s] > 0
    /\ \A c \in Callers : CallFits(call[c], proc[c], c \in event, cached, solved)

\* One caller's call and process move; the cache and the counts only grow.
LEMMA CallMoves ==
  ASSUME SidecarAssumption, CInv, NEW c \in Callers, NEW k \in Calls,
         NEW ended \in Ended \cup {"none", "running"},
         call' = [call EXCEPT ![c] = k], proc' = [proc EXCEPT ![c] = ended],
         cached' \subseteq Spots, cached \subseteq cached', event' \subseteq Workers,
         \A d \in Callers \ {c} : d \in event' <=> d \in event,
         calls' \in [Callers -> 0 .. MaxCalls], solved' \in [Spots -> Nat],
         \A s \in Spots : solved[s] > 0 => solved'[s] > 0,
         \A s \in cached' \ cached : solved'[s] > 0,
         CallFits(k, ended, c \in event', cached', solved')
  PROVE  CInv'
<1>1. call \in [Callers -> Calls] /\ proc \in [Callers -> Ended \cup {"none", "running"}]
      /\ cached \subseteq Spots
  BY DEF CInv, CallShapes
<1>2. CallShapes'
  BY <1>1 DEF CallShapes
<1>3. \A s \in cached' : solved'[s] > 0
  BY <1>1 DEF CInv
<1>4. ASSUME NEW d \in Callers, d # c
      PROVE  CallFits(call[d], proc[d], d \in event, cached, solved)'
  <2>1. PICK q \in Calls : q = call[d] /\ q = call'[d] /\ proc'[d] = proc[d]
    BY <1>1, <1>4
  <2>2. CallFits(q, proc[d], d \in event, cached, solved)
    BY <2>1 DEF CInv
  <2>3. q.at \in {"wait", "put"} => q.spot \in Spots
    BY DEF Calls, NoCall
  <2>4. CallFits(q, proc[d], d \in event', cached', solved')
    BY <1>4, <2>2, <2>3 DEF CallFits
  <2> QED
    BY <2>1, <2>4
<1>5. CallFits(call[c], proc[c], c \in event, cached, solved)'
  <2>1. call'[c] = k /\ proc'[c] = ended
    BY <1>1
  <2> QED
    BY <2>1
<1> QED
  BY <1>2, <1>3, <1>4, <1>5 DEF CInv

LEMMA AtCall ==
  ASSUME CInv, NEW c \in Callers
  PROVE  \E k \in Calls, ended \in Ended \cup {"none", "running"} :
            /\ k = call[c] /\ ended = proc[c]
            /\ proc = [proc EXCEPT ![c] = ended] /\ call = [call EXCEPT ![c] = k]
            /\ CallFits(k, ended, c \in event, cached, solved)
            /\ k.at \in {"get", "wait", "put", "done"} => k.spot \in Spots
<1>1. call \in [Callers -> Calls] /\ proc \in [Callers -> Ended \cup {"none", "running"}]
  BY DEF CInv, CallShapes
<1>2. \A k \in Calls : k.at \in {"get", "wait", "put", "done"} => k.spot \in Spots
  BY DEF Calls, NoCall
<1>3. CallFits(call[c], proc[c], c \in event, cached, solved)
  BY DEF CInv
<1>4. proc = [proc EXCEPT ![c] = proc[c]] /\ call = [call EXCEPT ![c] = call[c]]
  BY <1>1
<1>5. call[c] \in Calls /\ proc[c] \in Ended \cup {"none", "running"}
  BY <1>1
<1> QED
  BY <1>2, <1>3, <1>4, <1>5

LEMMA CallShapesKept ==
  ASSUME CInv
  PROVE  /\ cached \subseteq Spots /\ event \subseteq Workers
         /\ calls \in [Callers -> 0 .. MaxCalls] /\ solved \in [Spots -> Nat]
BY DEF CInv, CallShapes

LEMMA BeginFits ==
  ASSUME SidecarAssumption, CInv, NEW c \in Callers, NEW s \in Spots, Begin(c, s)
  PROVE  CInv'
<1>1. PICK k : k = [at |-> "get", spot |-> s]
  OBVIOUS
<1>2. k \in Calls /\ k.at = "get"
  BY <1>1 DEF Calls
<1>3. call' = [call EXCEPT ![c] = k] /\ proc' = [proc EXCEPT ![c] = "none"]
      /\ event' = event \ {c} /\ UNCHANGED <<cached, solved>>
  BY <1>1 DEF Begin
<1>4. calls' \in [Callers -> 0 .. MaxCalls]
  <2>1. calls[c] \in 0 .. MaxCalls /\ calls[c] < MaxCalls /\ MaxCalls \in Nat
    BY CallShapesKept DEF Begin, SidecarAssumption
  <2>2. calls[c] + 1 \in 0 .. MaxCalls
    BY <2>1
  <2> QED
    BY <2>2, CallShapesKept DEF Begin
<1>5. CallFits(k, "none", c \in event', cached', solved')
  BY <1>2 DEF CallFits
<1> QED
  BY <1>2, <1>3, <1>4, <1>5, CallShapesKept, CallMoves

LEMMA CancelFits ==
  ASSUME SidecarAssumption, CInv, NEW c \in Callers, Cancel(c)
  PROVE  CInv'
<1>1. PICK k \in Calls, ended \in Ended \cup {"none", "running"} :
          /\ k = call[c] /\ ended = proc[c]
          /\ proc = [proc EXCEPT ![c] = ended] /\ call = [call EXCEPT ![c] = k]
          /\ CallFits(k, ended, c \in event, cached, solved)
  BY AtCall
<1>2. event' = event \cup {c} /\ c \in Workers /\ k.at # "done"
      /\ UNCHANGED <<cached, call, proc, calls, solved>>
  BY <1>1 DEF Cancel
<1>3. CallFits(k, ended, c \in event', cached', solved')
  BY <1>1, <1>2 DEF CallFits
<1> QED
  BY <1>1, <1>2, <1>3, CallShapesKept, CallMoves

LEMMA ProcessFits ==
  ASSUME SidecarAssumption, CInv, NEW c \in Callers, ProcessStep(c)
  PROVE  CInv'
<1>1. PICK k \in Calls, ended \in Ended \cup {"none", "running"} :
          /\ k = call[c] /\ ended = proc[c] /\ call = [call EXCEPT ![c] = k]
          /\ CallFits(k, ended, c \in event, cached, solved)
          /\ k.at \in {"get", "wait", "put", "done"} => k.spot \in Spots
  BY AtCall
<1>2. ended = "running" /\ UNCHANGED <<cached, call, event, calls>>
  BY <1>1 DEF ProcessStep, Exits, WatcherKills, TimesOut
<1>3. k.at = "wait" /\ k.spot \in Spots
  BY <1>1, <1>2 DEF CallFits, Calls, NoCall
<1>4. CASE Exits(c, "ok")
  <2>1. proc' = [proc EXCEPT ![c] = "ok"] /\ solved' = [solved EXCEPT ![k.spot] = @ + 1]
    BY <1>1, <1>4 DEF Exits
  <2>2. /\ solved' \in [Spots -> Nat] /\ solved'[k.spot] > 0
        /\ \A s \in Spots : solved[s] > 0 => solved'[s] > 0
    BY <1>3, <2>1, CallShapesKept
  <2>3. CallFits(k, "ok", c \in event', cached', solved')
    BY <1>3, <2>2 DEF CallFits
  <2> QED
    BY <1>1, <1>2, <2>1, <2>2, <2>3, CallShapesKept, CallMoves DEF Ended
<1>5. CASE Exits(c, "failed") \/ WatcherKills(c) \/ TimesOut(c)
  <2>1. PICK code \in {"failed", "killed"} : proc' = [proc EXCEPT ![c] = code]
    BY <1>5 DEF Exits, WatcherKills, TimesOut
  <2>2. solved' = solved
    BY <1>5 DEF Exits, WatcherKills, TimesOut
  <2>3. CallFits(k, code, c \in event', cached', solved')
    BY <1>3 DEF CallFits
  <2> QED
    BY <1>1, <1>2, <2>1, <2>2, <2>3, CallShapesKept, CallMoves DEF Ended
<1> QED
  BY <1>4, <1>5 DEF ProcessStep

LEMMA CallerFits ==
  ASSUME SidecarAssumption, CInv, NEW c \in Callers, CallerStep(c)
  PROVE  CInv'
<1>1. PICK k \in Calls, ended \in Ended \cup {"none", "running"} :
          /\ k = call[c] /\ ended = proc[c] /\ proc = [proc EXCEPT ![c] = ended]
          /\ CallFits(k, ended, c \in event, cached, solved)
          /\ k.at \in {"get", "wait", "put", "done"} => k.spot \in Spots
  BY AtCall
<1>2. k.at \in {"get", "wait", "put"} /\ k.spot \in Spots
  BY <1>1 DEF CallerStep, Hit, Miss, Collect, Put, At
<1>3. UNCHANGED <<event, calls, solved>>
  BY DEF CallerStep, Hit, Miss, Collect, Put
<1> DEFINE back(outcome) == [at |-> "done", spot |-> k.spot, outcome |-> outcome]
           on(where) == [at |-> where, spot |-> k.spot]
<1>4. \A outcome \in Outcomes : back(outcome) \in Calls
  BY <1>2 DEF Calls
<1>5. \A where \in {"wait", "put"} : on(where) \in Calls /\ [k EXCEPT !.at = where] = on(where)
  BY <1>2 DEF Calls, NoCall, Outcomes
<1>6. \A where \in {"wait", "put"} : Goes(c, where) => call' = [call EXCEPT ![c] = on(where)]
  <2>1. \A where : Goes(c, where) => call' = [call EXCEPT ![c] = [k EXCEPT !.at = where]]
    BY <1>1, CInv DEF Goes, CInv, CallShapes
  <2> QED
    BY <1>5, <2>1
<1>7. \A outcome : Returns(c, outcome) => call' = [call EXCEPT ![c] = back(outcome)]
  BY <1>1 DEF Returns
<1>8. \A outcome : back(outcome).at = "done" /\ back(outcome).spot = k.spot /\ back(outcome).outcome = outcome
  OBVIOUS
<1>9. \A where : on(where).at = where /\ on(where).spot = k.spot
  OBVIOUS
<1> HIDE DEF back, on
<1>10. CASE Hit(c)
  <2>1. k.at = "get" /\ k.spot \in cached /\ Returns(c, "solved") /\ UNCHANGED <<cached, proc>>
    BY <1>1, <1>10 DEF Hit, At
  <2>2. CallFits(back("solved"), ended, c \in event', cached', solved')
    BY <1>1, <1>8, <2>1 DEF CallFits
  <2> QED
    BY <1>1, <1>3, <1>4, <1>7, <2>1, <2>2, CallShapesKept, CallMoves DEF Outcomes
<1>11. CASE Miss(c)
  <2>1. Goes(c, "wait") /\ proc' = [proc EXCEPT ![c] = "running"] /\ cached' = cached
    BY <1>11 DEF Miss
  <2>2. CallFits(on("wait"), "running", c \in event', cached', solved')
    BY <1>9 DEF CallFits
  <2> QED
    BY <1>3, <1>5, <1>6, <2>1, <2>2, CallShapesKept, CallMoves
<1>12. CASE Collect(c)
  <2>1. k.at = "wait" /\ ended \in Ended /\ UNCHANGED <<cached, proc>>
    BY <1>1, <1>12 DEF Collect, At
  <2>2. CASE Collected(c) = "put"
    <3>1. ended = "ok" /\ Goes(c, "put")
      BY <1>1, <1>12, <2>2 DEF Collect, Collected
    <3>2. CallFits(on("put"), ended, c \in event', cached', solved')
      BY <1>1, <1>3, <1>9, <2>1, <3>1 DEF CallFits
    <3> QED
      BY <1>1, <1>3, <1>5, <1>6, <2>1, <3>1, <3>2, CallShapesKept, CallMoves
  <2>3. CASE Collected(c) # "put"
    <3>1. PICK outcome \in {"cancelled", "failed"} :
              outcome = Collected(c) /\ (outcome = "cancelled" => c \in event)
      BY <2>3 DEF Collected
    <3>2. Returns(c, outcome)
      BY <1>12, <2>3, <3>1 DEF Collect
    <3>3. CallFits(back(outcome), ended, c \in event', cached', solved')
      BY <1>3, <1>8, <2>1, <3>1 DEF CallFits, Ended
    <3> QED
      BY <1>1, <1>3, <1>4, <1>7, <2>1, <3>2, <3>3, CallShapesKept, CallMoves DEF Outcomes
  <2> QED
    BY <2>2, <2>3
<1>13. CASE Put(c)
  <2>1. k.at = "put" /\ cached' = cached \cup {k.spot} /\ Returns(c, "solved") /\ proc' = proc
    BY <1>1, <1>13 DEF Put, At
  <2>2. ended = "ok" /\ solved[k.spot] > 0
    BY <1>1, <2>1 DEF CallFits
  <2>3. CallFits(back("solved"), ended, c \in event', cached', solved')
    BY <1>8, <2>1, <2>2 DEF CallFits
  <2>4. back("solved") \in Calls /\ call' = [call EXCEPT ![c] = back("solved")]
    BY <1>4, <1>7, <2>1 DEF Outcomes
  <2>5. cached' \subseteq Spots /\ cached \subseteq cached' /\ proc' = [proc EXCEPT ![c] = ended]
    BY <1>1, <1>2, <2>1 DEF CInv, CallShapes
  <2>6. \A s \in cached' \ cached : solved'[s] > 0
    BY <1>3, <2>1, <2>2
  <2> QED
    BY <1>1, <1>2, <1>3, <2>3, <2>4, <2>5, <2>6, CallShapesKept, CallMoves
<1> QED
  BY <1>10, <1>11, <1>12, <1>13 DEF CallerStep

LEMMA CallsStep == ASSUME SidecarAssumption, CInv, [SidecarNext]_sidecarVars PROVE CInv'
<1>1. CASE UNCHANGED sidecarVars
  <2>1. UNCHANGED <<cached, call, proc, event, calls, solved>>
    BY <1>1 DEF sidecarVars
  <2> QED
    BY <2>1 DEF CInv, CallShapes, CallFits
<1>2. CASE SidecarNext
  BY <1>2, BeginFits, CancelFits, ProcessFits, CallerFits DEF SidecarNext
<1> QED
  BY <1>1, <1>2

LEMMA CallsInit == ASSUME SidecarAssumption, SidecarInit PROVE CInv
<1>1. CallShapes
  BY DEF SidecarInit, CallShapes, Calls, SidecarAssumption
<1>2. ASSUME NEW c \in Callers PROVE CallFits(call[c], proc[c], c \in event, cached, solved)
  BY DEF SidecarInit, CallFits, NoCall
<1> QED
  BY <1>1, <1>2 DEF CInv, SidecarInit

LEMMA CallsSuffice == ASSUME SidecarAssumption, CInv PROVE SidecarSafe
<1>1. CallShapes
  BY DEF CInv
<1>2. CallsTyped
  <2>1. ASSUME NEW c \in Callers
        PROVE  \/ call[c] = NoCall
               \/ /\ call[c].spot \in Spots
                  /\ call[c].at \in {"get", "wait", "put"}
                     \/ (call[c].at = "done" /\ call[c].outcome \in Outcomes)
    BY <1>1 DEF CallShapes, Calls
  <2> QED
    BY <1>1, <2>1 DEF CallsTyped, CallShapes
<1>3. CacheIsSolved
  BY DEF CInv, CallFits, CacheIsSolved
<1>4. AnswersFollow
  BY DEF CInv, CallFits, AnswersFollow, At
<1> QED
  BY <1>2, <1>3, <1>4 DEF SidecarSafe

\* However many callers solve however many spots, are cancelled, time out or
\* lose their process: the cache holds only what the sidecar solved, "solved" is
\* answered for a cached spot only, "cancelled" only after the caller's own
\* event, and no process outlives its call (solve_with_cache, _run_cancellable).
THEOREM SidecarStaysSafe == ASSUME SidecarAssumption PROVE SidecarSpec => []SidecarSafe
<1>1. SidecarInit => CInv
  BY CallsInit
<1>2. CInv /\ [SidecarNext]_sidecarVars => CInv'
  BY CallsStep
<1>3. CInv => SidecarSafe
  BY CallsSuffice
<1> QED
  BY <1>1, <1>2, <1>3, PTL DEF SidecarSpec

=============================================================================
