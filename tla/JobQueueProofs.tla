--------------------------- MODULE JobQueueProofs ---------------------------
(***************************************************************************)
(* Proofs about JobQueue for any number of jobs, workers, callers and      *)
(* deaths.  A job's place decides what its status, its flag and the number *)
(* of its computations can be: submitted but not pushed, on the list, or   *)
(* in the hands of one worker that has or has not started it.              *)
(*                                                                         *)
(* And about RiverTheory, the answers a table's river solver gives and     *)
(* keeps, for any stacks, budget, size of the cache and number of hands.   *)
(***************************************************************************)
EXTENDS JobQueue, RiverTheory, FiniteSetTheorems, SequenceTheorems, TLAPS

Rows == [status : Statuses \cup {"none"}, cancelRequested : BOOLEAN]
Unstarted == {"popped", "drop", "mark", "count", "start"}
WorkerPlaces == {"idle", "computing", "finish", "result", "uncount"} \cup Unstarted
CallerPlaces == {"idle", "push", "flag", "remove", "settle", "request", "get", "got"}

Shapes ==
    /\ hash \in [Jobs -> Rows]
    /\ \A j \in Jobs : hash[j].status = "none" => hash[j] = NoHash
    /\ given \subseteq Jobs /\ results \subseteq Jobs /\ events \subseteq Jobs
    /\ flagged \subseteq Jobs /\ answered \subseteq Jobs
    /\ queue \in Seq(Jobs) /\ running \in Int /\ deaths \in 0 .. MaxDeaths
    /\ computed \in [Jobs -> Nat]
    /\ worker = [w \in Workers |-> worker[w]] /\ caller = [c \in Callers |-> caller[c]]

\* Processes only work on ids that submit has pushed; one it has not is its own.
Known(step) == /\ step.at \in WorkerPlaces
               /\ step.at # "idle" => step.job \in given
               /\ step.at \in {"count", "uncount"} => CountsRunning
               /\ step.at = "finish" => step.status \in Ends
WorkersKnow == \A w \in Workers : Known(worker[w])
CallersKnow ==
    /\ \A c \in Callers :
          /\ caller[c].at \in CallerPlaces
          /\ caller[c].at \notin {"idle", "push"} => caller[c].job \in given
          /\ caller[c].at = "push" => /\ caller[c].job \in Jobs \ given
                                      /\ hash[caller[c].job].status # "none"
    /\ \A c, d \in Callers :
          caller[c].at = "push" /\ caller[d].at = "push" /\ caller[c].job = caller[d].job => c = d
Pushed ==
    /\ \A j \in Jobs : InQueue(j) => j \in given
    /\ \A j \in given : hash[j].status # "none"

\* What is not started is not computed.
ComputedLater ==
    /\ \A j \in Jobs : j \notin given \/ InQueue(j) => computed[j] = 0
    /\ \A w \in Workers : worker[w].at \in Unstarted => computed[worker[w].job] = 0

\* A flag set in time is seen by whoever pops the job.
FlagsAreSeen ==
    /\ \A j \in flagged : j \in given /\ hash[j].cancelRequested
    /\ \A w \in Workers : worker[w].at \in Unstarted /\ worker[w].job \in flagged
                            => worker[w].at \in {"popped", "drop"}

IInv == /\ Shapes /\ WorkersKnow /\ CallersKnow /\ Pushed /\ OneHolder /\ ComputedOnce
        /\ ComputedLater /\ FlagsAreSeen /\ FlaggedNeverRuns /\ NotLost /\ RunningCounts

-----------------------------------------------------------------------------
(***************************************************************************)
(* The list: what LPUSH, RPOP and LREM do to the set of ids on it.         *)
(***************************************************************************)
On(list, j) == \E i \in DOMAIN list : list[i] = j

LEMMA PushedList ==
  ASSUME NEW list \in Seq(Jobs), IsInjective(list), NEW k \in Jobs, ~On(list, k)
  PROVE  /\ <<k>> \o list \in Seq(Jobs) /\ IsInjective(<<k>> \o list)
         /\ \A j : On(<<k>> \o list, j) <=> On(list, j) \/ j = k
<1> DEFINE longer == <<k>> \o list
<1>1. /\ longer \in Seq(Jobs) /\ Len(longer) = Len(list) + 1
      /\ longer[1] = k /\ \A i \in 1 .. Len(list) : longer[i + 1] = list[i]
  OBVIOUS
<1>2. /\ DOMAIN longer = 1 .. Len(list) + 1 /\ DOMAIN list = 1 .. Len(list) /\ Len(list) \in Nat
  BY <1>1
<1>3. \A i \in DOMAIN longer : i = 1 \/ (i - 1 \in DOMAIN list /\ longer[i] = list[i - 1])
  BY <1>1, <1>2
<1> HIDE DEF longer
<1>4. IsInjective(longer)
  BY <1>1, <1>2, <1>3 DEF IsInjective, On
<1>5. \A j : On(longer, j) <=> On(list, j) \/ j = k
  <2>1. ASSUME NEW j, On(longer, j) PROVE On(list, j) \/ j = k
    BY <1>1, <1>3, <2>1 DEF On
  <2>2. ASSUME NEW j, On(list, j) PROVE On(longer, j)
    <3>1. PICK i \in DOMAIN list : list[i] = j
      BY <2>2 DEF On
    <3>2. i + 1 \in DOMAIN longer /\ longer[i + 1] = j
      BY <1>1, <1>2, <3>1
    <3> QED
      BY <3>2 DEF On
  <2>3. On(longer, k)
    BY <1>1, <1>2 DEF On
  <2> QED
    BY <2>1, <2>2, <2>3
<1> QED
  BY <1>1, <1>4, <1>5 DEF longer

LEMMA PoppedList ==
  ASSUME NEW list \in Seq(Jobs), IsInjective(list), list # <<>>
  PROVE  /\ Front(list) \in Seq(Jobs) /\ IsInjective(Front(list))
         /\ Last(list) \in Jobs /\ On(list, Last(list))
         /\ \A j : On(Front(list), j) <=> On(list, j) /\ j # Last(list)
<1>1. /\ Len(list) \in Nat /\ Len(list) >= 1 /\ DOMAIN list = 1 .. Len(list)
      /\ Last(list) = list[Len(list)]
  BY DEF Last
<1>2. /\ Front(list) \in Seq(Jobs) /\ DOMAIN Front(list) = 1 .. Len(list) - 1
      /\ \A i \in 1 .. Len(list) - 1 : Front(list)[i] = list[i]
  BY <1>1 DEF Front
<1> QED
  BY <1>1, <1>2 DEF IsInjective, On

\* A list without one of its elements.
LEMMA RemovedAt ==
  ASSUME NEW S, NEW list \in Seq(S), NEW i \in 1 .. Len(list)
  PROVE  /\ RemoveAt(list, i) \in Seq(S) /\ Len(RemoveAt(list, i)) = Len(list) - 1
         /\ DOMAIN RemoveAt(list, i) = 1 .. Len(list) - 1
         /\ \A m \in 1 .. Len(list) - 1 : RemoveAt(list, i)[m] = IF m < i THEN list[m] ELSE list[m + 1]
<1> DEFINE head == SubSeq(list, 1, i - 1)
           tail == SubSeq(list, i + 1, Len(list))
           less == head \o tail
<1>1. Len(list) \in Nat /\ DOMAIN list = 1 .. Len(list)
  OBVIOUS
<1>2. RemoveAt(list, i) = less
  BY DEF RemoveAt
<1>3. /\ head \in Seq(S) /\ Len(head) = i - 1
      /\ \A m \in 1 .. i - 1 : head[m] = list[m]
      /\ tail \in Seq(S) /\ Len(tail) = Len(list) - i
      /\ \A m \in 1 .. Len(list) - i : tail[m] = list[m + i]
  <2>1. /\ \A m \in 1 .. i - 1 : list[m] \in S
        /\ \A m \in i + 1 .. Len(list) : list[m] \in S
    BY <1>1
  <2>2. /\ head \in Seq(S) /\ Len(head) = IF 1 <= i - 1 THEN i - 1 - 1 + 1 ELSE 0
        /\ \A m \in 1 .. i - 1 - 1 + 1 : head[m] = list[1 + m - 1]
    BY <1>1, <2>1, SubSeqProperties
  <2>3. /\ tail \in Seq(S)
        /\ Len(tail) = IF i + 1 <= Len(list) THEN Len(list) - (i + 1) + 1 ELSE 0
        /\ \A m \in 1 .. Len(list) - (i + 1) + 1 : tail[m] = list[(i + 1) + m - 1]
    BY <1>1, <2>1, SubSeqProperties
  <2> HIDE DEF head, tail
  <2>4. ASSUME NEW m \in 1 .. i - 1
        PROVE  head[m] = list[m]
    <3>1. m \in 1 .. i - 1 - 1 + 1 /\ 1 + m - 1 = m
      BY <1>1
    <3> QED
      BY <2>2, <3>1
  <2>5. ASSUME NEW m \in 1 .. Len(list) - i
        PROVE  tail[m] = list[m + i]
    <3>1. m \in 1 .. Len(list) - (i + 1) + 1 /\ (i + 1) + m - 1 = m + i
      BY <1>1
    <3> QED
      BY <2>3, <3>1
  <2>6. Len(head) = i - 1
    <3>1. Len(head) = IF 1 <= i - 1 THEN i - 1 - 1 + 1 ELSE 0
      BY <2>2
    <3> QED
      BY <1>1, <3>1
  <2>7. Len(tail) = Len(list) - i
    <3>1. Len(tail) = IF i + 1 <= Len(list) THEN Len(list) - (i + 1) + 1 ELSE 0
      BY <2>3
    <3>2. \A n \in Nat : \A m \in 1 .. n : (IF m + 1 <= n THEN n - (m + 1) + 1 ELSE 0) = n - m
      OBVIOUS
    <3> QED
      BY <1>1, <3>1, <3>2
  <2> QED
    BY <2>2, <2>3, <2>4, <2>5, <2>6, <2>7
<1> HIDE DEF head, tail
<1>4. /\ less \in Seq(S) /\ Len(less) = Len(list) - 1 /\ DOMAIN less = 1 .. Len(list) - 1
      /\ \A m \in 1 .. Len(list) - 1 : less[m] = IF m < i THEN list[m] ELSE list[m + 1]
  <2>0. less \in Seq(S) /\ Len(less) = Len(head) + Len(tail)
        /\ \A m \in 1 .. Len(head) + Len(tail) :
              less[m] = IF m <= Len(head) THEN head[m] ELSE tail[m - Len(head)]
    BY <1>3, ConcatProperties
  <2>1. /\ less \in Seq(S) /\ Len(less) = Len(list) - 1
        /\ \A m \in 1 .. i - 1 : less[m] = head[m]
        /\ \A m \in i .. Len(list) - 1 : less[m] = tail[m - (i - 1)]
    <3> HIDE DEF less
    <3>1. Len(less) = Len(list) - 1
      BY <1>1, <1>3, <2>0
    <3>2. ASSUME NEW m \in 1 .. i - 1
          PROVE  less[m] = head[m]
      <4>1. m \in 1 .. Len(head) + Len(tail) /\ m <= Len(head)
        BY <1>1, <1>3
      <4> QED
        BY <2>0, <4>1
    <3>3. ASSUME NEW m \in i .. Len(list) - 1
          PROVE  less[m] = tail[m - (i - 1)]
      <4>1. m \in 1 .. Len(head) + Len(tail) /\ ~(m <= Len(head)) /\ Len(head) = i - 1
        BY <1>1, <1>3
      <4> QED
        BY <2>0, <4>1
    <3> QED
      BY <2>0, <3>1, <3>2, <3>3
  <2>2. DOMAIN less = 1 .. Len(list) - 1
    BY <2>1
  <2> HIDE DEF less
  <2>3. \A m \in i .. Len(list) - 1 : tail[m - (i - 1)] = list[m + 1]
    <3> SUFFICES ASSUME NEW m \in i .. Len(list) - 1 PROVE tail[m - (i - 1)] = list[m + 1]
      OBVIOUS
    <3>1. m - (i - 1) \in 1 .. Len(list) - i /\ (m - (i - 1)) + i = m + 1
      BY <1>1
    <3> QED
      BY <1>3, <3>1
  <2> QED
    BY <1>1, <1>3, <2>1, <2>2, <2>3
<1> HIDE DEF less
<1> QED
  BY <1>2, <1>4

LEMMA ListWithout ==
  ASSUME NEW list \in Seq(Jobs), IsInjective(list), NEW k
  PROVE  /\ Without(list, k) \in Seq(Jobs) /\ IsInjective(Without(list, k))
         /\ \A j : On(Without(list, k), j) <=> On(list, j) /\ j # k
<1>1. CASE ~On(list, k)
  BY <1>1 DEF Without, On
<1>2. CASE On(list, k)
  <2> DEFINE i == CHOOSE m \in DOMAIN list : list[m] = k
             less == Without(list, k)
  <2>1. i \in 1 .. Len(list) /\ list[i] = k /\ Len(list) \in Nat /\ DOMAIN list = 1 .. Len(list)
    BY <1>2 DEF On
  <2>2. less = RemoveAt(list, i)
    BY <1>2 DEF Without, On
  <2> HIDE DEF i, less
  <2>3. /\ RemoveAt(list, i) \in Seq(Jobs) /\ Len(RemoveAt(list, i)) = Len(list) - 1
        /\ DOMAIN RemoveAt(list, i) = 1 .. Len(list) - 1
        /\ \A m \in 1 .. Len(list) - 1 : RemoveAt(list, i)[m] = IF m < i THEN list[m] ELSE list[m + 1]
    BY <2>1, RemovedAt
  <2>4. /\ less \in Seq(Jobs) /\ Len(less) = Len(list) - 1 /\ DOMAIN less = 1 .. Len(list) - 1
        /\ \A m \in 1 .. Len(list) - 1 : less[m] = IF m < i THEN list[m] ELSE list[m + 1]
    BY <2>2, <2>3, Zenon
  <2>5. IsInjective(less)
    <3> SUFFICES ASSUME NEW m \in 1 .. Len(list) - 1, NEW n \in 1 .. Len(list) - 1,
                        less[m] = less[n], m < n
                 PROVE  FALSE
      BY <2>1, <2>4 DEF IsInjective
    <3> DEFINE at(x) == IF x < i THEN x ELSE x + 1
    <3>1. at(m) \in 1 .. Len(list) /\ at(n) \in 1 .. Len(list) /\ at(m) # at(n)
      BY <2>1
    <3>2. less[m] = list[at(m)] /\ less[n] = list[at(n)]
      BY <2>4
    <3> HIDE DEF at
    <3> QED
      BY <2>1, <3>1, <3>2 DEF IsInjective
  <2>6. ASSUME NEW j, On(less, j) PROVE On(list, j) /\ j # k
    <3>1. PICK m \in 1 .. Len(list) - 1 : less[m] = j
      BY <2>4, <2>6 DEF On
    <3>2. CASE m < i
      BY <2>1, <2>4, <3>1, <3>2 DEF On, IsInjective
    <3>3. CASE m >= i
      <4>1. m + 1 \in 1 .. Len(list) /\ m + 1 # i /\ list[m + 1] = j
        BY <2>1, <2>4, <3>1, <3>3
      <4> QED
        BY <2>1, <4>1 DEF On, IsInjective
    <3> QED
      BY <2>1, <3>2, <3>3
  <2>7. ASSUME NEW j, On(list, j), j # k PROVE On(less, j)
    <3>1. PICK m \in 1 .. Len(list) : list[m] = j
      BY <2>1, <2>7 DEF On
    <3>2. m # i
      BY <2>1, <2>7, <3>1
    <3>3. CASE m < i
      BY <2>1, <2>4, <3>1, <3>3 DEF On
    <3>4. CASE m > i
      <4>1. m - 1 \in 1 .. Len(list) - 1 /\ less[m - 1] = j
        BY <2>1, <2>4, <3>1, <3>4
      <4> QED
        BY <2>4, <4>1 DEF On
    <3> QED
      BY <2>1, <3>1, <3>2, <3>3, <3>4
  <2> QED
    BY <2>4, <2>5, <2>6, <2>7 DEF less
<1> QED
  BY <1>1, <1>2
-----------------------------------------------------------------------------
(***************************************************************************)
(* The tables: what a step writes, and what no step takes back.            *)
(***************************************************************************)
LEMMA WorkerMoves ==
  ASSUME Shapes, NEW w \in Workers, NEW step, WorkerTo(w, step)
  PROVE  /\ worker' = [x \in Workers |-> worker'[x]] /\ worker'[w] = step
         /\ \A x \in Workers \ {w} : worker'[x] = worker[x]
BY DEF Shapes, WorkerTo

LEMMA CallerMoves ==
  ASSUME Shapes, NEW c \in Callers, NEW step, CallerTo(c, step)
  PROVE  /\ caller' = [x \in Callers |-> caller'[x]] /\ caller'[c] = step
         /\ \A x \in Callers \ {c} : caller'[x] = caller[x]
BY DEF Shapes, CallerTo

\* An HSET of a status, on a job that has a hash or is being submitted.
HashWritten == /\ hash' \in [Jobs -> Rows]
               /\ \A j \in Jobs : hash'[j].status = "none" => hash'[j] = NoHash
HashKept == \A j \in Jobs : /\ hash[j].status # "none" => hash'[j].status # "none"
                            /\ hash[j].cancelRequested => hash'[j].cancelRequested

LEMMA StatusWritten ==
  ASSUME Shapes, NEW j \in Jobs, NEW s \in Statuses, s # "none", hash' = WithStatus(j, s)
  PROVE  /\ HashWritten /\ HashKept
         /\ hash'[j].status = s /\ \A k \in Jobs \ {j} : hash'[k] = hash[k]
BY DEF Shapes, WithStatus, Rows, HashWritten, HashKept

LEMMA FlagWritten ==
  ASSUME Shapes, NEW j \in Jobs, hash[j].status # "none",
         hash' = [hash EXCEPT ![j].cancelRequested = TRUE]
  PROVE  /\ HashWritten /\ HashKept /\ hash'[j].cancelRequested
         /\ \A k \in Jobs : hash'[k].status = hash[k].status
BY DEF Shapes, Rows, HashWritten, HashKept

LEMMA StatusNames ==
  ASSUME QueueAssumption
  PROVE  /\ \A s \in Ends : s \in Statuses /\ s # "none" /\ s # "queued"
         /\ {"queued", "running", "cancellation_requested", "cancelled"} \subseteq Statuses
BY DEF QueueAssumption, Statuses

LEMMA PlacesMove ==
  ASSUME Shapes, [Next]_vars
  PROVE  /\ worker' = [w \in Workers |-> worker'[w]]
         /\ caller' = [c \in Callers |-> caller'[c]]
<1> DEFINE Goal == /\ worker' = [w \in Workers |-> worker'[w]]
                   /\ caller' = [c \in Callers |-> caller'[c]]
<1>1. ASSUME worker' = worker, caller' = caller PROVE Goal
  BY <1>1 DEF Shapes
<1>2. ASSUME NEW w \in Workers, NEW step, WorkerTo(w, step), caller' = caller PROVE Goal
  BY <1>2, WorkerMoves DEF Shapes
<1>3. ASSUME NEW c \in Callers, NEW step, CallerTo(c, step), worker' = worker PROVE Goal
  BY <1>3, CallerMoves DEF Shapes
<1> HIDE DEF Goal
<1>4. ASSUME NEW c \in Callers, NEW j \in Jobs, SubmitHash(c, j) \/ CancelRead(c, j) \/ GetHash(c, j)
      PROVE  Goal
  BY <1>3, <1>4, Zenon DEF SubmitHash, CancelRead, GetHash
<1>5. ASSUME NEW c \in Callers, CallerStep(c) PROVE Goal
  BY <1>3, <1>5, Zenon DEF CallerStep, SubmitPush, CancelFlag, CancelRemove, CancelSettle,
                    CancelRequest, GetResult, GetDone
<1>6. ASSUME NEW c \in Callers, CallerDies(c) PROVE Goal
  BY <1>3, <1>6, Zenon DEF CallerDies
<1>7. ASSUME NEW w \in Workers, Claim(w) PROVE Goal
  BY <1>2, <1>7, Zenon DEF Claim, Pop, ClaimRead, ClaimDrop, ClaimMark, ClaimCount
<1>8. ASSUME NEW w \in Workers, Start(w) \/ \E s \in Ends : Outcome(w, s) PROVE Goal
  BY <1>2, <1>8, Zenon DEF Start, Outcome
<1>9. ASSUME NEW w \in Workers, Poll(w) PROVE Goal
  BY <1>1, <1>9, Zenon DEF Poll
<1>10. ASSUME NEW w \in Workers, Finish(w) \/ WorkerDies(w) PROVE Goal
  BY <1>2, <1>10, Zenon DEF Finish, FinishStatus, FinishResult, FinishCount, WorkerDies
<1>11. UNCHANGED vars => Goal
  BY <1>1 DEF vars
<1>12. Goal
  BY <1>4, <1>5, <1>6, <1>7, <1>8, <1>9, <1>10, <1>11 DEF Next, Compute
<1> QED
  BY <1>12 DEF Goal

\* What every step does to the hash, and that it leaves well-formed tables.
LEMMA TablesNext ==
  ASSUME QueueAssumption, Shapes, WorkersKnow, CallersKnow, Pushed, OneHolder, [Next]_vars
  PROVE  Shapes' /\ HashKept
<1> USE StatusNames
<1> DEFINE Goal == Shapes' /\ HashKept
           Rest == /\ given' \subseteq Jobs /\ results' \subseteq Jobs /\ events' \subseteq Jobs
                   /\ flagged' \subseteq Jobs /\ answered' \subseteq Jobs
                   /\ queue' \in Seq(Jobs) /\ running' \in Int /\ deaths' \in 0 .. MaxDeaths
                   /\ computed' \in [Jobs -> Nat]
<1>1. HashWritten /\ HashKept /\ Rest => Goal
  BY PlacesMove DEF Shapes, HashWritten
<1>2. hash' = hash => HashWritten /\ HashKept
  BY DEF Shapes, HashWritten, HashKept
<1> HIDE DEF Goal
<1>6. UNCHANGED vars => Goal
  BY <1>1, <1>2 DEF vars, Shapes
<1>7. ASSUME NEW c \in Callers, NEW j \in Jobs, SubmitHash(c, j) PROVE Goal
  <2>1. HashWritten /\ HashKept
    BY <1>7, StatusWritten DEF SubmitHash
  <2> QED
    BY <1>1, <1>7, <2>1 DEF SubmitHash, Shapes
<1>8. ASSUME NEW c \in Callers, NEW j \in Jobs, CancelRead(c, j) \/ GetHash(c, j) PROVE Goal
  BY <1>1, <1>2, <1>8 DEF CancelRead, GetHash, Shapes
<1>9. ASSUME NEW c \in Callers, SubmitPush(c) PROVE Goal
  <2>1. caller[c].job \in Jobs /\ ~On(queue, caller[c].job)
    BY <1>9 DEF SubmitPush, CallersKnow, Pushed, On, InQueue
  <2>2. queue' \in Seq(Jobs)
    BY <1>9, <2>1, PushedList DEF SubmitPush, Shapes, OneHolder
  <2> QED
    BY <1>1, <1>2, <1>9, <2>1, <2>2 DEF SubmitPush, Shapes
<1>10. ASSUME NEW c \in Callers, caller[c].at \in {"flag", "remove", "settle", "request"}
       PROVE  caller[c].job \in Jobs /\ hash[caller[c].job].status # "none"
  BY <1>10 DEF CallersKnow, Pushed, Shapes
<1>11. ASSUME NEW c \in Callers, CancelFlag(c) PROVE Goal
  <2>1. HashWritten /\ HashKept
    BY <1>10, <1>11, FlagWritten DEF CancelFlag
  <2> QED
    BY <1>1, <1>10, <1>11, <2>1 DEF CancelFlag, Shapes
<1>12. ASSUME NEW c \in Callers, CancelRemove(c) PROVE Goal
  <2>1. queue' \in Seq(Jobs)
    BY <1>12, ListWithout DEF CancelRemove, Shapes, OneHolder
  <2> QED
    BY <1>1, <1>2, <1>12, <2>1 DEF CancelRemove, Shapes
<1>13. ASSUME NEW c \in Callers, CancelSettle(c) \/ CancelRequest(c) PROVE Goal
  <2>1. HashWritten /\ HashKept
    BY <1>10, <1>13, StatusWritten DEF CancelSettle, CancelRequest
  <2> QED
    BY <1>1, <1>10, <1>13, <2>1 DEF CancelSettle, CancelRequest, Shapes
<1>14. ASSUME NEW c \in Callers, GetResult(c) \/ GetDone(c) PROVE Goal
  BY <1>1, <1>2, <1>14 DEF GetResult, GetDone, Shapes
<1>15. ASSUME NEW c \in Callers, CallerDies(c) PROVE Goal
  <2>1. deaths' \in 0 .. MaxDeaths
    BY <1>15 DEF CallerDies, Shapes, QueueAssumption
  <2> QED
    BY <1>1, <1>2, <1>15, <2>1 DEF CallerDies, Shapes
<1>16. ASSUME NEW w \in Workers, worker[w].at # "idle"
       PROVE  worker[w].job \in Jobs /\ hash[worker[w].job].status # "none"
  BY <1>16 DEF WorkersKnow, Known, Pushed, Shapes
<1>17. ASSUME NEW w \in Workers, Pop(w) PROVE Goal
  <2>1. queue' \in Seq(Jobs)
    BY <1>17, PoppedList DEF Pop, Shapes, OneHolder
  <2> QED
    BY <1>1, <1>2, <1>17, <2>1 DEF Pop, Shapes
<1>18. ASSUME NEW w \in Workers, ClaimRead(w) \/ Poll(w) \/ \E s \in Ends : Outcome(w, s)
       PROVE  Goal
  BY <1>1, <1>2, <1>16, <1>18 DEF ClaimRead, Poll, Outcome, Shapes
<1>19. ASSUME NEW w \in Workers, ClaimDrop(w) \/ ClaimMark(w) PROVE Goal
  <2>1. HashWritten /\ HashKept
    BY <1>16, <1>19, StatusWritten DEF ClaimDrop, ClaimMark
  <2> QED
    BY <1>1, <1>19, <2>1 DEF ClaimDrop, ClaimMark, Shapes
<1>20. ASSUME NEW w \in Workers, ClaimCount(w) \/ FinishCount(w) \/ FinishResult(w) PROVE Goal
  BY <1>1, <1>2, <1>16, <1>20 DEF ClaimCount, FinishCount, FinishResult, Shapes
<1>21. ASSUME NEW w \in Workers, Start(w) PROVE Goal
  <2>1. computed' \in [Jobs -> Nat]
    BY <1>16, <1>21 DEF Start, Shapes
  <2> QED
    BY <1>1, <1>2, <1>21, <2>1 DEF Start, Shapes
<1>22. ASSUME NEW w \in Workers, FinishStatus(w) PROVE Goal
  <2>1. HashWritten /\ HashKept
    BY <1>16, <1>22, StatusWritten DEF FinishStatus, WorkersKnow, Known
  <2> QED
    BY <1>1, <1>22, <2>1 DEF FinishStatus, Shapes
<1>23. ASSUME NEW w \in Workers, WorkerDies(w) PROVE Goal
  <2>1. deaths' \in 0 .. MaxDeaths
    BY <1>23 DEF WorkerDies, Shapes, QueueAssumption
  <2> QED
    BY <1>1, <1>2, <1>23, <2>1 DEF WorkerDies, Shapes
<1>24. ASSUME NEW c \in Callers, CallerStep(c) PROVE Goal
  BY <1>9, <1>11, <1>12, <1>13, <1>14, <1>24 DEF CallerStep
<1>25. ASSUME NEW w \in Workers, Claim(w) \/ Compute(w) \/ Finish(w) PROVE Goal
  BY <1>17, <1>18, <1>19, <1>20, <1>21, <1>22, <1>25 DEF Claim, Compute, Finish
<1>26. Goal
  BY <1>6, <1>7, <1>8, <1>15, <1>23, <1>24, <1>25 DEF Next
<1> QED
  BY <1>26 DEF Goal
-----------------------------------------------------------------------------
(***************************************************************************)
(* Who holds a job: the conjuncts that worker, queue and given decide.     *)
(***************************************************************************)
\* A worker's step other than Pop goes on with the job it has, or lets go.
GoesOn(w, step) ==
    step.at = "idle" \/ (worker[w].at # "idle" /\ step.job = worker[w].job)

LEMMA WorkersKnowNext ==
  ASSUME QueueAssumption, IInv, [Next]_vars
  PROVE  WorkersKnow'
<1> USE DEF IInv, WorkersKnow
<1>1. ASSUME worker' = worker, given \subseteq given' PROVE WorkersKnow'
  BY <1>1 DEF Known
<1>2. ASSUME NEW w \in Workers, NEW step, WorkerTo(w, step), given' = given, Known(step)
      PROVE  WorkersKnow'
  BY <1>2, WorkerMoves DEF Known
<1>3. ASSUME NEW c \in Callers, NEW j \in Jobs, SubmitHash(c, j) \/ CancelRead(c, j) \/ GetHash(c, j)
      PROVE  WorkersKnow'
  BY <1>1, <1>3 DEF SubmitHash, CancelRead, GetHash
<1>4. ASSUME NEW c \in Callers, CallerStep(c) \/ CallerDies(c) PROVE WorkersKnow'
  BY <1>1, <1>4 DEF CallerStep, CallerDies, SubmitPush, CancelFlag, CancelRemove, CancelSettle,
                    CancelRequest, GetResult, GetDone
<1>5. ASSUME NEW w \in Workers, Pop(w) PROVE WorkersKnow'
  <2>1. Last(queue) \in given
    BY <1>5, PoppedList DEF Pop, Shapes, OneHolder, Pushed, On, InQueue
  <2>2. Known([at |-> "popped", job |-> Last(queue)])
    BY <2>1 DEF Known, WorkerPlaces, Unstarted
  <2> QED
    BY <1>2, <1>5, <2>2 DEF Pop
<1>6. ASSUME NEW w \in Workers, ClaimRead(w) \/ ClaimMark(w) \/ ClaimCount(w) \/ Start(w)
      PROVE  WorkersKnow'
  <2>1. worker[w].job \in given
    BY <1>6 DEF Known, ClaimRead, ClaimMark, ClaimCount, Start
  <2>2. PICK step : WorkerTo(w, step) /\ Known(step)
    BY <1>6, <2>1 DEF Known, WorkerPlaces, Unstarted, ClaimRead, ClaimMark, ClaimCount, Start
  <2> QED
    BY <1>2, <1>6, <2>2 DEF ClaimRead, ClaimMark, ClaimCount, Start
<1>7. ASSUME NEW w \in Workers, ClaimDrop(w) \/ FinishCount(w) \/ WorkerDies(w) PROVE WorkersKnow'
  <2>1. Known(Idle)
    BY DEF Known, WorkerPlaces, Unstarted, Idle
  <2> QED
    BY <1>2, <1>7, <2>1 DEF ClaimDrop, FinishCount, WorkerDies
<1>8. ASSUME NEW w \in Workers, Poll(w) PROVE WorkersKnow'
  BY <1>1, <1>8 DEF Poll
<1>9. ASSUME NEW w \in Workers, NEW s \in Ends, Outcome(w, s) PROVE WorkersKnow'
  <2>1. Known([at |-> "finish", job |-> worker[w].job, status |-> s])
    BY <1>9 DEF Known, WorkerPlaces, Unstarted, Outcome
  <2> QED
    BY <1>2, <1>9, <2>1 DEF Outcome
<1>10. ASSUME NEW w \in Workers, FinishStatus(w) \/ FinishResult(w) PROVE WorkersKnow'
  <2>1. worker[w].job \in given
    BY <1>10 DEF Known, FinishStatus, FinishResult
  <2>2. PICK step : WorkerTo(w, step) /\ Known(step)
    BY <1>10, <2>1 DEF Known, WorkerPlaces, Unstarted, Idle, FinishStatus, FinishResult, AfterStatus
  <2> QED
    BY <1>2, <1>10, <2>2 DEF FinishStatus, FinishResult
<1>11. UNCHANGED vars => WorkersKnow'
  BY <1>1 DEF vars
<1> HIDE DEF IInv, WorkersKnow
<1> QED
  BY <1>3, <1>4, <1>5, <1>6, <1>7, <1>8, <1>9, <1>10, <1>11 DEF Next, Claim, Compute, Finish

LEMMA OneHolderNext ==
  ASSUME QueueAssumption, IInv, [Next]_vars
  PROVE  OneHolder'
<1> USE DEF IInv
<1>1. ASSUME worker' = worker, queue' = queue PROVE OneHolder'
  BY <1>1 DEF OneHolder, InQueue
<1>2. ASSUME NEW w \in Workers, NEW step, WorkerTo(w, step), queue' = queue, GoesOn(w, step)
      PROVE  OneHolder'
  BY <1>2, WorkerMoves DEF OneHolder, InQueue, GoesOn
<1>3. ASSUME NEW c \in Callers, NEW j \in Jobs, SubmitHash(c, j) \/ CancelRead(c, j) \/ GetHash(c, j)
      PROVE  OneHolder'
  BY <1>1, <1>3 DEF SubmitHash, CancelRead, GetHash
<1>4. ASSUME NEW c \in Callers, SubmitPush(c) PROVE OneHolder'
  <2> DEFINE j == caller[c].job
  <2>1. j \in Jobs \ given /\ ~On(queue, j)
    BY <1>4 DEF SubmitPush, CallersKnow, Pushed, On, InQueue
  <2>2. IsInjective(queue') /\ \A k : On(queue', k) <=> On(queue, k) \/ k = j
    BY <1>4, <2>1, PushedList DEF SubmitPush, Shapes, OneHolder
  <2>3. \A w \in Workers : worker[w].at # "idle" => worker[w].job # j
    BY <2>1 DEF WorkersKnow, Known
  <2> QED
    BY <1>4, <2>2, <2>3 DEF SubmitPush, OneHolder, On, InQueue
<1>5. ASSUME NEW c \in Callers, CancelRemove(c) PROVE OneHolder'
  <2>1. IsInjective(queue') /\ \A k : On(queue', k) <=> On(queue, k) /\ k # caller[c].job
    BY <1>5, ListWithout DEF CancelRemove, Shapes, OneHolder
  <2> QED
    BY <1>5, <2>1 DEF CancelRemove, OneHolder, On, InQueue
<1>6. ASSUME NEW c \in Callers, \/ CancelFlag(c) \/ CancelSettle(c) \/ CancelRequest(c)
                                \/ GetResult(c) \/ GetDone(c) \/ CallerDies(c)
      PROVE  OneHolder'
  BY <1>1, <1>6 DEF CancelFlag, CancelSettle, CancelRequest, GetResult, GetDone, CallerDies
<1>7. ASSUME NEW w \in Workers, Pop(w) PROVE OneHolder'
  <2> DEFINE j == Last(queue)
  <2>1. /\ IsInjective(queue') /\ On(queue, j)
        /\ \A k : On(queue', k) <=> On(queue, k) /\ k # j
    BY <1>7, PoppedList DEF Pop, Shapes, OneHolder
  <2>2. \A x \in Workers : worker[x].at # "idle" => worker[x].job # j
    BY <2>1 DEF OneHolder, On, InQueue
  <2>3. /\ worker'[w].job = j
        /\ \A x \in Workers \ {w} : worker'[x] = worker[x]
    BY <1>7, WorkerMoves DEF Pop
  <2> QED
    BY <2>1, <2>2, <2>3 DEF OneHolder, On, InQueue
<1>8. ASSUME NEW w \in Workers, \/ ClaimRead(w) \/ ClaimDrop(w) \/ ClaimMark(w)
                                \/ ClaimCount(w) \/ Start(w)
      PROVE  OneHolder'
  <2>1. PICK step : WorkerTo(w, step) /\ GoesOn(w, step)
    BY <1>8 DEF ClaimRead, ClaimDrop, ClaimMark, ClaimCount, Start, GoesOn, Idle
  <2> QED
    BY <1>2, <1>8, <2>1 DEF ClaimRead, ClaimDrop, ClaimMark, ClaimCount, Start
<1>9. ASSUME NEW w \in Workers, NEW s \in Ends, Outcome(w, s) PROVE OneHolder'
  <2>1. PICK step : WorkerTo(w, step) /\ GoesOn(w, step)
    BY <1>9 DEF Outcome, GoesOn
  <2> QED
    BY <1>2, <1>9, <2>1 DEF Outcome
<1>10. ASSUME NEW w \in Workers, Poll(w) PROVE OneHolder'
  BY <1>1, <1>10 DEF Poll
<1>11. ASSUME NEW w \in Workers, Finish(w) \/ WorkerDies(w) PROVE OneHolder'
  <2>1. PICK step : WorkerTo(w, step) /\ GoesOn(w, step)
    BY <1>11 DEF Finish, FinishStatus, FinishResult, FinishCount, WorkerDies, GoesOn, Idle
  <2> QED
    BY <1>2, <1>11, <2>1 DEF Finish, FinishStatus, FinishResult, FinishCount, WorkerDies
<1>12. UNCHANGED vars => OneHolder'
  BY <1>1 DEF vars
<1> HIDE DEF IInv
<1> QED
  BY <1>3, <1>4, <1>5, <1>6, <1>7, <1>8, <1>9, <1>10, <1>11, <1>12
  DEF Next, CallerStep, Claim, Compute

LEMMA CallersKnowNext ==
  ASSUME QueueAssumption, IInv, [Next]_vars
  PROVE  CallersKnow' /\ Pushed'
<1> DEFINE Goal == CallersKnow' /\ Pushed'
<1>1. HashKept
  <2>1. Shapes /\ WorkersKnow /\ CallersKnow /\ Pushed /\ OneHolder
    BY DEF IInv
  <2> QED
    BY <2>1, TablesNext
<1> USE DEF IInv
<1>2. ASSUME NEW c \in Callers, NEW step, CallerTo(c, step), given' = given,
             step.at \in CallerPlaces, step.at # "push",
             step.at # "idle" => step.job \in given
      PROVE  CallersKnow'
  <2>1. caller'[c] = step /\ \A d \in Callers \ {c} : caller'[d] = caller[d]
    BY <1>2, CallerMoves
  <2>2. \A d \in Callers : caller'[d].at = "push" => d # c /\ caller'[d] = caller[d]
    BY <1>2, <2>1
  <2>3. ASSUME NEW d \in Callers, caller'[d].at = "push"
        PROVE  caller'[d].job \in Jobs \ given' /\ hash'[caller'[d].job].status # "none"
    BY <1>1, <1>2, <2>2, <2>3 DEF CallersKnow, HashKept
  <2>4. ASSUME NEW d \in Callers
        PROVE  /\ caller'[d].at \in CallerPlaces
               /\ caller'[d].at \notin {"idle", "push"} => caller'[d].job \in given'
    BY <1>2, <2>1 DEF CallersKnow
  <2>5. \A d, e \in Callers :
          caller'[d].at = "push" /\ caller'[e].at = "push" /\ caller'[d].job = caller'[e].job
            => d = e
    BY <2>2 DEF CallersKnow
  <2> QED
    BY <2>3, <2>4, <2>5 DEF CallersKnow
<1>3. ASSUME caller' = caller, given' = given PROVE CallersKnow'
  BY <1>1, <1>3 DEF CallersKnow, HashKept, Shapes
<1>4. ASSUME given' = given, \A j \in Jobs : On(queue', j) => On(queue, j) PROVE Pushed'
  BY <1>1, <1>4 DEF Pushed, HashKept, On, InQueue, Shapes
<1>5. ASSUME queue' = queue, caller' = caller, given' = given PROVE Goal
  BY <1>3, <1>4, <1>5
<1>6. ASSUME NEW c \in Callers, NEW j \in Jobs, SubmitHash(c, j) PROVE Goal
  <2>1. hash[j].status = "none" /\ hash'[j].status # "none"
    BY <1>6 DEF SubmitHash, NoHash, WithStatus, Shapes, Rows
  <2>2. j \notin given /\ \A d \in Callers : caller[d].at = "push" => caller[d].job # j
    BY <2>1 DEF Pushed, CallersKnow
  <2>3. CallersKnow'
    <3>1. /\ caller'[c] = [at |-> "push", job |-> j] /\ given' = given
          /\ \A d \in Callers \ {c} : caller'[d] = caller[d]
      BY <1>6, CallerMoves DEF SubmitHash
    <3>2. ASSUME NEW d \in Callers
          PROVE  /\ caller'[d].at \in CallerPlaces
                 /\ caller'[d].at \notin {"idle", "push"} => caller'[d].job \in given'
                 /\ caller'[d].at = "push" => /\ caller'[d].job \in Jobs \ given'
                                              /\ hash'[caller'[d].job].status # "none"
      <4>1. CASE d = c
        BY <2>1, <2>2, <3>1, <4>1 DEF CallerPlaces
      <4>2. CASE d # c
        BY <1>1, <3>1, <4>2 DEF CallersKnow, HashKept
      <4> QED
        BY <4>1, <4>2
    <3>3. \A d, e \in Callers :
            caller'[d].at = "push" /\ caller'[e].at = "push" /\ caller'[d].job = caller'[e].job
              => d = e
      BY <2>2, <3>1 DEF CallersKnow
    <3> QED
      BY <3>2, <3>3 DEF CallersKnow
  <2>4. Pushed'
    BY <1>4, <1>6 DEF SubmitHash
  <2> QED
    BY <2>3, <2>4
<1>7. ASSUME NEW c \in Callers, NEW j \in Jobs, CancelRead(c, j) \/ GetHash(c, j) PROVE Goal
  <2>1. CallersKnow'
    <3>1. PICK step : /\ CallerTo(c, step) /\ step.at \in CallerPlaces /\ step.at # "push"
                      /\ step.job \in given
      BY <1>7 DEF CancelRead, GetHash, CallerPlaces
    <3> QED
      BY <1>2, <1>7, <3>1 DEF CancelRead, GetHash
  <2>2. Pushed'
    BY <1>4, <1>7 DEF CancelRead, GetHash
  <2> QED
    BY <2>1, <2>2
<1>8. ASSUME NEW c \in Callers, SubmitPush(c) PROVE Goal
  <2> DEFINE j == caller[c].job
  <2>1. /\ j \in Jobs \ given /\ ~On(queue, j) /\ hash[j].status # "none"
        /\ \A d \in Callers \ {c} : caller[d].at = "push" => caller[d].job # j
    BY <1>8 DEF SubmitPush, CallersKnow, Pushed, On, InQueue
  <2>2. \A k : On(queue', k) <=> On(queue, k) \/ k = j
    BY <1>8, <2>1, PushedList DEF SubmitPush, Shapes, OneHolder
  <2>3. CallersKnow'
    <3>1. /\ caller'[c].at = "idle" /\ given' = given \cup {j}
          /\ \A d \in Callers \ {c} : caller'[d] = caller[d]
      BY <1>8, CallerMoves DEF SubmitPush, Idle
    <3>2. ASSUME NEW d \in Callers
          PROVE  /\ caller'[d].at \in CallerPlaces
                 /\ caller'[d].at \notin {"idle", "push"} => caller'[d].job \in given'
                 /\ caller'[d].at = "push" => /\ caller'[d].job \in Jobs \ given'
                                              /\ hash'[caller'[d].job].status # "none"
      <4>1. CASE d = c
        BY <3>1, <4>1 DEF CallerPlaces
      <4>2. CASE d # c
        BY <1>1, <2>1, <3>1, <4>2 DEF CallersKnow, HashKept
      <4> QED
        BY <4>1, <4>2
    <3>3. \A d, e \in Callers :
            caller'[d].at = "push" /\ caller'[e].at = "push" /\ caller'[d].job = caller'[e].job
              => d = e
      BY <3>1 DEF CallersKnow
    <3> QED
      BY <3>2, <3>3 DEF CallersKnow
  <2>4. Pushed'
    BY <1>1, <1>8, <2>1, <2>2 DEF SubmitPush, Pushed, On, InQueue, HashKept, Shapes
  <2> QED
    BY <2>3, <2>4
<1>9. ASSUME NEW c \in Callers, CancelRemove(c) PROVE Goal
  <2>1. CallersKnow'
    BY <1>2, <1>9 DEF CancelRemove, CallersKnow, CallerPlaces
  <2>2. \A k : On(queue', k) => On(queue, k)
    BY <1>9, ListWithout DEF CancelRemove, Shapes, OneHolder
  <2>3. Pushed'
    BY <1>4, <1>9, <2>2 DEF CancelRemove
  <2> QED
    BY <2>1, <2>3
<1>10. ASSUME NEW c \in Callers, \/ CancelFlag(c) \/ CancelSettle(c) \/ CancelRequest(c)
                                 \/ GetResult(c) \/ GetDone(c) \/ CallerDies(c)
       PROVE  Goal
  <2>1. PICK step : /\ CallerTo(c, step) /\ step.at \in CallerPlaces /\ step.at # "push"
                    /\ step.at # "idle" => step.job \in given
    BY <1>10 DEF CancelFlag, AfterFlag, CancelSettle, CancelRequest, GetResult, GetDone, CallerDies,
                 CallersKnow, CallerPlaces, Idle
  <2>2. CallersKnow'
    BY <1>2, <1>10, <2>1 DEF CancelFlag, CancelSettle, CancelRequest, GetResult, GetDone, CallerDies
  <2>3. Pushed'
    BY <1>4, <1>10 DEF CancelFlag, CancelSettle, CancelRequest, GetResult, GetDone, CallerDies
  <2> QED
    BY <2>2, <2>3
<1>11. ASSUME NEW w \in Workers, Pop(w) PROVE Goal
  <2>1. \A k : On(queue', k) => On(queue, k)
    BY <1>11, PoppedList DEF Pop, Shapes, OneHolder
  <2> QED
    BY <1>3, <1>4, <1>11, <2>1 DEF Pop
<1>12. ASSUME NEW w \in Workers, ClaimRead(w) \/ ClaimDrop(w) \/ ClaimMark(w) \/ ClaimCount(w)
       PROVE  Goal
  BY <1>5, <1>12 DEF ClaimRead, ClaimDrop, ClaimMark, ClaimCount
<1>13. ASSUME NEW w \in Workers, Compute(w) \/ Finish(w) \/ WorkerDies(w) PROVE Goal
  BY <1>5, <1>13 DEF Compute, Start, Poll, Outcome, Finish, FinishStatus, FinishResult,
                     FinishCount, WorkerDies
<1>14. UNCHANGED vars => Goal
  BY <1>5 DEF vars
<1> HIDE DEF IInv, Goal
<1>15. Goal
  BY <1>6, <1>7, <1>8, <1>9, <1>10, <1>11, <1>12, <1>13, <1>14 DEF Next, CallerStep, Claim
<1> QED
  BY <1>15 DEF Goal
-----------------------------------------------------------------------------
(***************************************************************************)
(* What has been computed, and what a flag set in time keeps from it.      *)
(***************************************************************************)
LEMMA ComputedNext ==
  ASSUME QueueAssumption, IInv, [Next]_vars
  PROVE  ComputedOnce' /\ ComputedLater'
<1> DEFINE Goal == ComputedOnce' /\ ComputedLater'
<1> USE DEF IInv
<1>1. ASSUME computed' = computed, worker' = worker, given \subseteq given',
             \A j \in Jobs : On(queue', j) => On(queue, j) \/ j \notin given
      PROVE  Goal
  BY <1>1 DEF ComputedOnce, ComputedLater, On, InQueue
<1>2. ASSUME computed' = computed, given' = given, queue' = queue,
             NEW w \in Workers, NEW step, WorkerTo(w, step),
             step.at \in Unstarted => worker[w].at \in Unstarted /\ step.job = worker[w].job
      PROVE  Goal
  BY <1>2, WorkerMoves DEF ComputedOnce, ComputedLater, On, InQueue
<1>3. ASSUME NEW c \in Callers, NEW j \in Jobs, SubmitHash(c, j) \/ CancelRead(c, j) \/ GetHash(c, j)
      PROVE  Goal
  BY <1>1, <1>3 DEF SubmitHash, CancelRead, GetHash
<1>4. ASSUME NEW c \in Callers, SubmitPush(c) PROVE Goal
  <2> DEFINE j == caller[c].job
  <2>1. j \in Jobs \ given /\ ~On(queue, j)
    BY <1>4 DEF SubmitPush, CallersKnow, Pushed, On, InQueue
  <2>2. \A k : On(queue', k) <=> On(queue, k) \/ k = j
    BY <1>4, <2>1, PushedList DEF SubmitPush, Shapes, OneHolder
  <2> QED
    BY <1>1, <1>4, <2>1, <2>2 DEF SubmitPush
<1>5. ASSUME NEW c \in Callers, CancelRemove(c) PROVE Goal
  <2>1. \A k : On(queue', k) => On(queue, k)
    BY <1>5, ListWithout DEF CancelRemove, Shapes, OneHolder
  <2> QED
    BY <1>1, <1>5, <2>1 DEF CancelRemove
<1>6. ASSUME NEW c \in Callers, \/ CancelFlag(c) \/ CancelSettle(c) \/ CancelRequest(c)
                                \/ GetResult(c) \/ GetDone(c) \/ CallerDies(c)
      PROVE  Goal
  BY <1>1, <1>6 DEF CancelFlag, CancelSettle, CancelRequest, GetResult, GetDone, CallerDies
<1>7. ASSUME NEW w \in Workers, Pop(w) PROVE Goal
  <2> DEFINE j == Last(queue)
  <2>1. /\ On(queue, j) /\ j \in Jobs
        /\ \A k : On(queue', k) <=> On(queue, k) /\ k # j
    BY <1>7, PoppedList DEF Pop, Shapes, OneHolder
  <2>2. computed[j] = 0
    BY <2>1 DEF ComputedLater, On, InQueue
  <2>3. worker'[w].job = j /\ \A x \in Workers \ {w} : worker'[x] = worker[x]
    BY <1>7, WorkerMoves DEF Pop
  <2> QED
    BY <1>7, <2>1, <2>2, <2>3 DEF Pop, ComputedOnce, ComputedLater, On, InQueue
<1>8. ASSUME NEW w \in Workers, ClaimRead(w) \/ ClaimDrop(w) \/ ClaimMark(w) \/ ClaimCount(w)
      PROVE  Goal
  <2>1. PICK step : /\ WorkerTo(w, step)
                    /\ step.at \in Unstarted => worker[w].at \in Unstarted /\ step.job = worker[w].job
    BY <1>8 DEF ClaimRead, ClaimDrop, ClaimMark, ClaimCount, Unstarted, Idle
  <2> QED
    BY <1>2, <1>8, <2>1 DEF ClaimRead, ClaimDrop, ClaimMark, ClaimCount
<1>9. ASSUME NEW w \in Workers, Start(w) PROVE Goal
  <2> DEFINE j == worker[w].job
  <2>1. /\ worker[w].at \in Unstarted /\ j \in given /\ j \in Jobs /\ computed[j] = 0
        /\ ~InQueue(j) /\ \A x \in Workers \ {w} : worker[x].at # "idle" => worker[x].job # j
    BY <1>9 DEF Start, Unstarted, WorkersKnow, Known, ComputedLater, OneHolder, Shapes
  <2>2. computed'[j] = 1 /\ \A k \in Jobs \ {j} : computed'[k] = computed[k]
    BY <1>9, <2>1 DEF Start, Shapes
  <2>3. worker'[w].at = "computing" /\ \A x \in Workers \ {w} : worker'[x] = worker[x]
    BY <1>9, WorkerMoves DEF Start
  <2>4. ComputedOnce'
    BY <2>2 DEF ComputedOnce
  <2>5. \A k \in Jobs : k \notin given' \/ InQueue(k)' => computed'[k] = 0
    BY <1>9, <2>1, <2>2 DEF Start, ComputedLater, InQueue
  <2>6. ASSUME NEW x \in Workers, worker'[x].at \in Unstarted PROVE computed'[worker'[x].job] = 0
    <3>1. x # w /\ worker'[x] = worker[x]
      BY <2>3, <2>6 DEF Unstarted
    <3>2. worker[x].job # j /\ worker[x].job \in Jobs /\ computed[worker[x].job] = 0
      BY <2>1, <2>6, <3>1 DEF Unstarted, WorkersKnow, Known, ComputedLater, Shapes
    <3> QED
      BY <2>2, <3>1, <3>2
  <2> QED
    BY <2>4, <2>5, <2>6 DEF ComputedLater
<1>10. ASSUME NEW w \in Workers, NEW s \in Ends, Outcome(w, s) PROVE Goal
  <2>1. "finish" \notin Unstarted
    BY DEF Unstarted
  <2> QED
    BY <1>2, <1>10, <2>1 DEF Outcome
<1>11. ASSUME NEW w \in Workers, Poll(w) PROVE Goal
  BY <1>1, <1>11 DEF Poll
<1>12. ASSUME NEW w \in Workers, Finish(w) \/ WorkerDies(w) PROVE Goal
  <2>1. PICK step : WorkerTo(w, step) /\ step.at \notin Unstarted
    BY <1>12 DEF Finish, FinishStatus, FinishResult, FinishCount, WorkerDies, AfterStatus, Unstarted, Idle
  <2> QED
    BY <1>2, <1>12, <2>1 DEF Finish, FinishStatus, FinishResult, FinishCount, WorkerDies
<1>13. UNCHANGED vars => Goal
  BY <1>1 DEF vars
<1> HIDE DEF IInv, Goal
<1>14. Goal
  BY <1>3, <1>4, <1>5, <1>6, <1>7, <1>8, <1>9, <1>10, <1>11, <1>12, <1>13
  DEF Next, CallerStep, Claim, Compute
<1> QED
  BY <1>14 DEF Goal

LEMMA FlagsNext ==
  ASSUME QueueAssumption, IInv, [Next]_vars
  PROVE  FlagsAreSeen' /\ FlaggedNeverRuns'
<1> DEFINE Goal == FlagsAreSeen' /\ FlaggedNeverRuns'
<1>1. HashKept
  <2>1. Shapes /\ WorkersKnow /\ CallersKnow /\ Pushed /\ OneHolder
    BY DEF IInv
  <2> QED
    BY <2>1, TablesNext
<1> USE DEF IInv
<1>2. ASSUME flagged' = flagged, computed' = computed, given \subseteq given', worker' = worker
      PROVE  Goal
  BY <1>1, <1>2 DEF FlagsAreSeen, FlaggedNeverRuns, HashKept, Shapes
<1>3. ASSUME flagged' = flagged, given' = given,
             \A j \in flagged : computed'[j] = computed[j],
             NEW w \in Workers, NEW step, WorkerTo(w, step),
             step.at \in Unstarted /\ step.job \in flagged => step.at \in {"popped", "drop"}
      PROVE  Goal
  BY <1>1, <1>3, WorkerMoves DEF FlagsAreSeen, FlaggedNeverRuns, HashKept, Shapes
<1>4. ASSUME NEW c \in Callers, NEW j \in Jobs, SubmitHash(c, j) \/ CancelRead(c, j) \/ GetHash(c, j)
      PROVE  Goal
  BY <1>2, <1>4 DEF SubmitHash, CancelRead, GetHash
<1>5. ASSUME NEW c \in Callers, CancelFlag(c) PROVE Goal
  <2> DEFINE j == caller[c].job
  <2>1. /\ j \in given /\ j \in Jobs
        /\ hash'[j].cancelRequested /\ worker' = worker /\ given' = given /\ computed' = computed
    BY <1>5, FlagWritten DEF CancelFlag, CallersKnow, Pushed, Shapes
  <2>2. CASE ~InQueue(j)
    <3>1. flagged' = flagged
      BY <1>5, <2>2 DEF CancelFlag
    <3> QED
      BY <1>2, <2>1, <3>1
  <2>3. CASE InQueue(j)
    <3>1. flagged' = flagged \cup {j}
      BY <1>5, <2>3 DEF CancelFlag
    <3>2. computed[j] = 0 /\ \A w \in Workers : worker[w].at # "idle" => worker[w].job # j
      BY <2>1, <2>3 DEF ComputedLater, OneHolder
    <3>3. FlaggedNeverRuns'
      BY <2>1, <3>1, <3>2 DEF FlaggedNeverRuns
    <3>4. \A k \in flagged' : k \in given' /\ hash'[k].cancelRequested
      BY <1>1, <2>1, <3>1 DEF FlagsAreSeen, HashKept, Shapes
    <3>5. \A w \in Workers : worker'[w].at \in Unstarted /\ worker'[w].job \in flagged'
                               => worker'[w].at \in {"popped", "drop"}
      BY <2>1, <3>1, <3>2 DEF FlagsAreSeen, Unstarted
    <3> QED
      BY <3>3, <3>4, <3>5 DEF FlagsAreSeen
  <2> QED
    BY <2>2, <2>3
<1>6. ASSUME NEW c \in Callers, \/ SubmitPush(c) \/ CancelRemove(c) \/ CancelSettle(c)
                                \/ CancelRequest(c) \/ GetResult(c) \/ GetDone(c) \/ CallerDies(c)
      PROVE  Goal
  BY <1>2, <1>6 DEF SubmitPush, CancelRemove, CancelSettle, CancelRequest, GetResult, GetDone,
                    CallerDies
<1>7. ASSUME NEW w \in Workers, Pop(w) PROVE Goal
  BY <1>3, <1>7 DEF Pop
<1>8. ASSUME NEW w \in Workers, ClaimRead(w) PROVE Goal
  <2>1. worker[w].job \in flagged => hash[worker[w].job].cancelRequested
    BY DEF FlagsAreSeen
  <2> QED
    BY <1>3, <1>8, <2>1 DEF ClaimRead
<1>9. ASSUME NEW w \in Workers, ClaimMark(w) \/ ClaimCount(w) PROVE Goal
  <2>1. worker[w].job \notin flagged
    BY <1>9 DEF ClaimMark, ClaimCount, FlagsAreSeen, Unstarted
  <2>2. PICK step : WorkerTo(w, step) /\ step.job = worker[w].job
    BY <1>9 DEF ClaimMark, ClaimCount
  <2> QED
    BY <1>3, <1>9, <2>1, <2>2 DEF ClaimMark, ClaimCount
<1>10. ASSUME NEW w \in Workers, Start(w) PROVE Goal
  <2>1. worker[w].job \notin flagged
    BY <1>10 DEF Start, FlagsAreSeen, Unstarted
  <2>2. \A j \in flagged : computed'[j] = computed[j]
    BY <1>10, <2>1 DEF Start, Shapes
  <2> QED
    BY <1>3, <1>10, <2>1, <2>2 DEF Start, Unstarted
<1>11. ASSUME NEW w \in Workers, NEW s \in Ends, Outcome(w, s) PROVE Goal
  <2>1. "finish" \notin Unstarted
    BY DEF Unstarted
  <2> QED
    BY <1>3, <1>11, <2>1 DEF Outcome
<1>12. ASSUME NEW w \in Workers, Poll(w) PROVE Goal
  BY <1>2, <1>12 DEF Poll
<1>13. ASSUME NEW w \in Workers, ClaimDrop(w) \/ Finish(w) \/ WorkerDies(w) PROVE Goal
  <2>1. PICK step : WorkerTo(w, step) /\ step.at \notin Unstarted
    BY <1>13 DEF ClaimDrop, Finish, FinishStatus, FinishResult, FinishCount, WorkerDies,
                 AfterStatus, Unstarted, Idle
  <2> QED
    BY <1>3, <1>13, <2>1 DEF ClaimDrop, Finish, FinishStatus, FinishResult, FinishCount, WorkerDies
<1>14. UNCHANGED vars => Goal
  BY <1>2 DEF vars
<1> HIDE DEF IInv, Goal
<1>15. Goal
  BY <1>4, <1>5, <1>6, <1>7, <1>8, <1>9, <1>10, <1>11, <1>12, <1>13, <1>14
  DEF Next, CallerStep, Claim, Compute
<1> QED
  BY <1>15 DEF Goal
-----------------------------------------------------------------------------
(***************************************************************************)
(* Who answers for a job that says "queued".                               *)
(***************************************************************************)
HeldByCaller(j) == \E c \in Callers : caller[c].at \in {"push", "settle"} /\ caller[c].job = j
HeldByWorker(j) ==
    \E w \in Workers : worker[w].at \in {"popped", "drop", "mark"} /\ worker[w].job = j
Accounted(j) == InQueue(j) \/ HeldByCaller(j) \/ HeldByWorker(j)

LEMMA NotLostNext ==
  ASSUME QueueAssumption, IInv, [Next]_vars
  PROVE  NotLost'
<1> USE DEF IInv
<1>1. deaths \in Nat /\ (deaths' = deaths \/ deaths' = deaths + 1)
  <2>1. deaths' = deaths \/ deaths' = deaths + 1
    BY DEF Next, vars, SubmitHash, CancelRead, GetHash, CallerStep, CallerDies, SubmitPush,
           CancelFlag, CancelRemove, CancelSettle, CancelRequest, GetResult, GetDone, Claim,
           Pop, ClaimRead, ClaimDrop, ClaimMark, ClaimCount, Compute, Start, Poll, Outcome,
           Finish, FinishStatus, FinishResult, FinishCount, WorkerDies
  <2> QED
    BY <2>1 DEF Shapes, QueueAssumption
<1>2. SUFFICES ASSUME deaths = 0, deaths' = 0, NEW j \in Jobs, hash'[j].status = "queued"
               PROVE  Accounted(j)'
  <2>1. deaths' = 0 => deaths = 0
    BY <1>1
  <2> QED
    BY <1>2, <2>1 DEF NotLost, Accounted, HeldByCaller, HeldByWorker
<1>3. hash[j].status = "queued" => Accounted(j)
  BY <1>2 DEF NotLost, Accounted, HeldByCaller, HeldByWorker
<1>4. ASSUME hash[j].status = "queued", worker' = worker, On(queue, j) => On(queue', j),
             NEW c \in Callers, NEW step, CallerTo(c, step),
             caller[c].at \in {"push", "settle"} => caller[c].job # j
      PROVE  Accounted(j)'
  BY <1>3, <1>4, CallerMoves DEF Accounted, HeldByCaller, HeldByWorker, On, InQueue
<1>5. ASSUME hash[j].status = "queued", caller' = caller, On(queue, j) => On(queue', j),
             NEW w \in Workers, NEW step, WorkerTo(w, step),
             worker[w].at \in {"popped", "drop", "mark"} /\ worker[w].job = j
               => step.at \in {"popped", "drop", "mark"} /\ step.job = j
      PROVE  Accounted(j)'
  BY <1>3, <1>5, WorkerMoves DEF Accounted, HeldByCaller, HeldByWorker, On, InQueue
<1>6. ASSUME hash' = hash, UNCHANGED <<worker, caller, queue>> PROVE Accounted(j)'
  BY <1>2, <1>3, <1>6 DEF Accounted, HeldByCaller, HeldByWorker, InQueue
<1>7. ASSUME NEW k \in Jobs, NEW s \in Statuses, s # "none", s # "queued", hash' = WithStatus(k, s)
      PROVE  j # k /\ hash[j].status = "queued"
  BY <1>2, <1>7, StatusWritten
<1>8. ASSUME NEW c \in Callers, NEW k \in Jobs, SubmitHash(c, k) PROVE Accounted(j)'
  <2>1. CASE j = k
    <3>1. caller'[c] = [at |-> "push", job |-> j]
      BY <1>8, <2>1, CallerMoves DEF SubmitHash
    <3> QED
      BY <3>1 DEF Accounted, HeldByCaller
  <2>2. CASE j # k
    <3>1. hash[j].status = "queued"
      BY <1>2, <1>8, <2>2, StatusWritten, StatusNames DEF SubmitHash
    <3> QED
      BY <1>4, <1>8, <3>1 DEF SubmitHash
  <2> QED
    BY <2>1, <2>2
<1>9. ASSUME NEW c \in Callers, NEW k \in Jobs, CancelRead(c, k) \/ GetHash(c, k)
      PROVE  Accounted(j)'
  BY <1>2, <1>4, <1>9 DEF CancelRead, GetHash
<1>10. ASSUME NEW c \in Callers, SubmitPush(c) PROVE Accounted(j)'
  <2>1. caller[c].job \in Jobs /\ ~On(queue, caller[c].job)
    BY <1>10 DEF SubmitPush, CallersKnow, Pushed, On, InQueue
  <2>2. \A k : On(queue', k) <=> On(queue, k) \/ k = caller[c].job
    BY <1>10, <2>1, PushedList DEF SubmitPush, Shapes, OneHolder
  <2>3. CASE j = caller[c].job
    BY <2>2, <2>3 DEF Accounted, On, InQueue
  <2>4. CASE j # caller[c].job
    BY <1>2, <1>4, <1>10, <2>2, <2>4 DEF SubmitPush
  <2> QED
    BY <2>3, <2>4
<1>11. ASSUME NEW c \in Callers, CancelFlag(c) PROVE Accounted(j)'
  <2>1. caller[c].job \in Jobs /\ hash[caller[c].job].status # "none"
    BY <1>11 DEF CancelFlag, CallersKnow, Pushed, Shapes
  <2>2. hash[j].status = "queued"
    BY <1>2, <1>11, <2>1, FlagWritten DEF CancelFlag
  <2> QED
    BY <1>4, <1>11, <2>2 DEF CancelFlag
<1>12. ASSUME NEW c \in Callers, CancelRemove(c) PROVE Accounted(j)'
  <2>1. \A k : On(queue', k) <=> On(queue, k) /\ k # caller[c].job
    BY <1>12, ListWithout DEF CancelRemove, Shapes, OneHolder
  <2>2. CASE j = caller[c].job
    <3>1. caller'[c] = [at |-> "settle", job |-> j]
      BY <1>12, <2>2, CallerMoves DEF CancelRemove
    <3> QED
      BY <3>1 DEF Accounted, HeldByCaller
  <2>3. CASE j # caller[c].job
    BY <1>2, <1>4, <1>12, <2>1, <2>3 DEF CancelRemove
  <2> QED
    BY <2>2, <2>3
<1>13. ASSUME NEW c \in Callers, CancelSettle(c) \/ CancelRequest(c) PROVE Accounted(j)'
  <2>1. caller[c].job \in Jobs
    BY <1>13 DEF CancelSettle, CancelRequest, CallersKnow, Shapes
  <2>2. j # caller[c].job /\ hash[j].status = "queued"
    BY <1>7, <1>13, <2>1, StatusNames DEF CancelSettle, CancelRequest
  <2> QED
    BY <1>4, <1>13, <2>2 DEF CancelSettle, CancelRequest
<1>14. ASSUME NEW c \in Callers, GetResult(c) \/ GetDone(c) PROVE Accounted(j)'
  BY <1>2, <1>4, <1>14 DEF GetResult, GetDone
<1>15. ASSUME NEW c \in Callers, CallerDies(c) PROVE Accounted(j)'
  BY <1>1, <1>2, <1>15 DEF CallerDies
<1>16. ASSUME NEW w \in Workers, Pop(w) PROVE Accounted(j)'
  <2>1. \A k : On(queue', k) <=> On(queue, k) /\ k # Last(queue)
    BY <1>16, PoppedList DEF Pop, Shapes, OneHolder
  <2>2. CASE j = Last(queue)
    <3>1. worker'[w] = [at |-> "popped", job |-> j]
      BY <1>16, <2>2, WorkerMoves DEF Pop
    <3> QED
      BY <3>1 DEF Accounted, HeldByWorker
  <2>3. CASE j # Last(queue)
    BY <1>2, <1>5, <1>16, <2>1, <2>3 DEF Pop
  <2> QED
    BY <2>2, <2>3
<1>17. ASSUME NEW w \in Workers, worker[w].at # "idle" PROVE worker[w].job \in Jobs
  BY <1>17 DEF WorkersKnow, Known, Shapes
<1>18. ASSUME NEW w \in Workers, ClaimRead(w) PROVE Accounted(j)'
  BY <1>2, <1>5, <1>18 DEF ClaimRead
<1>19. ASSUME NEW w \in Workers, ClaimDrop(w) \/ ClaimMark(w) PROVE Accounted(j)'
  <2>1. worker[w].job \in Jobs
    BY <1>17, <1>19 DEF ClaimDrop, ClaimMark
  <2>2. j # worker[w].job /\ hash[j].status = "queued"
    BY <1>7, <1>19, <2>1, StatusNames DEF ClaimDrop, ClaimMark
  <2>3. PICK step : WorkerTo(w, step)
    BY <1>19 DEF ClaimDrop, ClaimMark
  <2> QED
    BY <1>5, <1>19, <2>2, <2>3 DEF ClaimDrop, ClaimMark
<1>20. ASSUME NEW w \in Workers, ClaimCount(w) \/ Start(w) \/ FinishResult(w) \/ FinishCount(w)
       PROVE  Accounted(j)'
  <2>1. PICK step : WorkerTo(w, step)
    BY <1>20 DEF ClaimCount, Start, FinishResult, FinishCount
  <2> QED
    BY <1>2, <1>5, <1>20, <2>1 DEF ClaimCount, Start, FinishResult, FinishCount
<1>21. ASSUME NEW w \in Workers, NEW s \in Ends, Outcome(w, s) PROVE Accounted(j)'
  BY <1>2, <1>5, <1>21 DEF Outcome
<1>22. ASSUME NEW w \in Workers, Poll(w) PROVE Accounted(j)'
  BY <1>6, <1>22 DEF Poll
<1>23. ASSUME NEW w \in Workers, FinishStatus(w) PROVE Accounted(j)'
  <2>1. worker[w].job \in Jobs /\ worker[w].status \in Ends
    BY <1>17, <1>23 DEF FinishStatus, WorkersKnow, Known
  <2>2. hash[j].status = "queued"
    BY <1>7, <1>23, <2>1, StatusNames DEF FinishStatus
  <2>3. PICK step : WorkerTo(w, step)
    BY <1>23 DEF FinishStatus
  <2> QED
    BY <1>5, <1>23, <2>2, <2>3 DEF FinishStatus
<1>24. ASSUME NEW w \in Workers, WorkerDies(w) PROVE Accounted(j)'
  BY <1>1, <1>2, <1>24 DEF WorkerDies
<1>25. UNCHANGED vars => Accounted(j)'
  BY <1>6 DEF vars
<1> HIDE DEF IInv
<1>26. ASSUME NEW c \in Callers, CallerStep(c) PROVE Accounted(j)'
  BY <1>10, <1>11, <1>12, <1>13, <1>14, <1>26 DEF CallerStep
<1>27. ASSUME NEW w \in Workers, Claim(w) \/ Compute(w) \/ Finish(w) PROVE Accounted(j)'
  BY <1>16, <1>18, <1>19, <1>20, <1>21, <1>22, <1>23, <1>27 DEF Claim, Compute, Finish
<1> QED
  BY <1>8, <1>9, <1>15, <1>24, <1>25, <1>26, <1>27 DEF Next
-----------------------------------------------------------------------------
(***************************************************************************)
(* The counter, and the invariant.                                         *)
(***************************************************************************)
Busy == {w \in Workers : worker[w].at \in Counted}

LEMMA RunningNext ==
  ASSUME QueueAssumption, IInv, [Next]_vars
  PROVE  RunningCounts'
<1> USE DEF IInv
<1>0. /\ IsFiniteSet(Busy) /\ Cardinality(Busy) \in Nat /\ running \in Int /\ deaths \in Nat
      /\ IF CountsRunning THEN Cardinality(Busy) <= running /\ running <= Cardinality(Busy) + deaths
         ELSE running = 0
  <2>1. IsFiniteSet(Busy) /\ Cardinality(Busy) \in Nat
    BY FS_Subset, FS_CardinalityType DEF Busy, QueueAssumption
  <2> QED
    BY <2>1 DEF RunningCounts, Busy, Shapes, QueueAssumption
<1> DEFINE Within(n, r, d) == IF CountsRunning THEN n <= r /\ r <= n + d ELSE r = 0
<1>a. RunningCounts' <=> Within(Cardinality(Busy'), running', deaths')
  BY DEF RunningCounts, Busy
<1>b. Within(Cardinality(Busy), running, deaths)
  BY <1>0
<1>1. ASSUME Busy' = Busy, running' = running, deaths' = deaths PROVE RunningCounts'
  BY <1>a, <1>b, <1>1
<1>2. ASSUME NEW w \in Workers, NEW step, WorkerTo(w, step),
             step.at \in Counted <=> worker[w].at \in Counted
      PROVE  Busy' = Busy
  BY <1>2, WorkerMoves DEF Busy
<1>3. ASSUME NEW c \in Callers, NEW j \in Jobs, SubmitHash(c, j) \/ CancelRead(c, j) \/ GetHash(c, j)
      PROVE  RunningCounts'
  BY <1>1, <1>3 DEF SubmitHash, CancelRead, GetHash, Busy
<1>4. ASSUME NEW c \in Callers, CallerStep(c) PROVE RunningCounts'
  BY <1>1, <1>4 DEF CallerStep, SubmitPush, CancelFlag, CancelRemove, CancelSettle, CancelRequest,
                    GetResult, GetDone, Busy
<1>5. ASSUME NEW c \in Callers, CallerDies(c) PROVE RunningCounts'
  <2>1. Busy' = Busy /\ running' = running /\ deaths' = deaths + 1
    BY <1>5 DEF CallerDies, Busy
  <2> QED
    BY <1>0, <1>a, <2>1
<1>6. ASSUME NEW w \in Workers, Pop(w) \/ ClaimRead(w) \/ ClaimDrop(w) PROVE RunningCounts'
  <2>1. PICK step : WorkerTo(w, step) /\ step.at \notin Counted
    BY <1>6 DEF Pop, ClaimRead, ClaimDrop, Idle, Counted
  <2>2. worker[w].at \notin Counted
    BY <1>6 DEF Pop, ClaimRead, ClaimDrop, Counted
  <2> QED
    BY <1>1, <1>2, <1>6, <2>1, <2>2 DEF Pop, ClaimRead, ClaimDrop
<1>7. ASSUME NEW w \in Workers, NEW step, WorkerTo(w, step), worker[w].at \notin Counted,
             step.at \in Counted
      PROVE  Cardinality(Busy') = Cardinality(Busy) + 1
  <2>1. Busy' = Busy \cup {w} /\ w \notin Busy
    BY <1>7, WorkerMoves DEF Busy
  <2> QED
    BY <1>0, <2>1, FS_AddElement
<1>8. ASSUME NEW w \in Workers, NEW step, WorkerTo(w, step), step.at \notin Counted
      PROVE  \/ worker[w].at \in Counted /\ Cardinality(Busy') = Cardinality(Busy) - 1
             \/ worker[w].at \notin Counted /\ Cardinality(Busy') = Cardinality(Busy)
  <2>1. CASE worker[w].at \in Counted
    <3>1. Busy' = Busy \ {w} /\ w \in Busy
      BY <1>8, <2>1, WorkerMoves DEF Busy
    <3> QED
      BY <1>0, <2>1, <3>1, FS_RemoveElement
  <2>2. CASE worker[w].at \notin Counted
    BY <1>2, <1>8, <2>2
  <2> QED
    BY <2>1, <2>2
<1>9. ASSUME NEW w \in Workers, ClaimMark(w) PROVE RunningCounts'
  <2>1. worker[w].at \notin Counted
    BY <1>9 DEF ClaimMark, Counted
  <2>2. CASE CountsRunning
    <3>1. WorkerTo(w, [at |-> "count", job |-> worker[w].job]) /\ "count" \notin Counted
      BY <1>9, <2>2 DEF ClaimMark, Counted
    <3> QED
      BY <1>1, <1>2, <1>9, <2>1, <3>1 DEF ClaimMark
  <2>3. CASE ~CountsRunning
    BY <1>0, <1>9, <2>3 DEF ClaimMark, RunningCounts
  <2> QED
    BY <2>2, <2>3
<1>10. ASSUME NEW w \in Workers, ClaimCount(w) PROVE RunningCounts'
  <2>1. CountsRunning /\ worker[w].at \notin Counted /\ "start" \in Counted
    BY <1>10 DEF ClaimCount, WorkersKnow, Known, Counted
  <2>2. Cardinality(Busy') = Cardinality(Busy) + 1 /\ running' = running + 1 /\ deaths' = deaths
    BY <1>7, <1>10, <2>1 DEF ClaimCount
  <2> QED
    BY <1>0, <1>a, <2>1, <2>2
<1>11. ASSUME NEW w \in Workers, Start(w) \/ \E s \in Ends : Outcome(w, s) PROVE RunningCounts'
  <2>1. worker[w].at \in Counted /\ "computing" \in Counted /\ "finish" \in Counted
    BY <1>11 DEF Start, Outcome, Counted
  <2>2. Busy' = Busy
    BY <1>2, <1>11, <2>1 DEF Start, Outcome
  <2> QED
    BY <1>1, <1>11, <2>2 DEF Start, Outcome
<1>12. ASSUME NEW w \in Workers, Poll(w) PROVE RunningCounts'
  BY <1>1, <1>12 DEF Poll, Busy
<1>13. ASSUME NEW w \in Workers, FinishStatus(w) \/ FinishResult(w) PROVE RunningCounts'
  <2>1. worker[w].at \in Counted
    BY <1>13 DEF FinishStatus, FinishResult, Counted
  <2>2. CASE CountsRunning
    <3>1. PICK step : WorkerTo(w, step) /\ step.at \in Counted
      BY <1>13, <2>2 DEF FinishStatus, FinishResult, AfterStatus, Counted
    <3> QED
      BY <1>1, <1>2, <1>13, <2>1, <3>1 DEF FinishStatus, FinishResult
  <2>3. CASE ~CountsRunning
    BY <1>0, <1>13, <2>3 DEF FinishStatus, FinishResult, RunningCounts
  <2> QED
    BY <2>2, <2>3
<1>14. ASSUME NEW w \in Workers, FinishCount(w) PROVE RunningCounts'
  <2>1. CountsRunning /\ worker[w].at \in Counted /\ Idle.at \notin Counted
    BY <1>14 DEF FinishCount, WorkersKnow, Known, Counted, Idle
  <2>2. Cardinality(Busy') = Cardinality(Busy) - 1 /\ running' = running - 1 /\ deaths' = deaths
    BY <1>8, <1>14, <2>1 DEF FinishCount
  <2> QED
    BY <1>0, <1>a, <2>1, <2>2
<1>15. ASSUME NEW w \in Workers, WorkerDies(w) PROVE RunningCounts'
  <2>1. Idle.at \notin Counted
    BY DEF Counted, Idle
  <2>2. /\ Cardinality(Busy') = Cardinality(Busy) - 1 \/ Cardinality(Busy') = Cardinality(Busy)
        /\ running' = running /\ deaths' = deaths + 1
    BY <1>8, <1>15, <2>1 DEF WorkerDies
  <2> QED
    BY <1>0, <1>a, <2>2
<1>16. UNCHANGED vars => RunningCounts'
  BY <1>1 DEF vars, Busy
<1> HIDE DEF IInv
<1>17. ASSUME NEW w \in Workers, Claim(w) \/ Compute(w) \/ Finish(w) PROVE RunningCounts'
  BY <1>6, <1>9, <1>10, <1>11, <1>12, <1>13, <1>14, <1>17 DEF Claim, Compute, Finish
<1> QED
  BY <1>3, <1>4, <1>5, <1>15, <1>16, <1>17 DEF Next

LEMMA InvariantInit ==
  ASSUME QueueAssumption, Init
  PROVE  IInv
<1> USE DEF Init
<1>1. Shapes
  BY DEF Shapes, Rows, NoHash, QueueAssumption
<1>2. WorkersKnow /\ CallersKnow /\ Pushed
  BY DEF WorkersKnow, Known, CallersKnow, Pushed, InQueue, Idle, WorkerPlaces, CallerPlaces, Unstarted
<1>3. OneHolder
  BY DEF OneHolder, InQueue, Idle, IsInjective
<1>4. ComputedOnce /\ ComputedLater /\ FlagsAreSeen /\ FlaggedNeverRuns
  BY DEF ComputedOnce, ComputedLater, FlagsAreSeen, FlaggedNeverRuns, Unstarted, Idle
<1>5. NotLost
  BY DEF NotLost, NoHash
<1>6. RunningCounts
  <2>1. Busy = {}
    BY DEF Busy, Idle, Counted
  <2>2. Cardinality(Busy) = 0
    BY <2>1, FS_EmptySet
  <2> QED
    BY <2>2 DEF RunningCounts, Busy
<1> QED
  BY <1>1, <1>2, <1>3, <1>4, <1>5, <1>6 DEF IInv

\* The queue keeps its jobs for any number of jobs, callers, workers and
\* deaths: each has one holder and is computed at most once, one flagged in
\* time never, none is lost without a death, and the counter is right.
THEOREM JobsStaySafe ==
  ASSUME QueueAssumption
  PROVE  Spec => []QueueSafe
<1>1. Init => IInv
  BY InvariantInit
<1>2. ASSUME IInv, [Next]_vars PROVE IInv'
  <2>1. Shapes'
    <3>1. Shapes /\ WorkersKnow /\ CallersKnow /\ Pushed /\ OneHolder
      BY <1>2 DEF IInv
    <3> QED
      BY <1>2, <3>1, TablesNext
  <2> QED
    BY <1>2, <2>1, WorkersKnowNext, CallersKnowNext, OneHolderNext, ComputedNext, FlagsNext,
       NotLostNext, RunningNext DEF IInv
<1>3. IInv => QueueSafe
  <2>1. IInv => TypeOK
    BY DEF IInv, Shapes, Rows, WorkersKnow, Known, CallersKnow, TypeOK
  <2> QED
    BY <2>1 DEF IInv, QueueSafe
<1> QED
  BY <1>1, <1>2, <1>3, PTL DEF Spec
-----------------------------------------------------------------------------
(***************************************************************************)
(* RiverTheory: the cache of the river solver and what is answered.        *)
(***************************************************************************)
Names == {"check", "bet", "fold", "call", "raise"}
Decisions == Nat \X Nat
Results == [of : Decisions, done : {Iterations}]

\* One full result per decision, at most so many.
IsCache(c) ==
    /\ c \in Seq(Results) /\ Len(c) <= MaxEntries
    /\ \A i, j \in 1 .. Len(c) : c[i].of = c[j].of => i = j

\* The cache without a decision, and with a new result of it at the end.
LEMMA CacheWithout ==
  ASSUME NEW c, IsCache(c), NEW d
  PROVE  /\ IsCache(OthersThan(c, d)) /\ \A i \in 1 .. Len(OthersThan(c, d)) : OthersThan(c, d)[i].of # d
         /\ (\E i \in DOMAIN c : c[i].of = d) => Len(OthersThan(c, d)) < MaxEntries
<1>1. c \in Seq(Results) /\ Len(c) \in Nat /\ DOMAIN c = 1 .. Len(c) /\ Len(c) <= MaxEntries
      /\ MaxEntries \in Nat
  BY RiverAssumption DEF IsCache
<1>2. CASE ~\E i \in DOMAIN c : c[i].of = d
  BY <1>1, <1>2 DEF OthersThan
<1>3. CASE \E i \in DOMAIN c : c[i].of = d
  <2>1. PICK k : k = CHOOSE i \in DOMAIN c : c[i].of = d
    OBVIOUS
  <2>2. k \in 1 .. Len(c) /\ c[k].of = d
    BY <1>1, <1>3, <2>1
  <2>3. PICK o : o = OthersThan(c, d)
    OBVIOUS
  <2>4. o = RemoveAt(c, k)
    BY <1>3, <2>1, <2>3 DEF OthersThan
  <2>5. /\ RemoveAt(c, k) \in Seq(Results) /\ Len(RemoveAt(c, k)) = Len(c) - 1
        /\ DOMAIN RemoveAt(c, k) = 1 .. Len(c) - 1
        /\ \A m \in 1 .. Len(c) - 1 : RemoveAt(c, k)[m] = IF m < k THEN c[m] ELSE c[m + 1]
    BY <1>1, <2>2, RemovedAt
  <2>6. /\ o \in Seq(Results) /\ Len(o) = Len(c) - 1
        /\ \A m \in 1 .. Len(c) - 1 : o[m] = IF m < k THEN c[m] ELSE c[m + 1]
    BY <2>4, <2>5, Zenon
  <2> DEFINE at(m) == IF m < k THEN m ELSE m + 1
  <2>7. \A m \in 1 .. Len(c) - 1 : at(m) \in 1 .. Len(c) /\ at(m) # k /\ o[m] = c[at(m)]
    BY <1>1, <2>2, <2>6
  <2>8. \A m, n \in 1 .. Len(c) - 1 : at(m) = at(n) => m = n
    BY <1>1, <2>2
  <2> HIDE DEF at
  <2>9. \A m \in 1 .. Len(c) - 1 : o[m].of # d
    BY <2>2, <2>7 DEF IsCache
  <2>10. \A m, n \in 1 .. Len(c) - 1 : o[m].of = o[n].of => m = n
    BY <2>7, <2>8 DEF IsCache
  <2>11. IsCache(o)
    BY <1>1, <2>6, <2>10 DEF IsCache
  <2> QED
    BY <1>1, <2>3, <2>6, <2>9, <2>11
<1> QED
  BY <1>2, <1>3

LEMMA CacheAppended ==
  ASSUME NEW c, IsCache(c), NEW r \in Results, \A i \in 1 .. Len(c) : c[i].of # r.of, Len(c) < MaxEntries
  PROVE  IsCache(Append(c, r))
<1>1. c \in Seq(Results) /\ Len(c) \in Nat
  BY DEF IsCache
<1>2. PICK n : n = Append(c, r)
  OBVIOUS
<1>3. /\ n \in Seq(Results) /\ Len(n) = Len(c) + 1 /\ n[Len(c) + 1] = r
      /\ \A i \in 1 .. Len(c) : n[i] = c[i]
  BY <1>1, <1>2
<1>4. \A i, j \in 1 .. Len(n) : n[i].of = n[j].of => i = j
  <2> SUFFICES ASSUME NEW i \in 1 .. Len(n), NEW j \in 1 .. Len(n), n[i].of = n[j].of PROVE i = j
    OBVIOUS
  <2>1. i \in 1 .. Len(c) \/ i = Len(c) + 1
    BY <1>1, <1>3
  <2>2. j \in 1 .. Len(c) \/ j = Len(c) + 1
    BY <1>1, <1>3
  <2> QED
    BY <1>3, <2>1, <2>2 DEF IsCache
<1>5. Len(n) <= MaxEntries
  BY <1>1, <1>3, RiverAssumption
<1> QED
  BY <1>2, <1>3, <1>4, <1>5 DEF IsCache

\* A put that finds the cache full drops the oldest result.
LEMMA CachePut ==
  ASSUME IsCache(solved), NEW r \in Results
  PROVE  IsCache(Put(r))
<1>1. PICK o : o = OthersThan(solved, r.of)
  OBVIOUS
<1>2. IsCache(o) /\ \A i \in 1 .. Len(o) : o[i].of # r.of
  BY <1>1, CacheWithout
<1>3. o \in Seq(Results) /\ Len(o) \in Nat /\ Len(o) <= MaxEntries /\ MaxEntries \in Nat \ {0}
  BY <1>2, RiverAssumption DEF IsCache
<1>4. PICK n : n = Append(o, r)
  OBVIOUS
<1>5. /\ n \in Seq(Results) /\ Len(n) = Len(o) + 1 /\ n[Len(o) + 1] = r
      /\ \A i \in 1 .. Len(o) : n[i] = o[i]
  BY <1>3, <1>4
<1>6. Put(r) = IF Len(n) > MaxEntries THEN Tail(n) ELSE n
  BY <1>1, <1>4 DEF Put
<1>7. CASE Len(n) > MaxEntries
  <2>1. PICK t : t = Tail(n)
    OBVIOUS
  <2>2. /\ t \in Seq(Results) /\ Len(t) = Len(o) /\ \A i \in 1 .. Len(o) : t[i] = n[i + 1]
    BY <1>3, <1>5, <2>1
  <2>3. \A i, j \in 1 .. Len(n) : n[i].of = n[j].of => i = j
    <3> SUFFICES ASSUME NEW i \in 1 .. Len(n), NEW j \in 1 .. Len(n), n[i].of = n[j].of PROVE i = j
      OBVIOUS
    <3>1. i \in 1 .. Len(o) \/ i = Len(o) + 1
      BY <1>3, <1>5
    <3>2. j \in 1 .. Len(o) \/ j = Len(o) + 1
      BY <1>3, <1>5
    <3> QED
      BY <1>2, <1>5, <3>1, <3>2 DEF IsCache
  <2>4. \A i, j \in 1 .. Len(t) : t[i].of = t[j].of => i = j
    <3> SUFFICES ASSUME NEW i \in 1 .. Len(t), NEW j \in 1 .. Len(t), t[i].of = t[j].of PROVE i = j
      OBVIOUS
    <3>1. i + 1 \in 1 .. Len(n) /\ j + 1 \in 1 .. Len(n) /\ t[i] = n[i + 1] /\ t[j] = n[j + 1]
      BY <1>3, <1>5, <2>2
    <3>2. i + 1 = j + 1
      BY <2>3, <3>1
    <3> QED
      BY <3>2, <1>3, <2>2
  <2> QED
    BY <1>3, <1>6, <1>7, <2>1, <2>2, <2>4 DEF IsCache
<1>8. CASE ~(Len(n) > MaxEntries)
  <2>1. Len(o) < MaxEntries
    BY <1>3, <1>5, <1>8
  <2>2. IsCache(n)
    BY <1>2, <1>4, <2>1, CacheAppended
  <2> QED
    BY <1>6, <1>8, <2>2
<1> QED
  BY <1>7, <1>8

LEMMA CacheEntry ==
  ASSUME IsCache(solved), NEW d, d \in Keys
  PROVE  Entry(d) \in Results /\ Entry(d).of = d
<1>1. solved \in Seq(Results) /\ Len(solved) \in Nat
  BY DEF IsCache
<1>2. PICK k : k = CHOOSE i \in 1 .. Len(solved) : solved[i].of = d
  OBVIOUS
<1>3. k \in 1 .. Len(solved) /\ solved[k].of = d
  BY <1>2 DEF Keys
<1>4. Entry(d) = solved[k]
  BY <1>2 DEF Entry
<1> QED
  BY <1>1, <1>3, <1>4

LEMMA CacheTouched ==
  ASSUME IsCache(solved), NEW d, d \in Keys
  PROVE  IsCache(Touched(d))
<1>1. PICK o : o = OthersThan(solved, d)
  OBVIOUS
<1>2. \E i \in DOMAIN solved : solved[i].of = d
  BY DEF Keys, IsCache
<1>3. IsCache(o) /\ (\A i \in 1 .. Len(o) : o[i].of # d) /\ Len(o) < MaxEntries
  BY <1>1, <1>2, CacheWithout
<1>4. PICK r \in Results : r = Entry(d) /\ r.of = d
  BY CacheEntry
<1>5. IsCache(Append(o, r))
  BY <1>3, <1>4, CacheAppended
<1> QED
  BY <1>1, <1>4, <1>5 DEF Touched

-----------------------------------------------------------------------------
(***************************************************************************)
(* What is answered.                                                       *)
(***************************************************************************)
\* A river on which the solver's tree applies: the hero's smallest bet is its
\* whole stack, so nobody who calls it may raise.
LEMMA GateIsAJam ==
  ASSUME NEW s \in Spots, NEW h, Gate(s, h)
  PROVE  /\ BetBounds(s, "hero") = [min |-> s.stack["hero"], max |-> s.stack["hero"]]
         /\ s.stack["hero"] <= s.stack["villain"]
         /\ \A g \in {<< "bet" >>, << "check", "bet" >>} : LegalNames(s, g) \subseteq TreeActions[g]
<1>1. s.stack \in [Players -> Nat] /\ s.stack["hero"] \in Nat /\ s.stack["villain"] \in Nat
      /\ BigBlind \in Nat
  <2>1. s.stack \in [Players -> RiverStacks] /\ RiverStacks \subseteq Nat /\ BigBlind \in Nat
    BY RiverAssumption DEF Spots
  <2> QED
    BY <2>1 DEF Players
<1>2. BetBounds(s, "hero") = [min |-> SmallestOf(BigBlind, s.stack["hero"]), max |-> s.stack["hero"]]
  BY DEF BetBounds
<1>3. SmallestOf(BigBlind, s.stack["hero"]) = s.stack["hero"] /\ s.stack["hero"] <= s.stack["villain"]
  BY <1>2 DEF Gate
<1>4. ~(s.stack["hero"] > BigBlind)
  BY <1>1, <1>3 DEF SmallestOf
<1>5. ~\A p \in Players : s.stack[p] > BigBlind
  BY <1>4 DEF Players
<1>6. ASSUME NEW g \in {<< "bet" >>, << "check", "bet" >>}
      PROVE  LegalNames(s, g) \subseteq TreeActions[g]
  <2>1. g # <<>> /\ g[Len(g)] = "bet" /\ ~Ended(g)
    BY DEF Ended
  <2>2. LegalNames(s, g) = {"fold", "call"}
    BY <1>5, <2>1 DEF LegalNames
  <2>3. TreeActions[g] = {"fold", "call"}
    BY DEF TreeActions
  <2> QED
    BY <2>2, <2>3
<1> QED
  BY <1>2, <1>3, <1>6

\* What an answer says of the decision it is about.
AnswerFits(a) ==
    /\ a.about[2] = Len(a.log) \/ a.about = << 0, 0 >>
    /\ a.grade \in {"B", "C", "unsupported"}
    /\ a.grade = "B" =>
          /\ a.policy.of = a.about /\ Turn(a.spot, a.log) = "hero"
          /\ a.status = "ready" <=> a.policy.done = Iterations
          /\ a.spot \in Spots /\ Gate(a.spot, a.log)
    /\ a.grade # "B" => a.policy = NoPolicy

RiverInv ==
    /\ hand \in 1 .. MaxHands /\ spot \in Spots /\ log \in Seq(Names)
    /\ IsCache(solved)
    /\ AnswerFits(answer)

LEMMA AnswerIs ==
  ASSUME NEW d, NEW g, NEW st, NEW p
  PROVE  /\ Answer(d, g, st, p).about = d /\ Answer(d, g, st, p).grade = g
         /\ Answer(d, g, st, p).status = st /\ Answer(d, g, st, p).policy = p
         /\ Answer(d, g, st, p).spot = spot /\ Answer(d, g, st, p).log = log
BY DEF Answer

LEMMA FreshAnswers ==
  ASSUME NEW d, Fresh(d)
  PROVE  AnswerFits(Unavailable(d)) /\ AnswerFits(Formula(d))
<1>1. d[2] = Len(log)
  BY DEF Fresh, Decision
<1> QED
  BY <1>1, AnswerIs DEF AnswerFits, Unavailable, Formula

LEMMA ExplainedFits ==
  ASSUME NEW d, Fresh(d), NEW r, r.of = d, Turn(spot, log) = "hero", Gate(spot, log), spot \in Spots
  PROVE  AnswerFits(Explained(d, r))
<1>1. CASE ~HasPolicy(r)
  BY <1>1, FreshAnswers DEF Explained
<1>2. CASE HasPolicy(r)
  <2>1. PICK a : a = Explained(d, r)
    OBVIOUS
  <2>2. /\ a.about = d /\ a.grade = "B" /\ a.policy = r /\ a.spot = spot /\ a.log = log
        /\ a.status = IF r.done = Iterations THEN "ready" ELSE "degraded"
    BY <1>2, <2>1, AnswerIs DEF Explained, Coverage
  <2>3. d[2] = Len(log)
    BY DEF Fresh, Decision
  <2> QED
    BY <2>1, <2>2, <2>3 DEF AnswerFits
<1> QED
  BY <1>1, <1>2

LEMMA RiverInvInit == RiverInit => RiverInv
<1> SUFFICES ASSUME RiverInit PROVE RiverInv
  OBVIOUS
<1>1. hand \in 1 .. MaxHands
  BY RiverAssumption DEF RiverInit
<1>2. IsCache(solved)
  BY RiverAssumption DEF RiverInit, IsCache
<1>3. AnswerFits(answer)
  BY AnswerIs DEF RiverInit, AnswerFits
<1> QED
  BY <1>1, <1>2, <1>3 DEF RiverInit, RiverInv

LEMMA RiverInvStep == RiverInv /\ [RiverNext]_riverVars => RiverInv'
<1> SUFFICES ASSUME RiverInv, [RiverNext]_riverVars PROVE RiverInv'
  OBVIOUS
<1>1. hand \in 1 .. MaxHands /\ spot \in Spots /\ log \in Seq(Names) /\ IsCache(solved) /\ AnswerFits(answer)
  BY DEF RiverInv
<1>2. Decision \in Decisions
  BY <1>1 DEF Decision, Decisions
<1>3. ASSUME NEW d, NotHeroDecision(d) PROVE RiverInv'
  BY <1>1, <1>3, FreshAnswers DEF NotHeroDecision, RiverInv
<1>4. ASSUME NEW d, ByFormula(d) PROVE RiverInv'
  BY <1>1, <1>4, FreshAnswers DEF ByFormula, RiverInv
<1>5. ASSUME NEW d, Hit(d) PROVE RiverInv'
  <2>1. Fresh(d) /\ d = Decision /\ Decision \in Keys /\ Turn(spot, log) = "hero" /\ Gate(spot, log)
    BY <1>5 DEF Hit, Fresh
  <2>2. IsCache(Touched(Decision)) /\ Entry(Decision).of = d
    BY <1>1, <2>1, CacheTouched, CacheEntry
  <2>3. AnswerFits(Explained(d, Entry(Decision)))
    BY <1>1, <2>1, <2>2, ExplainedFits
  <2> QED
    BY <1>1, <1>5, <2>2, <2>3 DEF Hit, RiverInv
<1>6. ASSUME NEW d, NEW n \in 0 .. Iterations, Solve(d, n) PROVE RiverInv'
  <2>1. Fresh(d) /\ d = Decision /\ Turn(spot, log) = "hero" /\ Gate(spot, log)
    BY <1>6 DEF Solve, Fresh
  <2>2. PICK r : r = Result(Decision, n)
    OBVIOUS
  <2>3. r = [of |-> d, done |-> n] /\ r.of = d /\ r.done = n
    BY <2>1, <2>2 DEF Result
  <2>4. solved' = (IF Kept(r) THEN Put(r) ELSE solved) /\ answer' = Explained(d, r)
        /\ UNCHANGED <<hand, spot, log>>
    BY <1>6, <2>2 DEF Solve
  <2>5. Kept(r) => r \in Results
    BY <1>2, <2>1, <2>3 DEF Kept, Results
  <2>6. IsCache(solved')
    BY <1>1, <2>4, <2>5, CachePut
  <2>7. AnswerFits(answer')
    BY <1>1, <2>1, <2>3, <2>4, ExplainedFits
  <2> QED
    BY <1>1, <2>4, <2>6, <2>7 DEF RiverInv
<1>7. ASSUME NEW a \in Names, Act(a) PROVE RiverInv'
  BY <1>1, <1>7 DEF Act, RiverInv
<1>8. CASE NextHand
  <2>1. hand' \in 1 .. MaxHands
    BY <1>1, <1>8, RiverAssumption DEF NextHand
  <2> QED
    BY <1>1, <1>8, <2>1 DEF NextHand, RiverInv
<1>9. CASE Restart
  <2>1. IsCache(<<>>)
    BY RiverAssumption DEF IsCache
  <2> QED
    BY <1>1, <1>9, <2>1 DEF Restart, RiverInv
<1>10. CASE UNCHANGED riverVars
  BY <1>1, <1>10 DEF riverVars, RiverInv
<1>11. ASSUME NEW d \in Askable, Ask(d) PROVE RiverInv'
  BY <1>3, <1>4, <1>5, <1>6, <1>10, <1>11 DEF Ask, Refuse
<1> QED
  BY <1>7, <1>8, <1>9, <1>10, <1>11 DEF RiverNext, Names

LEMMA RiverInvGives == RiverInv => TheorySound
<1> SUFFICES ASSUME RiverInv PROVE TheorySound
  OBVIOUS
<1>1. /\ hand \in 1 .. MaxHands /\ spot \in Spots /\ log \in Seq(Names) /\ IsCache(solved) /\ AnswerFits(answer)
      /\ Iterations \in Nat \ {0}
  BY RiverAssumption DEF RiverInv
<1>2. \A i \in 1 .. Len(solved) : solved[i].done = Iterations
  <2>1. \A i \in 1 .. Len(solved) : solved[i] \in Results
    BY <1>1 DEF IsCache
  <2> QED
    BY <2>1 DEF Results
<1>3. CacheIsComplete
  BY <1>1, <1>2 DEF CacheIsComplete, IsCache
<1>4. PolicyIsOfTheDecision
  BY <1>1 DEF PolicyIsOfTheDecision, AnswerFits
<1>5. BetIsACoveredJam
  <2>1. PICK s : s = answer.spot
    OBVIOUS
  <2>2. answer.grade = "B" => s \in Spots /\ Gate(s, answer.log)
    BY <1>1, <2>1 DEF AnswerFits
  <2> QED
    BY <2>1, <2>2, GateIsAJam DEF BetIsACoveredJam
<1>6. RiverOK
  BY <1>1, <1>2 DEF RiverOK, AnswerFits, Names, IsCache
<1> QED
  BY <1>3, <1>4, <1>5, <1>6 DEF TheorySound

\* However the table plays and whoever asks, whatever times out and however often
\* the process restarts: the cache holds one full result per decision, a policy is
\* of the decision asked about, and its bet is a jam the opponent covers.
THEOREM TheoryStaysSound == RiverSpec => []TheorySound
<1>1. RiverInv /\ [RiverNext]_riverVars => RiverInv'
  BY RiverInvStep
<1> QED
  BY RiverInvInit, <1>1, RiverInvGives, PTL DEF RiverSpec
=============================================================================
