------------------------------ MODULE JobQueue ------------------------------
(***************************************************************************)
(* The Redis job queue of jobs/redis_queue.py with the cooperative worker  *)
(* of jobs/worker.py, and its twin solver/jobs.py with solver/worker.py,   *)
(* which keeps no counter of running jobs (CountsRunning = FALSE).  One    *)
(* Redis command is atomic; a method is several commands, so callers and   *)
(* workers interleave between any two of them.  Callers and workers may    *)
(* die between two commands as well.                                       *)
(***************************************************************************)
EXTENDS Integers, Sequences, FiniteSets, SequencesExt

CONSTANTS
    Jobs,           \* the ids uuid4 hands out
    Workers, Callers,
    CountsRunning,  \* whether the queue keeps the {prefix}:running counter
    Ends,           \* the statuses a worker finishes a job with
    Cancellable,    \* the jobs callers may cancel
    MaxDeaths       \* bound on the processes that die in mid-method

\* What an instance assumes of its constants.
QueueAssumption ==
    /\ CountsRunning \in BOOLEAN
    /\ {"completed", "failed", "cancelled"} \subseteq Ends
    /\ Ends \subseteq {"completed", "failed", "timeout", "cancelled"}
    /\ Cancellable \subseteq Jobs
    /\ MaxDeaths \in Nat
    /\ IsFiniteSet(Workers)

VARIABLES
    hash,      \* the job hash: status and cancelRequested; NoHash before submit
    given,     \* the ids submit has returned: what callers know
    queue,     \* the list of pending ids; LPUSH at the head, RPOP at the tail
    results,   \* the jobs whose result key is set
    running,   \* the counter of claimed jobs
    worker,    \* where a worker is: the next command, its job, what it holds
    caller,    \* the same for a process that submits, cancels or reads
    events,    \* the jobs whose poller set the cancel event
    deaths,
    computed,  \* history: how often analyze_scenario was entered for a job
    flagged,   \* history: the jobs whose flag was set while they were queued
    answered   \* history: the jobs a cancel call answered "cancelled" for

vars == <<hash, given, queue, results, running, worker, caller, events, deaths,
          computed, flagged, answered>>

Statuses == Ends \cup {"queued", "running", "cancellation_requested"}
NoHash == [status |-> "none", cancelRequested |-> FALSE]
Idle == [at |-> "idle"]

Init ==
    /\ hash = [j \in Jobs |-> NoHash]
    /\ given = {}
    /\ queue = <<>>
    /\ results = {}
    /\ running = 0
    /\ worker = [w \in Workers |-> Idle]
    /\ caller = [c \in Callers |-> Idle]
    /\ events = {}
    /\ deaths = 0
    /\ computed = [j \in Jobs |-> 0]
    /\ flagged = {}
    /\ answered = {}

InQueue(j) == \E i \in DOMAIN queue : queue[i] = j
WithStatus(j, s) == [hash EXCEPT ![j].status = s]
WorkerTo(w, step) == worker' = [worker EXCEPT ![w] = step]
CallerTo(c, step) == caller' = [caller EXCEPT ![c] = step]
-----------------------------------------------------------------------------
(* submit: HSET the metadata, then LPUSH the id.                           *)

SubmitHash(c, j) ==
    /\ caller[c].at = "idle"
    /\ hash[j] = NoHash
    /\ hash' = WithStatus(j, "queued")
    /\ CallerTo(c, [at |-> "push", job |-> j])
    /\ UNCHANGED <<given, queue, results, running, worker, events, deaths, computed,
                   flagged, answered>>

SubmitPush(c) ==
    /\ caller[c].at = "push"
    /\ queue' = <<caller[c].job>> \o queue
    /\ given' = given \cup {caller[c].job}
    /\ CallerTo(c, Idle)
    /\ UNCHANGED <<hash, results, running, worker, events, deaths, computed,
                   flagged, answered>>

(* cancel: HGETALL the status, HSET the flag, then by that status LREM and *)
(* HSET "cancelled", HSET "cancellation_requested", or nothing.            *)
CancelRead(c, j) ==
    /\ caller[c].at = "idle"
    /\ j \in Cancellable
    /\ j \in given
    /\ CallerTo(c, [at |-> "flag", job |-> j, status |-> hash[j].status])
    /\ UNCHANGED <<given, hash, queue, results, running, worker, events, deaths,
                   computed, flagged, answered>>

AfterFlag(status) ==
    CASE status = "queued"  -> "remove"
      [] status = "running" -> "request"
      [] OTHER              -> "idle"

CancelFlag(c) ==
    LET j == caller[c].job
        next == AfterFlag(caller[c].status) IN
    /\ caller[c].at = "flag"
    /\ hash' = [hash EXCEPT ![j].cancelRequested = TRUE]
    /\ flagged' = IF InQueue(j) THEN flagged \cup {j} ELSE flagged
    /\ CallerTo(c, IF next = "idle" THEN Idle ELSE [at |-> next, job |-> j])
    /\ UNCHANGED <<given, queue, results, running, worker, events, deaths, computed,
                   answered>>

\* LREM of an id, which is on the list at most once (OneHolder)
Without(list, j) ==
    IF \E i \in DOMAIN list : list[i] = j
    THEN RemoveAt(list, CHOOSE i \in DOMAIN list : list[i] = j)
    ELSE list

\* mutant: DEL of the list instead of LREM
CancelRemove_All(c) ==
    /\ caller[c].at = "remove"
    /\ queue' = <<>>
    /\ CallerTo(c, [at |-> "settle", job |-> caller[c].job])
    /\ UNCHANGED <<given, hash, results, running, worker, events, deaths,
                   computed, flagged, answered>>

CancelRemove(c) ==
    /\ caller[c].at = "remove"
    /\ queue' = Without(queue, caller[c].job)
    /\ CallerTo(c, [at |-> "settle", job |-> caller[c].job])
    /\ UNCHANGED <<given, hash, results, running, worker, events, deaths, computed,
                   flagged, answered>>

CancelSettle(c) ==
    /\ caller[c].at = "settle"
    /\ hash' = WithStatus(caller[c].job, "cancelled")
    /\ answered' = answered \cup {caller[c].job}
    /\ CallerTo(c, Idle)
    /\ UNCHANGED <<given, queue, results, running, worker, events, deaths, computed,
                   flagged>>

CancelRequest(c) ==
    /\ caller[c].at = "request"
    /\ hash' = WithStatus(caller[c].job, "cancellation_requested")
    /\ CallerTo(c, Idle)
    /\ UNCHANGED <<given, queue, results, running, worker, events, deaths, computed,
                   flagged, answered>>

(* get: HGETALL the hash, then GET the result.                             *)
GetHash(c, j) ==
    /\ caller[c].at = "idle"
    /\ j \in given
    /\ CallerTo(c, [at |-> "get", job |-> j, status |-> hash[j].status])
    /\ UNCHANGED <<given, hash, queue, results, running, worker, events, deaths,
                   computed, flagged, answered>>

GetResult(c) ==
    /\ caller[c].at = "get"
    /\ CallerTo(c, [at |-> "got", job |-> caller[c].job,
                    status |-> caller[c].status,
                    analysis |-> caller[c].job \in results])
    /\ UNCHANGED <<given, hash, queue, results, running, worker, events, deaths,
                   computed, flagged, answered>>

GetDone(c) ==
    /\ caller[c].at = "got"
    /\ CallerTo(c, Idle)
    /\ UNCHANGED <<given, hash, queue, results, running, worker, events, deaths,
                   computed, flagged, answered>>
-----------------------------------------------------------------------------
(* claim_next: RPOP an id, HGETALL its hash, then either settle a job that *)
(* was cancelled meanwhile or HSET "running" and INCR the counter.         *)

\* mutant: LINDEX instead of RPOP
Pop_Peek(w) ==
    /\ worker[w].at = "idle"
    /\ queue # <<>>
    /\ WorkerTo(w, [at |-> "popped", job |-> Last(queue)])
    /\ UNCHANGED <<given, queue, hash, results, running, caller, events,
                   deaths, computed, flagged, answered>>

Pop(w) ==
    /\ worker[w].at = "idle"
    /\ queue # <<>>
    /\ WorkerTo(w, [at |-> "popped", job |-> Last(queue)])
    /\ queue' = Front(queue)
    /\ UNCHANGED <<given, hash, results, running, caller, events, deaths, computed,
                   flagged, answered>>

ClaimRead(w) ==
    LET j == worker[w].job IN
    /\ worker[w].at = "popped"
    /\ WorkerTo(w, [at |-> IF hash[j].cancelRequested THEN "drop" ELSE "mark",
                    job |-> j])
    /\ UNCHANGED <<given, hash, queue, results, running, caller, events, deaths,
                   computed, flagged, answered>>

ClaimDrop(w) ==
    /\ worker[w].at = "drop"
    /\ hash' = WithStatus(worker[w].job, "cancelled")
    /\ WorkerTo(w, Idle)
    /\ UNCHANGED <<given, queue, results, running, caller, events, deaths, computed,
                   flagged, answered>>

ClaimMark(w) ==
    /\ worker[w].at = "mark"
    /\ hash' = WithStatus(worker[w].job, "running")
    /\ WorkerTo(w, [at |-> IF CountsRunning THEN "count" ELSE "start",
                    job |-> worker[w].job])
    /\ UNCHANGED <<given, queue, results, running, caller, events, deaths, computed,
                   flagged, answered>>

ClaimCount(w) ==
    /\ worker[w].at = "count"
    /\ running' = running + 1
    /\ WorkerTo(w, [at |-> "start", job |-> worker[w].job])
    /\ UNCHANGED <<given, hash, queue, results, caller, events, deaths, computed,
                   flagged, answered>>

(* _execute: the computation runs beside a thread that polls the flag.     *)
Start(w) ==
    /\ worker[w].at = "start"
    /\ computed' = [computed EXCEPT ![worker[w].job] = @ + 1]
    /\ WorkerTo(w, [at |-> "computing", job |-> worker[w].job])
    /\ UNCHANGED <<given, hash, queue, results, running, caller, events, deaths,
                   flagged, answered>>

Poll(w) ==
    LET j == worker[w].job IN
    /\ worker[w].at = "computing"
    /\ hash[j].cancelRequested
    /\ j \notin events
    /\ events' = events \cup {j}
    /\ UNCHANGED <<given, hash, queue, results, running, worker, caller, deaths,
                   computed, flagged, answered>>

Outcome(w, status) ==
    /\ worker[w].at = "computing"
    /\ status = "cancelled" => worker[w].job \in events
    /\ WorkerTo(w, [at |-> "finish", job |-> worker[w].job, status |-> status])
    /\ UNCHANGED <<given, hash, queue, results, running, caller, events, deaths,
                   computed, flagged, answered>>

(* finish: HSET the status, SET the result if there is one, DECR.          *)

AfterStatus(status) ==
    IF status = "completed" THEN "result"
    ELSE IF CountsRunning THEN "uncount" ELSE "idle"

FinishStatus(w) ==
    LET next == AfterStatus(worker[w].status) IN
    /\ worker[w].at = "finish"
    /\ hash' = WithStatus(worker[w].job, worker[w].status)
    /\ WorkerTo(w, IF next = "idle" THEN Idle
                   ELSE [at |-> next, job |-> worker[w].job])
    /\ UNCHANGED <<given, queue, results, running, caller, events, deaths, computed,
                   flagged, answered>>

FinishResult(w) ==
    /\ worker[w].at = "result"
    /\ results' = results \cup {worker[w].job}
    /\ WorkerTo(w, IF CountsRunning
                   THEN [at |-> "uncount", job |-> worker[w].job] ELSE Idle)
    /\ UNCHANGED <<given, hash, queue, running, caller, events, deaths, computed,
                   flagged, answered>>

FinishCount(w) ==
    /\ worker[w].at = "uncount"
    /\ running' = running - 1
    /\ WorkerTo(w, Idle)
    /\ UNCHANGED <<given, hash, queue, results, caller, events, deaths, computed,
                   flagged, answered>>
-----------------------------------------------------------------------------
(* A process dies between two commands; nothing in the code takes its job  *)
(* over.  A worker process that comes back starts idle.                    *)

WorkerDies(w) ==
    /\ worker[w].at # "idle"
    /\ deaths < MaxDeaths
    /\ deaths' = deaths + 1
    /\ WorkerTo(w, Idle)
    /\ UNCHANGED <<given, hash, queue, results, running, caller, events, computed,
                   flagged, answered>>

CallerDies(c) ==
    /\ caller[c].at # "idle"
    /\ deaths < MaxDeaths
    /\ deaths' = deaths + 1
    /\ CallerTo(c, Idle)
    /\ UNCHANGED <<given, hash, queue, results, running, worker, events, computed,
                   flagged, answered>>

CallerStep(c) ==
    \/ SubmitPush(c)
    \/ CancelFlag(c)
    \/ CancelRemove(c)
    \/ CancelSettle(c)
    \/ CancelRequest(c)
    \/ GetResult(c)
    \/ GetDone(c)

Claim(w) == Pop(w) \/ ClaimRead(w) \/ ClaimDrop(w) \/ ClaimMark(w) \/ ClaimCount(w)
Finish(w) == FinishStatus(w) \/ FinishResult(w) \/ FinishCount(w)
Compute(w) == Start(w) \/ Poll(w) \/ \E s \in Ends : Outcome(w, s)

Next ==
    \/ \E c \in Callers, j \in Jobs :
          SubmitHash(c, j) \/ CancelRead(c, j) \/ GetHash(c, j)
    \/ \E c \in Callers : CallerStep(c) \/ CallerDies(c)
    \/ \E w \in Workers : Claim(w) \/ Compute(w) \/ Finish(w) \/ WorkerDies(w)

Spec == Init /\ [][Next]_vars

(* Every started method runs on, workers loop in run_forever, and a        *)
(* computation ends: timeout_seconds bounds it.                            *)
Progress ==
    /\ \A c \in Callers : WF_vars(CallerStep(c))
    /\ \A w \in Workers :
          /\ WF_vars(Claim(w))
          /\ WF_vars(Start(w) \/ \E s \in Ends : Outcome(w, s))
          /\ WF_vars(Finish(w))

FairSpec == Spec /\ Progress
-----------------------------------------------------------------------------
Counted == {"start", "computing", "finish", "result", "uncount"}

TypeOK ==
    /\ \A j \in Jobs : hash[j] = NoHash \/ /\ hash[j].status \in Statuses
                                           /\ hash[j].cancelRequested \in BOOLEAN
    /\ given \subseteq Jobs
    /\ queue \in Seq(Jobs)
    /\ results \subseteq Jobs
    /\ running \in Int
    /\ \A w \in Workers : worker[w].at # "idle" => worker[w].job \in Jobs
    /\ \A c \in Callers : caller[c].at # "idle" => caller[c].job \in Jobs
    /\ events \subseteq Jobs
    /\ deaths \in 0..MaxDeaths
    /\ computed \in [Jobs -> Nat]
    /\ flagged \subseteq Jobs /\ answered \subseteq Jobs

\* One holder: a job is on the queue at most once, and no worker holds a job
\* that is on the queue or in another worker's hands, whoever dies.
OneHolder ==
    /\ IsInjective(queue)
    /\ \A w \in Workers : worker[w].at # "idle" =>
          /\ ~InQueue(worker[w].job)
          /\ \A x \in Workers \ {w} : worker[x].at # "idle" =>
                worker[x].job # worker[w].job

\* At most once: no job is computed twice, though cancel, claim and finish all
\* write its status without comparing it first.
ComputedOnce == \A j \in Jobs : computed[j] <= 1

\* A cancellation that reaches a job on the queue holds: such a job is never
\* computed, whether LREM takes it off the queue or a worker pops it first.
FlaggedNeverRuns == \A j \in flagged : computed[j] = 0

\* No job is lost between the list and the hash: one that still says "queued"
\* is on the list or in the hands of a process about to write it, unless that
\* process died.
NotLost ==
    deaths = 0 => \A j \in Jobs : hash[j].status = "queued" =>
        \/ InQueue(j)
        \/ \E c \in Callers : caller[c].at \in {"push", "settle"} /\ caller[c].job = j
        \/ \E w \in Workers : worker[w].at \in {"popped", "drop", "mark"}
                              /\ worker[w].job = j

\* The counter of running jobs is what workers hold, off by at most one for
\* every process that died; without deaths it is exact.
RunningCounts ==
    LET held == Cardinality({w \in Workers : worker[w].at \in Counted}) IN
    IF CountsRunning
    THEN held <= running /\ running <= held + deaths
    ELSE running = 0

\* The queue keeps its jobs: at every interleaving of callers and workers, one
\* holder, one computation, no computation of what was cancelled in time, no
\* loss without a death, and a counter that is right up to the deaths.
QueueSafe == TypeOK /\ OneHolder /\ ComputedOnce /\ FlaggedNeverRuns /\ NotLost /\ RunningCounts

\* A job nobody asks to cancel is done for good in the end once it has been
\* pushed, if no process dies.
Settled(j) == hash[j].status \in Ends \/ hash[j].cancelRequested \/ deaths > 0

UncancelledSettles == \A j \in Jobs : InQueue(j) ~> []Settled(j)

\* The lifecycle of the module's docstring: every job reaches a
\* status of Ends and stays there.
Settles ==
    \A j \in Jobs : InQueue(j) ~> [](hash[j].status \in Ends \/ deaths > 0)

\* "Nothing will run it": after cancel answered "cancelled" no worker starts the
\* job.
CancelledNeverStarts ==
    [][\A j \in answered : computed'[j] = computed[j]]_vars

\* A completed job has its result: what get answers with status "completed"
\* carries an analysis.
CompletedHasResult ==
    \A c \in Callers :
        caller[c].at = "got" /\ caller[c].status = "completed" => caller[c].analysis
=============================================================================
