---------------------------- MODULE InProcessJobs ----------------------------
(***************************************************************************)
(* The in-process job backend (jobs/backends.py) behind the API's          *)
(* /v1/analysis/jobs.  Endpoints are coroutines that never suspend between *)
(* the calls modelled here, so the event loop runs one of them at a time;  *)
(* the jobs run on pool threads that share the dictionary with it, without *)
(* a lock: each read or write of an entry is a step of its own.            *)
(***************************************************************************)
EXTENDS Integers, Sequences, FiniteSets, SequencesExt

CONSTANTS
    Jobs,      \* the ids uuid4 hands out
    Threads,   \* ThreadPoolExecutor(max_workers=2)
    MaxJobs    \* the endpoint's bound on active jobs (64)

\* What an instance assumes of its constants.
InProcessAssumption == MaxJobs \in Nat /\ IsFiniteSet(Jobs)

VARIABLES
    job,      \* the entries of _jobs; Gone before submit and after a pop
    used,     \* the ids handed out
    pending,  \* the executor's queue
    thread,   \* where a pool thread is in run_job
    loop,     \* where the event loop is in get or cancel
    events    \* the jobs whose cancel_event is set

vars == <<job, used, pending, thread, loop, events>>

Done == {"completed", "failed", "cancelled", "timeout"}
Statuses == Done \cup {"queued", "running", "cancellation_requested"}
Gone == [status |-> "gone", result |-> FALSE]
Idle == [at |-> "idle"]

Init ==
    /\ job = [j \in Jobs |-> Gone]
    /\ used = {}
    /\ pending = <<>>
    /\ thread = [t \in Threads |-> Idle]
    /\ loop = Idle
    /\ events = {}

Stored == {j \in Jobs : job[j] # Gone}
-----------------------------------------------------------------------------
(* submit_analysis_job: active_count drops the jobs that are done, then    *)
(* counts what is left; submit stores the entry and queues run_job.        *)

Stale_Cancelling == {j \in Jobs : job[j].status \in Done \cup {"cancellation_requested"}} \* mutant: drops what is being cancelled
Stale == {j \in Jobs : job[j].status \in Done}
Kept == [j \in Jobs |-> IF j \in Stale THEN Gone ELSE job[j]]
ActiveCount == Cardinality(Stored \ Stale)

Submit(j) ==
    /\ loop.at = "idle"
    /\ j \notin used
    /\ ActiveCount < MaxJobs
    /\ job' = [Kept EXCEPT ![j] = [status |-> "queued", result |-> FALSE]]
    /\ used' = used \cup {j}
    /\ pending' = Append(pending, j)
    /\ UNCHANGED <<thread, loop, events>>

QueueFull ==
    /\ loop.at = "idle"
    /\ ActiveCount >= MaxJobs
    /\ job' = Kept
    /\ UNCHANGED <<used, pending, thread, loop, events>>

(* cancel: compare the status, set the event, write the status.            *)
CancelRead(j) ==
    /\ loop.at = "idle"
    /\ job[j].status \in {"queued", "running"}
    /\ loop' = [at |-> "event", job |-> j]
    /\ UNCHANGED <<job, used, pending, thread, events>>

CancelEvent ==
    /\ loop.at = "event"
    /\ events' = events \cup {loop.job}
    /\ loop' = [at |-> "write", job |-> loop.job]
    /\ UNCHANGED <<job, used, pending, thread>>

CancelWrite ==
    /\ loop.at = "write"
    /\ job' = [job EXCEPT ![loop.job].status = "cancellation_requested"]
    /\ loop' = Idle
    /\ UNCHANGED <<used, pending, thread, events>>

(* get: the result first, the status after it.                             *)
GetResult(j) ==
    /\ loop.at = "idle"
    /\ j \in Stored
    /\ loop' = [at |-> "get", job |-> j, analysis |-> job[j].result]
    /\ UNCHANGED <<job, used, pending, thread, events>>

GetStatus ==
    /\ loop.at = "get"
    /\ loop' = [at |-> "got", status |-> job[loop.job].status,
                analysis |-> loop.analysis]
    /\ UNCHANGED <<job, used, pending, thread, events>>

GetDone ==
    /\ loop.at = "got"
    /\ loop' = Idle
    /\ UNCHANGED <<job, used, pending, thread, events>>
-----------------------------------------------------------------------------
(* run_job.                                                                *)

Start(t) ==
    /\ thread[t].at = "idle"
    /\ pending # <<>>
    /\ job' = [job EXCEPT ![Head(pending)].status = "running"]
    /\ thread' = [thread EXCEPT ![t] = [at |-> "computing", job |-> Head(pending)]]
    /\ pending' = Tail(pending)
    /\ UNCHANGED <<used, loop, events>>

(* A finished computation stores its result before its status; one that    *)
(* raises stores its error and then the status.  The computation looks at  *)
(* the event between trials: it may also end without having seen it.       *)
Completes(t) ==
    /\ thread[t].at = "computing"
    /\ job' = [job EXCEPT ![thread[t].job].result = TRUE]
    /\ thread' = [thread EXCEPT ![t] =
          [at |-> "status", job |-> thread[t].job, status |-> "completed"]]
    /\ UNCHANGED <<used, pending, loop, events>>

Raises(t, status) ==
    /\ thread[t].at = "computing"
    /\ status = "cancelled" => thread[t].job \in events
    /\ thread' = [thread EXCEPT ![t] =
          [at |-> "status", job |-> thread[t].job, status |-> status]]
    /\ UNCHANGED <<job, used, pending, loop, events>>

WriteStatus(t) ==
    /\ thread[t].at = "status"
    /\ job' = [job EXCEPT ![thread[t].job].status = thread[t].status]
    /\ thread' = [thread EXCEPT ![t] = Idle]
    /\ UNCHANGED <<used, pending, loop, events>>

Work(t) ==
    \/ Start(t)
    \/ Completes(t)
    \/ \E s \in Done \ {"completed"} : Raises(t, s)
    \/ WriteStatus(t)

LoopStep == CancelEvent \/ CancelWrite \/ GetStatus \/ GetDone

Next ==
    \/ \E j \in Jobs : Submit(j) \/ CancelRead(j) \/ GetResult(j)
    \/ QueueFull
    \/ LoopStep
    \/ \E t \in Threads : Work(t)

Spec == Init /\ [][Next]_vars

(* Pool threads run whatever is queued; a computation ends, by its         *)
(* timeout_seconds at the latest; a started coroutine runs on.             *)
Progress == WF_vars(LoopStep) /\ \A t \in Threads : WF_vars(Work(t))

FairSpec == Spec /\ Progress
-----------------------------------------------------------------------------
TypeOK ==
    /\ \A j \in Jobs : job[j] = Gone \/ job[j].status \in Statuses
    /\ \A j \in Jobs : job[j].result \in BOOLEAN
    /\ used \subseteq Jobs
    /\ pending \in Seq(Jobs)
    /\ events \subseteq Jobs
    /\ \A t \in Threads : thread[t] = Idle \/ thread[t].job \in Jobs

Held(j) == \/ \E i \in DOMAIN pending : pending[i] = j
           \/ \E t \in Threads : thread[t] # Idle /\ thread[t].job = j

\* A job is dropped only when its thread is through with it: whatever cancel
\* wrote over the status meanwhile, run_job finds its entry, and no late write
\* of a thread brings a dropped entry back.
DroppedIsFinished == \A j \in Jobs : Held(j) => j \in Stored

\* The entries that are not done, on which the endpoint answers 429, and with
\* them the executor's queue, never exceed the bound.
CapacityHolds ==
    /\ Cardinality(Stored \ Stale) <= MaxJobs
    /\ Len(pending) <= MaxJobs

\* One thread per job, each once: a job handed to a thread is off the queue.
RunOnce ==
    /\ IsInjective(pending)
    /\ \A t, u \in Threads : t # u /\ thread[t] # Idle /\ thread[u] # Idle
          => thread[t].job # thread[u].job
    /\ \A t \in Threads, i \in DOMAIN pending :
          thread[t] # Idle => thread[t].job # pending[i]

\* The dictionary, the executor's queue and the threads agree, though they share
\* no lock: each job runs once, on an entry that is there, within the bound.
InProcessSafe == TypeOK /\ DroppedIsFinished /\ CapacityHolds /\ RunOnce

\* A job that nobody cancels ends, and stays ended or is dropped.
UncancelledEnds ==
    \A j \in Jobs : Held(j) ~>
        [](job[j].status \in Done \cup {"gone"} \/ j \in events)

\* A job that was cancelled reads cancelled, completed or another final status
\* in the end.
CancelEnds ==
    \A j \in Jobs : Held(j) ~> [](job[j].status \in Done \cup {"gone"})

\* A poll that answers "completed" carries the analysis.
CompletedHasResult ==
    loop.at = "got" /\ loop.status = "completed" => loop.analysis
=============================================================================
