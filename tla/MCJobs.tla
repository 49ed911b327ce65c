------------------------------- MODULE MCJobs -------------------------------
(***************************************************************************)
(* The ways a long computation runs: the Redis queue of analyses, the      *)
(* queue of solver jobs, the in-process backend and the solver's sidecar.  *)
(* They share nothing, so a behaviour is one of a single part, and the     *)
(* other parts stay in their initial states.                               *)
(***************************************************************************)
EXTENDS InProcessJobs, SolverSidecar

\* the jobs and workers of the queues, and their callers; two jobs, threads and
\* places for the in-process backend; two workers and a presolver of one spot,
\* which is asked for before, while and after another caller solves it
CONSTANTS j1, j2, w1, w2, c1, c2

VARIABLES part,
    hash, given, queue, results, running, worker, caller, cancels, deaths,
    computed, flagged, answered      \* the queues

\* two callers and two workers on one job that may be cancelled
Analyses == INSTANCE JobQueue WITH
    Jobs <- {j1}, Workers <- {w1, w2}, Callers <- {c1, c2}, CountsRunning <- TRUE,
    Ends <- {"completed", "failed", "timeout", "cancelled"},
    Cancellable <- {j1}, events <- cancels, MaxDeaths <- 0
\* the same with one caller, when one of the three dies
WithDeath == INSTANCE JobQueue WITH
    Jobs <- {j1}, Workers <- {w1, w2}, Callers <- {c1}, CountsRunning <- TRUE,
    Ends <- {"completed", "failed", "timeout", "cancelled"},
    Cancellable <- {j1}, events <- cancels, MaxDeaths <- 1
\* two jobs, one of which may be cancelled
SolverJobs == INSTANCE JobQueue WITH
    Jobs <- {j1, j2}, Workers <- {w1, w2}, Callers <- {c1}, CountsRunning <- FALSE,
    Ends <- {"completed", "failed", "cancelled"},
    Cancellable <- {j1}, events <- cancels, MaxDeaths <- 0
\* the in-process backend with a place for one of its two jobs: the endpoint
\* refuses the other until the first is done
OnePlace == INSTANCE InProcessJobs WITH MaxJobs <- 1

ASSUME JobsAssumption ==
    /\ Analyses!QueueAssumption /\ WithDeath!QueueAssumption /\ SolverJobs!QueueAssumption
    /\ InProcessAssumption /\ OnePlace!InProcessAssumption /\ SidecarAssumption

SuiteInit ==
    /\ \/ part \in {"analyses", "in process", "one place", "sidecar"} /\ Analyses!Init
       \/ part = "with death" /\ WithDeath!Init
       \/ part = "solver jobs" /\ SolverJobs!Init
    /\ Init /\ SidecarInit

queueVars == <<hash, given, queue, results, running, worker, caller, cancels, deaths,
               computed, flagged, answered>>
suiteVars == <<part, queueVars, vars, sidecarVars>>

SuiteNext ==
    /\ \/ part = "analyses" /\ Analyses!Next /\ UNCHANGED <<vars, sidecarVars>>
       \/ part = "with death" /\ WithDeath!Next /\ UNCHANGED <<vars, sidecarVars>>
       \/ part = "solver jobs" /\ SolverJobs!Next /\ UNCHANGED <<vars, sidecarVars>>
       \/ part = "in process" /\ Next /\ UNCHANGED <<queueVars, sidecarVars>>
       \/ part = "one place" /\ OnePlace!Next /\ UNCHANGED <<queueVars, sidecarVars>>
       \/ part = "sidecar" /\ SidecarNext /\ UNCHANGED <<queueVars, vars>>
    /\ UNCHANGED part

\* nothing of an idle part is ever enabled, so its fairness asks for nothing
Fairness == SolverJobs!Progress /\ Progress /\ SidecarProgress

SuiteSpec == SuiteInit /\ [][SuiteNext]_suiteVars /\ Fairness
-----------------------------------------------------------------------------
\* Each queued job has one holder, is computed once and is not lost (JobQueue);
\* with one place in process, the second job waits until the first is done.
QueuesSafe ==
    /\ part = "analyses" => Analyses!QueueSafe
    /\ part = "with death" => WithDeath!QueueSafe
    /\ part = "solver jobs" => SolverJobs!QueueSafe
    /\ part = "one place" => OnePlace!InProcessSafe

\* InProcessSafe and SidecarSafe are InProcessJobs' and SolverSidecar's own, in every part.

\* What is started ends: a job nobody cancels settles on either backend, and
\* every solve returns.
WorkEnds ==
    /\ \A j \in {j1, j2} : part = "solver jobs" /\ SolverJobs!InQueue(j) ~>
                           [](part = "solver jobs" => SolverJobs!Settled(j))
    /\ UncancelledEnds
    /\ CallsReturn
=============================================================================
