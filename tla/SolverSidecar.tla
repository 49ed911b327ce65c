---------------------------- MODULE SolverSidecar ----------------------------
(***************************************************************************)
(* One solve: solve_with_cache over the SQLite cache (solver/cache.py) and *)
(* the client that runs the sidecar process (solver/client.py), called by  *)
(* workers with a cancel event (solver/worker.py) and by the presolver     *)
(* without one (solver/presolver.py).  The process, the thread watching    *)
(* it, the poller that sets the event and the caller interleave.           *)
(***************************************************************************)
EXTENDS Naturals, FiniteSets

CONSTANTS
    Spots,          \* the solver inputs, by solve_hash
    Workers,        \* callers with a cancel event
    PreSolvers,     \* callers without one
    MaxCalls        \* bound on the solves each caller makes

\* What an instance assumes of its constants.
SidecarAssumption == MaxCalls \in Nat /\ Workers \cap PreSolvers = {}

Callers == Workers \cup PreSolvers

VARIABLES
    cached,    \* the rows of solve_cache
    call,      \* a caller's solve: where it is, its spot, and what ended it
    proc,      \* its sidecar process: none, running, ok, failed or killed
    event,     \* the callers whose cancel event is set
    calls,     \* how many solves each caller has started
    solved     \* history: how often the sidecar solved a spot

sidecarVars == <<cached, call, proc, event, calls, solved>>

NoCall == [at |-> "idle"]
Outcomes == {"solved", "failed", "cancelled"}
Ended == {"ok", "failed", "killed"}

SidecarInit ==
    /\ cached = {}
    /\ call = [c \in Callers |-> NoCall]
    /\ proc = [c \in Callers |-> "none"]
    /\ event = {}
    /\ calls = [c \in Callers |-> 0]
    /\ solved = [s \in Spots |-> 0]

At(c, where) == call[c].at = where
Goes(c, where) == call' = [call EXCEPT ![c].at = where]
Returns(c, outcome) ==
    call' = [call EXCEPT ![c] = [at |-> "done", spot |-> call[c].spot,
                                 outcome |-> outcome]]
-----------------------------------------------------------------------------
(* A fresh event per job; then cache.get.                                  *)

Begin(c, s) ==
    /\ call[c].at \in {"idle", "done"}
    /\ calls[c] < MaxCalls
    /\ calls' = [calls EXCEPT ![c] = @ + 1]
    /\ call' = [call EXCEPT ![c] = [at |-> "get", spot |-> s]]
    /\ proc' = [proc EXCEPT ![c] = "none"]
    /\ event' = event \ {c}
    /\ UNCHANGED <<cached, solved>>

Hit(c) ==
    /\ At(c, "get")
    /\ call[c].spot \in cached
    /\ Returns(c, "solved")
    /\ UNCHANGED <<cached, proc, event, calls, solved>>

Miss(c) ==
    /\ At(c, "get")
    /\ call[c].spot \notin cached
    /\ proc' = [proc EXCEPT ![c] = "running"]
    /\ Goes(c, "wait")
    /\ UNCHANGED <<cached, event, calls, solved>>

(* The poller of the worker sees the job's flag, at any time until the job *)
(* is finished.                                                            *)
Cancel(c) ==
    /\ c \in Workers
    /\ call[c].at \notin {"idle", "done"}
    /\ event' = event \cup {c}
    /\ UNCHANGED <<cached, call, proc, calls, solved>>

(* The process ends by itself, is killed by the watcher once the event is  *)
(* set, or by the caller when its timeout passes.                          *)
Exits(c, code) ==
    /\ proc[c] = "running"
    /\ proc' = [proc EXCEPT ![c] = code]
    /\ solved' = IF code = "ok"
                 THEN [solved EXCEPT ![call[c].spot] = @ + 1] ELSE solved
    /\ UNCHANGED <<cached, call, event, calls>>

WatcherKills(c) ==
    /\ proc[c] = "running"
    /\ c \in event
    /\ proc' = [proc EXCEPT ![c] = "killed"]
    /\ UNCHANGED <<cached, call, event, calls, solved>>

\* mutant: the call gives up on the process instead of killing it
TimesOut_Abandons(c) ==
    /\ At(c, "wait")
    /\ proc[c] = "running"
    /\ Returns(c, "failed")
    /\ UNCHANGED <<cached, proc, event, calls, solved>>

TimesOut(c) ==
    /\ At(c, "wait")
    /\ proc[c] = "running"
    /\ proc' = [proc EXCEPT ![c] = "killed"]
    /\ UNCHANGED <<cached, call, event, calls, solved>>

(* _run_docker after communicate returned: a set event wins over any exit  *)
(* code; without an event the output is not returned at all, and parsing   *)
(* None raises.                                                            *)
Collected(c) == IF c \in event THEN "cancelled"
                ELSE IF proc[c] # "ok" THEN "failed"
                ELSE IF c \in PreSolvers THEN "failed"
                ELSE "put"

Collect(c) ==
    /\ At(c, "wait")
    /\ proc[c] \in Ended
    /\ IF Collected(c) = "put" THEN Goes(c, "put") ELSE Returns(c, Collected(c))
    /\ UNCHANGED <<cached, proc, event, calls, solved>>

Put(c) ==
    /\ At(c, "put")
    /\ cached' = cached \cup {call[c].spot}
    /\ Returns(c, "solved")
    /\ UNCHANGED <<proc, event, calls, solved>>

CallerStep(c) == Hit(c) \/ Miss(c) \/ Collect(c) \/ Put(c)
ProcessStep(c) ==
    (\E code \in {"ok", "failed"} : Exits(c, code)) \/ WatcherKills(c) \/ TimesOut(c)

SidecarNext == \E c \in Callers :
    \/ \E s \in Spots : Begin(c, s)
    \/ Cancel(c)
    \/ ProcessStep(c)
    \/ CallerStep(c)

SidecarSpec == SidecarInit /\ [][SidecarNext]_sidecarVars

(* A started call runs on, and its process does not outlive its timeout.   *)
SidecarProgress == \A c \in Callers : WF_sidecarVars(CallerStep(c)) /\ WF_sidecarVars(ProcessStep(c))

SidecarFairSpec == SidecarSpec /\ SidecarProgress
-----------------------------------------------------------------------------
CallsTyped ==
    /\ cached \subseteq Spots
    /\ \A c \in Callers :
          \/ call[c] = NoCall
          \/ /\ call[c].spot \in Spots
             /\ call[c].at \in {"get", "wait", "put"}
                \/ (call[c].at = "done" /\ call[c].outcome \in Outcomes)
    /\ proc \in [Callers -> Ended \cup {"none", "running"}]
    /\ event \subseteq Workers
    /\ calls \in [Callers -> 0..MaxCalls]
    /\ solved \in [Spots -> Nat]

\* What the cache holds the sidecar solved: a killed, timed-out or failed
\* process leaves no row, nor does one cancelled before its output was read.
CacheIsSolved ==
    /\ \A s \in cached : solved[s] > 0
    /\ \A c \in Callers : call[c].at = "put" => proc[c] = "ok"

\* An answer follows what happened: "solved" only for a cached spot,
\* "cancelled" only after a cancellation, and no process outlives its call.
AnswersFollow ==
    \A c \in Callers : At(c, "done") =>
        /\ call[c].outcome = "solved" => call[c].spot \in cached
        /\ call[c].outcome = "cancelled" => c \in event
        /\ proc[c] # "running"

\* The cache and the answers tell what the sidecar did.
SidecarSafe == CallsTyped /\ CacheIsSolved /\ AnswersFollow

\* Every solve returns, and a worker's is cancelled only by its own event.
CallsReturn == \A c \in Callers : call[c].at = "get" ~> At(c, "done")

\* "Deterministic spots are solved at most once."
SolvedAtMostOnce == \A s \in Spots : solved[s] <= 1

\* "Pre-solving populates the cache": a pre-solve whose sidecar succeeded has
\* its spot in the cache when it returns.
PreSolvePopulates ==
    \A c \in PreSolvers : At(c, "done") /\ proc[c] = "ok" => call[c].spot \in cached
=============================================================================
