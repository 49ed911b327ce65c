----------------------------- MODULE MCRecovery -----------------------------
(***************************************************************************)
(* What follows a durable hand event (simulator/recovery.py): the outbox's *)
(* dispatchers and the projections of a hand's events.  The parts differ   *)
(* in what goes wrong; a behaviour is one of a single part, and the other  *)
(* component stays in its initial state.                                   *)
(*                                                                         *)
(* The outbox has two events, the first of which has most of the intents;  *)
(* two calls run under one worker_id, so that only the token tells them    *)
(* apart.                                                                  *)
(***************************************************************************)
EXTENDS Outbox

VARIABLES part, events, cursor, counted, applied, reviewed, proc, rebuilds, died

MCWorkerOf == [d \in Dispatchers |-> "worker"]
MCSourceEvent == [m \in Messages |-> IF m = 3 THEN 2 ELSE 1]

\* "leases": the constants of the cfg, under which a call may outlive its
\* lease and the clocks differ.
\* A poison message, failures and a crash; a batch fits its lease.
Faults == INSTANCE Outbox WITH
    Lease <- 3, Skew <- 0, CallTime <- 1, Poison <- {1}, MaxFailures <- 1
\* Batches that outlive their lease.
LongBatch == INSTANCE Outbox WITH
    Limit <- 3, Skew <- 0, CallTime <- 1

\* Two processes project one hand once it is over.
OnCompletion == INSTANCE Projections WITH
    Hands <- {1}, Length <- 2, Procs <- {"p1", "p2"}, EarlyHands <- {},
    MaxRebuilds <- 1, MaxCrashes <- 1, log <- events, crashes <- died

projectionVars == <<events, cursor, counted, applied, reviewed, proc, rebuilds, died>>
suiteVars == <<part, vars, projectionVars>>

SuiteInit ==
    /\ part \in {"leases", "faults", "long batch", "projections"}
    /\ Init
    /\ OnCompletion!Init

SuiteNext ==
    /\ \/ /\ UNCHANGED projectionVars
          /\ \/ part = "leases" /\ Next
             \/ part = "faults" /\ Faults!Next
             \/ part = "long batch" /\ LongBatch!Next
       \/ part = "projections" /\ OnCompletion!Next /\ UNCHANGED vars
    /\ UNCHANGED part

\* FairSpec of Outbox, where every call ends in time, and of Projections
Fairness ==
    /\ WF_vars(part = "faults" /\ Faults!Tick)
    /\ WF_vars(part = "long batch" /\ LongBatch!Tick)
    /\ \A d \in Dispatchers :
          /\ WF_vars(part = "faults" /\ Faults!Walk(d))
          /\ WF_vars(part = "faults" /\ Faults!Claim(d, 0))
          /\ WF_vars(part = "long batch" /\ LongBatch!Walk(d))
          /\ WF_vars(part = "long batch" /\ LongBatch!Claim(d, 0))
    /\ WF_projectionVars(part = "projections" /\ OnCompletion!AppendEvent(1))
    /\ \A p \in {"p1", "p2"} :
          /\ WF_projectionVars(part = "projections" /\ OnCompletion!Step(p))
          /\ SF_projectionVars(part = "projections" /\ OnCompletion!StartStats(p, 1))
          /\ SF_projectionVars(part = "projections" /\ OnCompletion!StartReview(p, 1))

SuiteSpec == SuiteInit /\ [][SuiteNext]_suiteVars /\ Fairness
-----------------------------------------------------------------------------
\* Outbox: through crashes, failures, poison and overrun leases, every message
\* that can be dispatched is.
EveryMessageArrives ==
    /\ part = "faults" => Faults!EventuallyDispatched
    /\ part = "long batch" => LongBatch!EventuallyDispatched

\* Projections: a hand is counted, reviewed and consumed in the end.
ReadModelsCatchUp == part = "projections" => OnCompletion!ReadModelsCatchUp
=============================================================================
