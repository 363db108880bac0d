------------------------------ MODULE JobTable ------------------------------
(***************************************************************************)
(* What the worker pools promise the runtime about a job, whatever the      *)
(* queues, workers and locks do: an ID that is accepted is either run once  *)
(* or dropped, then forgotten, and not accepted again before that; and jobs *)
(* that conflict (overlapping scopes of one lock key) never run together.   *)
(* Pool implements it, and Jobs is built on it.                              *)
(***************************************************************************)
CONSTANTS
    Jobs,         \* job IDs
    Conflicts     \* the pairs of jobs that may not run together

VARIABLE phase    \* phase[j]: what the pools know of job j

TableInit == phase = [j \in Jobs |-> "idle"]

\* Submit takes an ID that is not known.
Accept(j) ==
    /\ phase[j] = "idle"
    /\ phase' = [phase EXCEPT ![j] = "queued"]

\* Submit's queue is full or closed.
Refuse(j) ==
    /\ phase[j] = "idle"
    /\ phase' = [phase EXCEPT ![j] = "leaving"]

\* A worker calls Run, with the job's lock.
Begin(j) ==
    /\ phase[j] = "queued"
    /\ \A k \in Jobs : phase[k] = "running" => <<j, k>> \notin Conflicts
    /\ phase' = [phase EXCEPT ![j] = "running"]

\* Run has returned and the lock is free.
End(j) ==
    /\ phase[j] = "running"
    /\ phase' = [phase EXCEPT ![j] = "leaving"]

\* Jobs that will not run: removed from the queue, or given up by a worker
\* whose pool was stopped.
Drop(dropped) ==
    /\ \A j \in dropped : phase[j] = "queued"
    /\ phase' = [j \in Jobs |-> IF j \in dropped THEN "leaving" ELSE phase[j]]

\* The ID may be submitted again.
Forget(j) ==
    /\ phase[j] = "leaving"
    /\ phase' = [phase EXCEPT ![j] = "idle"]

TableNext ==
    \/ \E j \in Jobs : Accept(j) \/ Refuse(j) \/ Begin(j) \/ End(j) \/ Forget(j)
    \/ Drop({j \in Jobs : phase[j] = "queued" /\ phase'[j] = "leaving"})

\* Every job is accepted, run or dropped, and forgotten in that order, and
\* conflicting jobs are never running at the same time.
TableSpec == TableInit /\ [][TableNext]_phase
=============================================================================
