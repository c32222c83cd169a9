------------------------------ MODULE JobPool ------------------------------
(***************************************************************************)
(* What the reliable queue promises (src/services/distributed_queue.py):   *)
(* at-least-once execution, by one worker at a time.  A job that was       *)
(* submitted waits, or is held by one worker, until the worker that ran it *)
(* to its end settles it; a settled job is never delivered again.          *)
(*                                                                         *)
(* No lists, no heartbeats, no recovery: ReliableQueue implements this.    *)
(***************************************************************************)
CONSTANTS Jobs, Workers, None

VARIABLES
  submitted,  \* the jobs the web process has enqueued
  waiting,    \* the jobs that may be delivered to a worker
  held,       \* the job each worker holds
  completed   \* the jobs process_job has returned from

poolVars == <<submitted, waiting, held, completed>>

PoolInit ==
  /\ submitted = {}
  /\ waiting = {}
  /\ held = [w \in Workers |-> None]
  /\ completed = {}

Submit(j) ==
  /\ j \notin submitted
  /\ submitted' = submitted \cup {j}
  /\ waiting' = waiting \cup {j}
  /\ UNCHANGED <<held, completed>>

\* reserve
Deliver(w, j) ==
  /\ held[w] = None
  /\ j \in waiting
  /\ held' = [held EXCEPT ![w] = j]
  /\ waiting' = waiting \ {j}
  /\ UNCHANGED <<submitted, completed>>

Complete(w) ==
  /\ held[w] # None
  /\ completed' = completed \cup {held[w]}
  /\ UNCHANGED <<submitted, waiting, held>>

\* acknowledge: only what has run to its end leaves the pool.
Settle(w) ==
  /\ held[w] \in completed
  /\ held' = [held EXCEPT ![w] = None]
  /\ UNCHANGED <<submitted, waiting, completed>>

\* requeue, or the death of the worker.
Return(w) ==
  /\ held[w] # None
  /\ waiting' = waiting \cup {held[w]}
  /\ held' = [held EXCEPT ![w] = None]
  /\ UNCHANGED <<submitted, completed>>

PoolNext ==
  \/ \E j \in Jobs : Submit(j) \/ \E w \in Workers : Deliver(w, j)
  \/ \E w \in Workers : Complete(w) \/ Settle(w) \/ Return(w)

PoolSpec == PoolInit /\ [][PoolNext]_poolVars
=============================================================================
