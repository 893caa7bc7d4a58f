---------------------------- MODULE JobLifecycle ----------------------------
(***************************************************************************)
(* What the job queue promises about one job, whatever driver keeps it     *)
(* (the QueueDriver interface of system/core/queue.ts and the retry rules  *)
(* of docs/user-guide/queue.md): a submitted job waits, is run by one      *)
(* worker at a time, is run again after a failure at most MaxRetries       *)
(* times, and ends either done or in the failed queue.  Nothing but        *)
(* flushFailed() and configure() makes a job disappear.                    *)
(***************************************************************************)
EXTENDS Naturals

CONSTANTS
    Jobs,        \* job ids
    MaxRetries   \* payload.maxRetries, the same for every job

VARIABLES
    phase,       \* where each job is in its life
    runs         \* how many times each job was handed to a worker

lifecycleVars == <<phase, runs>>

Phases == {"absent", "waiting", "running", "done", "failed", "discarded"}

LifecycleTypeOK ==
    /\ phase \in [Jobs -> Phases]
    /\ runs \in [Jobs -> Nat]

LifecycleInit ==
    /\ phase = [j \in Jobs |-> "absent"]
    /\ runs = [j \in Jobs |-> 0]

Move(j, from, to) ==
    /\ phase[j] = from
    /\ phase' = [phase EXCEPT ![j] = to]

Submit(j) == Move(j, "absent", "waiting") /\ UNCHANGED runs

Start(j) ==
    /\ Move(j, "waiting", "running")
    /\ runs' = [runs EXCEPT ![j] = @ + 1]

Succeed(j) == Move(j, "running", "done") /\ UNCHANGED runs

Retry(j) ==
    /\ runs[j] <= MaxRetries
    /\ Move(j, "running", "waiting")
    /\ UNCHANGED runs

GiveUp(j) ==
    /\ runs[j] = MaxRetries + 1
    /\ Move(j, "running", "failed")
    /\ UNCHANGED runs

\* flushFailed() discards every failed job; configure() also every waiting one.
DiscardAll(from) ==
    /\ phase' = [j \in Jobs |-> IF phase[j] \in from THEN "discarded" ELSE phase[j]]
    /\ UNCHANGED runs

LifecycleNext ==
    \/ \E j \in Jobs :
          Submit(j) \/ Start(j) \/ Succeed(j) \/ Retry(j) \/ GiveUp(j)
    \/ DiscardAll({"failed"})
    \/ DiscardAll({"failed", "waiting"})

LifecycleSpec == LifecycleInit /\ [][LifecycleNext]_lifecycleVars
=============================================================================
