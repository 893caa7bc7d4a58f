----------------------------- MODULE WorkerPool -----------------------------
(***************************************************************************)
(* Class WorkerPool of system/core/worker_pool.ts: the main thread keeps a *)
(* slot per worker thread and a queue of pending jobs; they exchange       *)
(* messages.  An action is one callback of the main thread or one step of  *)
(* a worker thread.                                                        *)
(*                                                                         *)
(* A slot lives on after restartWorker() or stop() has taken it out of the *)
(* map: its message handler and its job timers still refer to it.  A job   *)
(* is handed to one slot at most, so its timer matters only while it is    *)
(* the slot's currentJob.  Times are not modelled: any timer may fire.     *)
(***************************************************************************)
EXTENDS Naturals, SequencesExt

CONSTANTS
    Jobs,              \* ids of the jobs given to dispatch()
    NoJob,             \* currentJob === null
    Configs,           \* the pool's configurations, see Config
    MaxWorkers,        \* bound: worker threads ever created
    MaxStops,          \* bound: intervals of stop() that run at a time
    MaxErrors          \* bound: uncaught errors in worker threads

\* handlerScript: whether a script is set.  Inline workers are not replaced.
Config == [concurrency : Nat \ {0}, handlerScript : BOOLEAN, maxWorkerRestarts : Nat]

ASSUME PoolAssumption ==
    /\ NoJob \notin Jobs
    /\ Configs \subseteq Config
    /\ MaxWorkers \in Nat
    /\ MaxStops \in Nat
    /\ MaxErrors \in Nat

VARIABLES
    config,        \* WorkerPool.config
    started,       \* WorkerPool.started
    stopping,      \* calls of stop() that wait for the workers
    strays,        \* their intervals that went on after the 5 s were over
    workers,       \* WorkerPool.workers: the ids in the map
    spawned,       \* WorkerPool.nextWorkerId: slots 1 .. spawned exist
    active,        \* the slots whose thread said "ready"
    currentJob,    \* slot.currentJob
    jobQueue,      \* WorkerPool.jobQueue
    restartCounts, \* WorkerPool.restartCounts
    threads,       \* the worker threads that run
    inbox,         \* messages on their way to each thread
    handling,      \* the jobs whose handler runs in each thread
    outbox,        \* messages and error events on their way from each thread
    starts,        \* calls of start() so far
    errors,        \* uncaught errors so far
    dispatched,    \* history: the jobs given to dispatch(), in order
    reported,      \* history: jobs reported by onJobCompleted or onJobFailed
    masked,        \* history: jobs cleared from their slot by another job's answer
    late           \* history: slots whose job timed out

pool == <<started, stopping, strays, workers, spawned, active, restartCounts>>

links == <<threads, inbox, handling, outbox>>

history == <<starts, errors, dispatched, reported, masked, late>>

vars == <<config, pool, currentJob, jobQueue, links, history>>

Slots == 1 .. MaxWorkers

InMessage == [type : {"job", "stop"}, job : Jobs \cup {NoJob}]

\* "answer" is job_completed or job_failed: the pool treats them alike.
OutMessage == [type : {"ready", "answer", "error"}, job : Jobs \cup {NoJob}]

TypeOK ==
    /\ config \in Configs
    /\ started \in BOOLEAN
    /\ stopping \in 0 .. MaxStops
    /\ strays \in 0 .. MaxStops
    /\ workers \subseteq 1 .. spawned
    /\ spawned \in 0 .. MaxWorkers
    /\ active \subseteq 1 .. spawned
    /\ currentJob \in [Slots -> Jobs \cup {NoJob}]
    /\ jobQueue \in Seq(Jobs)
    /\ restartCounts \in [Slots -> Nat]
    /\ threads \subseteq 1 .. spawned
    /\ inbox \in [Slots -> Seq(InMessage)]
    /\ handling \in [Slots -> SUBSET Jobs]
    /\ outbox \in [Slots -> Seq(OutMessage)]
    /\ starts \in Nat
    /\ errors \in 0 .. MaxErrors
    /\ dispatched \in Seq(Jobs)
    /\ reported \subseteq Jobs
    /\ masked \subseteq Jobs
    /\ late \subseteq Slots

Init ==
    /\ config \in Configs
    /\ started = FALSE
    /\ stopping = 0
    /\ strays = 0
    /\ workers = {}
    /\ spawned = 0
    /\ active = {}
    /\ currentJob = [s \in Slots |-> NoJob]
    /\ jobQueue = <<>>
    /\ restartCounts = [s \in Slots |-> 0]
    /\ threads = {}
    /\ inbox = [s \in Slots |-> <<>>]
    /\ handling = [s \in Slots |-> {}]
    /\ outbox = [s \in Slots |-> <<>>]
    /\ starts = 0
    /\ errors = 0
    /\ dispatched = <<>>
    /\ reported = {}
    /\ masked = {}
    /\ late = {}

-----------------------------------------------------------------------------
(* Slots.                                                                  *)

Message(type, job) == [type |-> type, job |-> job]

Post(s, msg) ==
    inbox' = IF s \in threads THEN [inbox EXCEPT ![s] = Append(@, msg)] ELSE inbox

assignJob(s, job) ==
    /\ currentJob' = [currentJob EXCEPT ![s] = job]
    /\ Post(s, Message("job", job))

\* Variant: a freed slot waits for the next dispatch().
dispatchNothing(s, current) ==
    /\ currentJob' = [currentJob EXCEPT ![s] = current]
    /\ UNCHANGED <<jobQueue, inbox>>

\* Variant: pop() for shift().
dispatchLast(s, current) ==
    IF jobQueue # <<>> /\ current = NoJob
    THEN assignJob(s, Last(jobQueue)) /\ jobQueue' = Front(jobQueue)
    ELSE dispatchNothing(s, current)

\* The slot s is left with the job current, NoJob when it is free: a free slot
\* takes the next pending job.
dispatchPending(s, current) ==
    IF jobQueue # <<>> /\ current = NoJob
    THEN assignJob(s, Head(jobQueue)) /\ jobQueue' = Tail(jobQueue)
    ELSE /\ currentJob' = [currentJob EXCEPT ![s] = current]
         /\ UNCHANGED <<jobQueue, inbox>>

\* The k new slots; each thread's first message is "ready".
NewSlots(k) == spawned + 1 .. spawned + k

spawnWorkers(k) ==
    /\ spawned' = spawned + k
    /\ threads' = threads \cup NewSlots(k)

Greeted(box, k) ==
    [s \in Slots |-> IF s \in NewSlots(k) THEN <<Message("ready", NoJob)>> ELSE box[s]]

\* The threads of S end; what they posted before may still arrive, or be lost.
Silenced(S) ==
    {[s \in Slots |-> IF s \in lost THEN <<>> ELSE outbox[s]] : lost \in SUBSET (S \cap threads)}

terminate(S) ==
    /\ handling' = [s \in Slots |-> IF s \in S THEN {} ELSE handling[s]]
    /\ inbox' = [s \in Slots |-> IF s \in S THEN <<>> ELSE inbox[s]]

-----------------------------------------------------------------------------
(* The pool's operations.                                                  *)

\* Leaves room for one replacement of a worker per error.
MayStart == spawned + config.concurrency + (MaxErrors - errors) <= MaxWorkers

start ==
    /\ ~started /\ MayStart
    /\ started' = TRUE
    /\ starts' = starts + 1
    /\ spawnWorkers(config.concurrency)
    /\ workers' = workers \cup NewSlots(config.concurrency)
    /\ outbox' = Greeted(outbox, config.concurrency)
    /\ UNCHANGED <<config, stopping, strays, active, restartCounts, currentJob, jobQueue,
                   inbox, handling, errors, dispatched, reported, masked, late>>

\* Variant: dispatch() takes any active worker.
AnyActive == workers \cap active

\* Variant: dispatch() does not ask whether the worker is ready.
NotBusy == {s \in workers : currentJob[s] = NoJob}

Idle == {s \in workers \cap active : currentJob[s] = NoJob}

dispatch(j) ==
    /\ j \notin Range(dispatched)
    /\ dispatched' = Append(dispatched, j)
    /\ IF Idle # {}
       THEN assignJob(Min(Idle), j) /\ UNCHANGED jobQueue
       ELSE jobQueue' = Append(jobQueue, j) /\ UNCHANGED <<currentJob, inbox>>
    /\ UNCHANGED <<config, pool, threads, handling, outbox,
                   starts, errors, reported, masked, late>>

stop ==
    /\ started /\ stopping + strays < MaxStops
    /\ stopping' = stopping + 1
    /\ inbox' = [s \in Slots |-> IF s \in workers \cap threads
                                 THEN Append(inbox[s], Message("stop", NoJob))
                                 ELSE inbox[s]]
    /\ UNCHANGED <<config, started, strays, workers, spawned, active, restartCounts,
                   currentJob, jobQueue, threads, handling, outbox, history>>

AllDone == \A s \in workers : currentJob[s] = NoJob

\* A waiting stop() sees every worker done, or its 5 s are over: then its
\* interval goes on.
stopped ==
    /\ stopping > 0
    /\ (AllDone /\ UNCHANGED strays) \/ strays' = strays + 1
    /\ stopping' = stopping - 1
    /\ started' = FALSE
    /\ workers' = {}
    /\ threads' = threads \ workers
    /\ terminate(workers)
    /\ outbox' \in Silenced(workers)
    /\ UNCHANGED <<config, spawned, active, restartCounts, currentJob, jobQueue, history>>

\* The interval of a stop() that is over: it terminates the workers it finds,
\* and leaves them in the map.
strayInterval ==
    /\ strays > 0 /\ AllDone
    /\ strays' = strays - 1
    /\ threads' = threads \ workers
    /\ terminate(workers)
    /\ outbox' \in Silenced(workers)
    /\ UNCHANGED <<config, started, stopping, workers, spawned, active, restartCounts,
                   currentJob, jobQueue, history>>

-----------------------------------------------------------------------------
(* Callbacks of the main thread.                                           *)

Receives(s, type) == outbox[s] # <<>> /\ Head(outbox[s]).type = type

onReady(s) ==
    /\ Receives(s, "ready")
    /\ active' = active \cup {s}
    /\ dispatchPending(s, currentJob[s])
    /\ outbox' = [outbox EXCEPT ![s] = Tail(@)]
    /\ UNCHANGED <<config, started, stopping, strays, workers, spawned, restartCounts,
                   threads, handling, history>>

\* job_completed and job_failed free the slot, whichever job they answer.
onAnswer(s) ==
    LET job == Head(outbox[s]).job IN
    /\ Receives(s, "answer")
    /\ reported' = reported \cup {job}
    /\ masked' = masked \cup ({currentJob[s]} \ {NoJob, job})
    /\ dispatchPending(s, NoJob)
    /\ outbox' = [outbox EXCEPT ![s] = Tail(@)]
    /\ UNCHANGED <<config, pool, threads, handling, starts, errors, dispatched, late>>

\* onerror and restartWorker(): a slot that is no longer in the map is left
\* alone, a script worker is replaced while restarts are left, the slot goes.
\* MayStart leaves the room it asks for.
restartWorker(s) ==
    LET count == restartCounts[s] + 1
        k == IF config.handlerScript /\ count <= config.maxWorkerRestarts THEN 1 ELSE 0
    IN
    /\ s \in workers
    /\ spawned + k <= MaxWorkers
    /\ IF count > config.maxWorkerRestarts
       THEN UNCHANGED restartCounts
       ELSE restartCounts' = [restartCounts EXCEPT ![s] = count]
    /\ workers' = (workers \cup NewSlots(k)) \ {s}
    /\ spawned' = spawned + k
    /\ threads' = (threads \cup NewSlots(k)) \ {s}
    /\ terminate({s})
    /\ \E rest \in Silenced({s}) :
          outbox' = Greeted([rest EXCEPT ![s] = IF @ = <<>> THEN @ ELSE Tail(@)], k)

onError(s) ==
    /\ Receives(s, "error")
    /\ \/ restartWorker(s)
       \/ /\ s \notin workers
          /\ outbox' = [outbox EXCEPT ![s] = Tail(@)]
          /\ UNCHANGED <<workers, spawned, restartCounts, threads, inbox, handling>>
    /\ UNCHANGED <<config, started, stopping, strays, active, currentJob, jobQueue, history>>

\* Variant: the timers of a worker end with it.
TimesOutInMap(s) == s \in workers /\ currentJob[s] # NoJob

TimesOut(s) == currentJob[s] # NoJob

onTimeout(s) ==
    /\ TimesOut(s)
    /\ reported' = reported \cup {currentJob[s]}
    /\ late' = late \cup {s}
    /\ dispatchPending(s, NoJob)
    /\ UNCHANGED <<config, pool, threads, handling, outbox, starts, errors, dispatched, masked>>

-----------------------------------------------------------------------------
(* The worker threads.  A handler that awaits leaves its thread free to    *)
(* take the next message.                                                  *)

takeMessage(s) ==
    LET msg == Head(inbox[s]) IN
    /\ s \in threads /\ inbox[s] # <<>>
    /\ \/ /\ msg.type = "job"
          /\ handling' = [handling EXCEPT ![s] = @ \cup {msg.job}]
          /\ inbox' = [inbox EXCEPT ![s] = Tail(@)]
          /\ UNCHANGED threads
       \/ /\ msg.type = "stop" /\ ~config.handlerScript
          /\ threads' = threads \ {s}
          /\ terminate({s})
       \/ /\ msg.type = "stop" /\ config.handlerScript
          /\ inbox' = [inbox EXCEPT ![s] = Tail(@)]
          /\ UNCHANGED <<threads, handling>>
    /\ UNCHANGED <<config, pool, currentJob, jobQueue, outbox, history>>

handlerEnds(s, j) ==
    /\ s \in threads /\ j \in handling[s]
    /\ handling' = [handling EXCEPT ![s] = @ \ {j}]
    /\ outbox' = [outbox EXCEPT ![s] = Append(@, Message("answer", j))]
    /\ UNCHANGED <<config, pool, currentJob, jobQueue, threads, inbox, history>>

\* An error nothing catches, perhaps before the thread said "ready".  A thread
\* that ends with it is one that takes no further step.
workerThrows(s) ==
    /\ s \in threads /\ errors < MaxErrors
    /\ errors' = errors + 1
    /\ \E said \in {outbox[s], IF Receives(s, "ready") THEN Tail(outbox[s]) ELSE outbox[s]} :
          outbox' = [outbox EXCEPT ![s] = Append(said, Message("error", NoJob))]
    /\ UNCHANGED <<config, pool, currentJob, jobQueue, threads, inbox, handling,
                   starts, dispatched, reported, masked, late>>

-----------------------------------------------------------------------------

Next ==
    \/ start \/ stop \/ stopped \/ strayInterval
    \/ \E j \in Jobs : dispatch(j)
    \/ \E s \in Slots : \/ onReady(s) \/ onAnswer(s) \/ onError(s) \/ onTimeout(s)
                        \/ takeMessage(s) \/ workerThrows(s)
    \/ \E s \in Slots, j \in Jobs : handlerEnds(s, j)

Spec == Init /\ [][Next]_vars

\* The main thread's event loop delivers every message and runs every timer.
\* Nothing is asked of the worker threads, of handlers, or of who calls.
Fairness ==
    \A s \in Slots :
        /\ WF_vars(onReady(s) \/ onAnswer(s) \/ onError(s))
        /\ WF_vars(onTimeout(s))

FairSpec == Spec /\ Fairness

-----------------------------------------------------------------------------
(* Properties.                                                             *)

JobsOf(box) == {m.job : m \in Range(box)} \ {NoJob}

\* What the thread of s and the messages on their way have of jobs.
InFlight(s) == JobsOf(inbox[s]) \cup handling[s] \cup JobsOf(outbox[s])

JobsAt(s) == InFlight(s) \cup ({currentJob[s]} \ {NoJob})

\* setupWorkerHandlers(), dispatch(): before its worker says "ready" a slot has
\* no job, and neither has a slot that is still to be created anything at all.
ReadyFirst ==
    /\ \A s \in Slots \ active : JobsAt(s) = {}
    /\ \A s \in Slots : s > spawned => inbox[s] = <<>> /\ outbox[s] = <<>>

\* dispatch(), dispatchPending(): while a job waits in the queue, no ready
\* worker of the pool is idle.
WorkConserving == jobQueue # <<>> => Idle = {}

\* dispatch(), dispatchPending(): jobs reach the workers in the order they were
\* dispatched: those that wait are the last ones.
InOrder == IsSuffix(jobQueue, dispatched)

\* assignJob(), the message handler: until a job of its times out, a worker is
\* busy with one job at a time, the slot's currentJob; and no two slots share a
\* job, nor does one that waits have a worker.
OneJobPerWorker ==
    /\ \A s \in Slots \ late : InFlight(s) \subseteq {currentJob[s]}
    /\ \A s \in Slots, t \in Slots : s # t => JobsAt(s) \cap JobsAt(t) = {}
    /\ \A s \in Slots : JobsAt(s) \cap Range(jobQueue) = {}

-----------------------------------------------------------------------------
(* The inductive invariant behind WorkConserving, InOrder, OneJobPerWorker. *)

\* The messages about jobs are "job" and "answer", and no other one names a job.
Labelled ==
    \A s \in Slots :
       /\ \A m \in Range(inbox[s]) : m.job \in Jobs <=> m.type = "job"
       /\ \A m \in Range(outbox[s]) : m.job \in Jobs <=> m.type = "answer"

\* Until a job of its times out, a slot's job is in one place: on its way to the
\* thread, with its handler, or on its way back.
OnePlace ==
    LET Single(box) ==
            \A i, k \in DOMAIN box : box[i].job # NoJob /\ box[k].job # NoJob => i = k
    IN  \A s \in Slots \ late :
           /\ Single(inbox[s]) /\ Single(outbox[s])
           /\ JobsOf(inbox[s]) # {} => handling[s] = {}
           /\ JobsOf(inbox[s]) \cup handling[s] # {} => JobsOf(outbox[s]) = {}

\* A job is dispatched once, before any worker hears of it.
Known ==
    /\ IsInjective(dispatched)
    /\ \A s \in Slots : JobsAt(s) \subseteq Range(dispatched)

\* Every interval that goes on was a waiting stop().
StopsBounded == stopping + strays <= MaxStops

IInv ==
    /\ TypeOK
    /\ ReadyFirst
    /\ WorkConserving
    /\ InOrder
    /\ OneJobPerWorker
    /\ Labelled
    /\ OnePlace
    /\ Known
    /\ StopsBounded

-----------------------------------------------------------------------------
\* assignJob()'s timer: a job a worker was given is reported, as completed,
\* failed or timed out, though the worker be restarted or stopped; the one
\* exception is a job whose slot was freed by the late answer of another.
EveryJobReported ==
    \A j \in Jobs :
        (j \in Range(dispatched) \ Range(jobQueue)) ~> (j \in reported \cup masked)

\* dispatchPending(): if the pool has a ready worker from some time on, every
\* job is given to a worker, however long the handlers take.
EveryJobAssigned ==
    <>[](workers \cap active # {}) =>
        \A j \in Jobs : (j \in Range(dispatched)) ~> (j \notin Range(jobQueue))

\* config.maxWorkerRestarts (worker_pool.ts:60): each worker start() made is
\* replaced at most that often.  The code breaks it.
RestartsLimited == spawned <= starts * config.concurrency * (1 + config.maxWorkerRestarts)

=============================================================================
