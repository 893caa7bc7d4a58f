---------------------------- MODULE MemoryQueue ----------------------------
(***************************************************************************)
(* The job queue of system/core/queue.ts with its memory driver: class     *)
(* MemoryQueueDriver and the worker loop of class Queue.                   *)
(*                                                                         *)
(* One process, one event loop.  The interval of Queue.work() starts an    *)
(* asynchronous tick whether or not the previous tick is over, so several  *)
(* ticks are in flight; an action is a stretch of code between two awaits. *)
(* The driver keeps references: pop() returns the very object that stays   *)
(* in the queue, so that recoverTimeout() changes the payload a running    *)
(* handler holds, while a retry is a new object with the same id.  The     *)
(* objects are kept in `job'; the queue and the ticks hold their indices.  *)
(***************************************************************************)
EXTENDS Integers, SequencesExt

CONSTANTS
    Jobs,          \* the ids crypto.randomUUID() returns, each used once
    Ticks,         \* slots for interval callbacks and manual calls in flight
    MaxRetries,    \* config.defaultMaxRetries
    JobTimeout,    \* config.jobTimeout
    BatchSize,     \* config.batchSize
    Backoff,       \* retry delays before the cap (the code's 5s, 25s, 125s)
    BackoffCap,    \* the longest retry delay (the code's 300s)
    Delays,        \* delays that later() is called with
    MaxRun,        \* no handler takes longer than this, counted from its pop
    Reconfigure,   \* whether configure() may be called with jobs in the queue
    MaxTime,       \* bound: the clock stops here
    MaxObjs        \* bound: payload objects ever created

ASSUME QueueAssumption ==
    /\ MaxRetries \in Nat
    /\ JobTimeout \in Nat
    /\ BatchSize \in Nat \ {0}
    /\ Backoff \in Seq(Nat)
    /\ BackoffCap \in Nat
    /\ Delays \subseteq Nat
    /\ MaxRun \in Nat
    /\ Reconfigure \in BOOLEAN
    /\ MaxTime \in Nat
    /\ MaxObjs \in Nat

VARIABLES
    now,           \* Date.now()
    job,           \* every payload object, in order of creation
    queue,         \* MemoryQueueDriver.queues.get(name): indices of job
    failedQueue,   \* MemoryQueueDriver.failedQueues.get(name): ids
    handlers,      \* ids whose type has a handler in Queue.handlers
    running,       \* Queue.running; the timer of Queue.timers lives as long
    tick,          \* the local state of each tick in flight
    pushed,        \* history: ids given to push() or later()
    done,          \* history: ids some run of which completed
    recovered,     \* history: ids recoverTimeout() ever put back
    discarded,     \* history: ids dropped by flushFailed() or configure()
    runs           \* history: how often pop() handed out each id

vars == <<now, job, queue, failedQueue, handlers, running, tick,
          pushed, done, recovered, discarded, runs>>

history == <<pushed, done, recovered, discarded, runs>>

Null == 0   \* reservedAt === null; Date.now() is never 0

JobPayload ==
    [id : Jobs, attempts : Nat, createdAt : Nat, availableAt : Nat, reservedAt : Nat]

TickState ==
    [pc : {"idle", "pop", "process", "handler"}, n : 0 .. BatchSize - 1, obj : Nat, since : Nat]

Idle == [pc |-> "idle", n |-> 0, obj |-> 0, since |-> 0]

Popping(round) == [pc |-> "pop", n |-> round, obj |-> 0, since |-> 0]

TypeOK ==
    /\ now \in Nat \ {0}
    /\ job \in Seq(JobPayload)
    /\ queue \in Seq(DOMAIN job)
    /\ failedQueue \in Seq(Jobs)
    /\ handlers \subseteq Jobs
    /\ running \in BOOLEAN
    /\ tick \in [Ticks -> TickState]
    /\ \A t \in Ticks : tick[t].pc \in {"process", "handler"} => tick[t].obj \in DOMAIN job
    /\ pushed \subseteq Jobs
    /\ done \subseteq Jobs
    /\ recovered \subseteq Jobs
    /\ discarded \subseteq Jobs
    /\ runs \in [Jobs -> Nat]

Init ==
    /\ now = 1
    /\ job = <<>>
    /\ queue = <<>>
    /\ failedQueue = <<>>
    /\ handlers = {}
    /\ running = FALSE
    /\ tick = [t \in Ticks |-> Idle]
    /\ pushed = {}
    /\ done = {}
    /\ recovered = {}
    /\ discarded = {}
    /\ runs = [j \in Jobs |-> 0]

-----------------------------------------------------------------------------
(* The driver's operations, as values of the queue.                        *)

\* min(5 * 5^attempt, 300) seconds, as the sequence of its values below the cap.
retryDelay(attempt) ==
    IF attempt < Len(Backoff) THEN Backoff[attempt + 1] ELSE BackoffCap

Holds(t) == tick[t].pc \in {"process", "handler"}

HeldId(t) == job[tick[t].obj].id

QueuedIds == {job[queue[k]].id : k \in DOMAIN queue}

\* Variants with a plausible bug, which OnceAtATime and EveryJobSettles detect:
\* pop() that ignores reservations, pop() that skips jobs out of retries.
EligibleReserved(o) == job[o].availableAt <= now
EligibleWithRetries(o) ==
    job[o].availableAt <= now /\ job[o].reservedAt = Null /\ job[o].attempts < MaxRetries

Eligible(o) == job[o].availableAt <= now /\ job[o].reservedAt = Null

\* Variants: the entry is only looked for among the unreserved ones, and
\* splice(-1, 1) when it is not found, which UniqueEntries and NoJobLost detect.
WithoutUnreserved(id) ==
    RemoveFirstMatch(queue, LAMBDA o : job[o].id = id /\ job[o].reservedAt = Null)
WithoutIdOrLast(id) ==
    IF id \in QueuedIds \/ queue = <<>>
    THEN RemoveFirstMatch(queue, LAMBDA o : job[o].id = id)
    ELSE Front(queue)

\* The queue without the first entry that has the given id, if there is one.
WithoutId(id) == RemoveFirstMatch(queue, LAMBDA o : job[o].id = id)

\* Variant: a job without a delay goes to the front (NoOvertaking detects it).
PushedAtFront(k, availableAt) == k = 1

\* Where push() puts a new entry: a delayed one goes before the first entry
\* that becomes available later, any other one goes to the end.
PushedAt(k, availableAt) ==
    /\ availableAt <= now => k = Len(queue) + 1
    /\ \A i \in 1 .. k - 1 : availableAt > now => job[queue[i]].availableAt <= availableAt
    /\ k \in DOMAIN queue => job[queue[k]].availableAt > availableAt

\* Variants of the retried payload: attempts is not counted, the reservation is
\* kept (IInv and ImplementsLifecycle, ReservedHeld detect them).
AttemptedUncounted(p, availableAt) == [p EXCEPT !.availableAt = availableAt, !.reservedAt = Null]
AttemptedReserved(p, availableAt) == [p EXCEPT !.attempts = @ + 1, !.availableAt = availableAt]

\* The payload p after one more attempt, free to be popped at availableAt.
Attempted(p, availableAt) ==
    [id |-> p.id, attempts |-> p.attempts + 1, createdAt |-> p.createdAt,
     availableAt |-> availableAt, reservedAt |-> Null]

\* Variant: the timeout is over one instant too early (NeverRecovered detects it).
TimedOutEarly(o) ==
    /\ \E k \in DOMAIN queue : queue[k] = o
    /\ job[o].reservedAt # Null
    /\ now - job[o].reservedAt >= JobTimeout

\* An entry reserved for longer than the timeout.
TimedOut(o) ==
    /\ \E k \in DOMAIN queue : queue[k] = o
    /\ job[o].reservedAt # Null
    /\ now - job[o].reservedAt > JobTimeout

recoverTimeout ==
    /\ job' = [o \in DOMAIN job |->
                 IF TimedOut(o) THEN Attempted(job[o], job[o].availableAt) ELSE job[o]]
    /\ recovered' = recovered \cup {job[o].id : o \in {p \in DOMAIN job : TimedOut(p)}}

\* fail() of the payload object o: drop the entry with its id, whoever put it
\* there, then queue a retry or record the failure.
fail(o) ==
    /\ queue' = IF job[o].attempts < MaxRetries
                THEN Append(WithoutId(job[o].id), Len(job) + 1)
                ELSE WithoutId(job[o].id)
    /\ \/ /\ job[o].attempts < MaxRetries
          /\ Len(job) < MaxObjs
          /\ job' = Append(job, Attempted(job[o], now + retryDelay(job[o].attempts)))
          /\ UNCHANGED failedQueue
       \/ /\ job[o].attempts >= MaxRetries
          /\ failedQueue' = Append(failedQueue, job[o].id)
          /\ UNCHANGED job

-----------------------------------------------------------------------------
(* Calls from outside the worker.                                          *)

\* Queue.push() is later() without a delay.
Push(j, delay) ==
    /\ j \notin pushed
    /\ Len(job) < MaxObjs
    /\ pushed' = pushed \cup {j}
    /\ job' = Append(job, [id |-> j, attempts |-> 0, createdAt |-> now,
                           availableAt |-> now + delay, reservedAt |-> Null])
    /\ \E k \in 1 .. Len(queue) + 1 :
          /\ PushedAt(k, now + delay)
          /\ queue' = InsertAt(queue, k, Len(job) + 1)
    /\ UNCHANGED <<now, failedQueue, handlers, running, tick, done, recovered, discarded, runs>>

Register(j) ==
    /\ j \notin handlers
    /\ handlers' = handlers \cup {j}
    /\ UNCHANGED <<now, job, queue, failedQueue, running, tick, history>>

\* work() on a queue that is being worked only warns.
Work ==
    /\ ~running
    /\ running' = TRUE
    /\ UNCHANGED <<now, job, queue, failedQueue, handlers, tick, history>>

\* stop() clears the timer; ticks in flight go on.
Stop ==
    /\ running
    /\ running' = FALSE
    /\ UNCHANGED <<now, job, queue, failedQueue, handlers, tick, history>>

FlushFailed ==
    /\ failedQueue # <<>>
    /\ failedQueue' = <<>>
    /\ discarded' = discarded \cup ToSet(failedQueue)
    /\ UNCHANGED <<now, job, queue, handlers, running, tick, pushed, done, recovered, runs>>

\* configure() forgets the driver; the next use makes an empty one.
Configure ==
    /\ Reconfigure
    /\ queue # <<>> \/ failedQueue # <<>>
    /\ queue' = <<>>
    /\ failedQueue' = <<>>
    /\ discarded' = discarded \cup QueuedIds \cup ToSet(failedQueue)
    /\ UNCHANGED <<now, job, handlers, running, tick, pushed, done, recovered, runs>>

\* Queue.recoverTimeout() called by the application.
RecoverNow ==
    /\ \E o \in DOMAIN job : TimedOut(o)
    /\ recoverTimeout
    /\ UNCHANGED <<now, queue, failedQueue, handlers, running, tick, pushed, done, discarded, runs>>

-----------------------------------------------------------------------------
(* One tick of the worker: recover, then up to BatchSize times pop and     *)
(* process.                                                                *)

Goto(t, state) == tick' = [tick EXCEPT ![t] = state]

\* The loop's i++ and its test.
NextRound(t) ==
    IF tick[t].n + 1 < BatchSize THEN Popping(tick[t].n + 1) ELSE Idle

StartTick(t) ==
    /\ running
    /\ tick[t].pc = "idle"
    /\ recoverTimeout
    /\ Goto(t, Popping(0))
    /\ UNCHANGED <<now, queue, failedQueue, handlers, running, pushed, done, discarded, runs>>

\* Reserve the first eligible entry.
PopAs(t, round) ==
    \E k \in DOMAIN queue :
       /\ Eligible(queue[k])
       /\ \A i \in 1 .. k - 1 : ~Eligible(queue[i])
       /\ job' = [job EXCEPT ![queue[k]].reservedAt = now]
       /\ runs' = [runs EXCEPT ![job[queue[k]].id] = @ + 1]
       /\ Goto(t, [pc |-> "process", n |-> round, obj |-> queue[k], since |-> now])
       /\ UNCHANGED <<now, queue, failedQueue, handlers, running,
                      pushed, done, recovered, discarded>>

Pop(t) ==
    /\ tick[t].pc = "pop"
    /\ PopAs(t, tick[t].n)

PopNothing(t) ==
    /\ tick[t].pc = "pop"
    /\ \A k \in DOMAIN queue : ~Eligible(queue[k])
    /\ Goto(t, Idle)
    /\ UNCHANGED <<now, job, queue, failedQueue, handlers, running, history>>

\* The application pops one job itself and gives it to processJob().
PopManually(t) ==
    /\ tick[t].pc = "idle"
    /\ PopAs(t, BatchSize - 1)

\* processJob() up to its await: call the handler, or fail for want of one.
CallHandler(t) ==
    /\ tick[t].pc = "process"
    /\ HeldId(t) \in handlers
    /\ tick' = [tick EXCEPT ![t].pc = "handler"]
    /\ UNCHANGED <<now, job, queue, failedQueue, handlers, running, history>>

NoHandler(t) ==
    /\ tick[t].pc = "process"
    /\ HeldId(t) \notin handlers
    /\ fail(tick[t].obj)
    /\ Goto(t, NextRound(t))
    /\ UNCHANGED <<now, handlers, running, history>>

\* The handler resolved: complete() drops the entry with the job's id.
HandlerOk(t) ==
    /\ tick[t].pc = "handler"
    /\ queue' = WithoutId(HeldId(t))
    /\ done' = done \cup {HeldId(t)}
    /\ Goto(t, NextRound(t))
    /\ UNCHANGED <<now, job, failedQueue, handlers, running, pushed, recovered, discarded, runs>>

\* The handler rejected.
HandlerError(t) ==
    /\ tick[t].pc = "handler"
    /\ fail(tick[t].obj)
    /\ Goto(t, NextRound(t))
    /\ UNCHANGED <<now, handlers, running, history>>

\* Time passes while somebody waits for it: an entry that is not yet
\* available, or a handler, none of which runs longer than MaxRun.
TimePasses ==
    /\ now < MaxTime
    /\ \/ \E k \in DOMAIN queue : job[queue[k]].availableAt > now
       \/ \E t \in Ticks : Holds(t)
    /\ \A t \in Ticks : Holds(t) => now - tick[t].since < MaxRun
    /\ now' = now + 1
    /\ UNCHANGED <<job, queue, failedQueue, handlers, running, tick, history>>

Worker(t) ==
    \/ StartTick(t) \/ Pop(t) \/ PopNothing(t)
    \/ CallHandler(t) \/ NoHandler(t) \/ HandlerOk(t) \/ HandlerError(t)

Next ==
    \/ \E j \in Jobs, delay \in Delays : Push(j, delay)
    \/ \E j \in Jobs : Register(j)
    \/ Work \/ Stop \/ FlushFailed \/ Configure \/ RecoverNow
    \/ \E t \in Ticks : Worker(t) \/ PopManually(t)
    \/ TimePasses

Spec == Init /\ [][Next]_vars

\* The interval fires as long as the worker is not stopped, promises settle
\* (a handler that never settles is outside MaxRun) and the clock advances.
Fairness ==
    /\ \A t \in Ticks : /\ WF_vars(StartTick(t))
                        /\ WF_vars(Pop(t) \/ PopNothing(t))
                        /\ WF_vars(CallHandler(t) \/ NoHandler(t))
                        /\ WF_vars(HandlerOk(t) \/ HandlerError(t))
    /\ WF_vars(TimePasses)

FairSpec == Spec /\ Fairness

-----------------------------------------------------------------------------
(* Properties.                                                             *)

\* However ticks, recoveries and late answers interleave, the queue never
\* holds two entries with the same id: fail() removes before it pushes.
UniqueEntries ==
    \A k, l \in DOMAIN queue : job[queue[k]].id = job[queue[l]].id => k = l

\* A reserved entry is held by a tick that will complete or fail it: no entry
\* of the memory driver is stuck reserved once its holder is gone.
ReservedHeld ==
    \A k \in DOMAIN queue :
       job[queue[k]].reservedAt # Null =>
          \E t \in Ticks : Holds(t) /\ tick[t].obj = queue[k]

\* A pushed job is queued, or failed, or was completed once, or was dropped by
\* an explicit flushFailed() or configure(): no order of ticks loses it.
NoJobLost ==
    pushed \subseteq QueuedIds \cup ToSet(failedQueue) \cup done \cup discarded

\* A job that recoverTimeout() never touched is run by one tick at a time, is
\* neither queued nor run again once it completed or failed for good, and was
\* handed out at most MaxRetries + 1 times.
OnceAtATime ==
    \A j \in Jobs \ recovered :
       /\ \A t, u \in Ticks :
             Holds(t) /\ Holds(u) /\ HeldId(t) = j /\ HeldId(u) = j => t = u
       /\ j \in done \cup ToSet(failedQueue) =>
             /\ j \notin QueuedIds
             /\ \A t \in Ticks : Holds(t) => HeldId(t) # j
       /\ ~(j \in done /\ j \in ToSet(failedQueue))
       /\ runs[j] <= MaxRetries + 1

\* Handlers that finish within jobTimeout are never recovered under their feet.
NeverRecovered == MaxRun <= JobTimeout => recovered = {}

\* The payload push() made without a delay, not retried since.
Immediate(o) == job[o].attempts = 0 /\ job[o].availableAt = job[o].createdAt

\* Jobs pushed without a delay get their first run in the order they were
\* pushed, whatever delayed jobs and retries are inserted between them.
NoOvertaking ==
    \A k \in DOMAIN queue : \A o \in queue[k] + 1 .. Len(job) :
       Immediate(queue[k]) /\ runs[job[queue[k]].id] = 0 /\ Immediate(o) =>
          runs[job[o].id] = 0

\* A worker that is not stopped brings every pushed job to an end.
EveryJobSettles ==
    <>[]running =>
       \A j \in Jobs : j \in pushed ~> j \in done \cup ToSet(failedQueue) \cup discarded

\* docs/user-guide/queue.md, Retry Mechanism: "Failed jobs auto-retry (up to
\* `defaultMaxRetries` times)" and "Jobs exceeding max retries move to the
\* failed queue".
RetriesLimited == \A j \in Jobs : runs[j] <= MaxRetries + 1

-----------------------------------------------------------------------------
(* The inductive invariant behind the theorems of MemoryQueueProofs.       *)

\* Nothing is known of an id before it is pushed.
OnlyPushed ==
    /\ \A o \in DOMAIN job : job[o].id \in pushed
    /\ done \subseteq pushed
    /\ ToSet(failedQueue) \subseteq pushed
    /\ \A j \in Jobs \ pushed : runs[j] = 0

\* A job never recovered has one holder, and an entry of a held job is the
\* holder's object, still reserved.
OneHolder ==
    \A t \in Ticks : Holds(t) /\ HeldId(t) \notin recovered =>
       /\ \A u \in Ticks : Holds(u) /\ HeldId(u) = HeldId(t) => u = t
       /\ \A k \in DOMAIN queue : job[queue[k]].id = HeldId(t) =>
             queue[k] = tick[t].obj /\ job[queue[k]].reservedAt # Null

\* A job never recovered that ended, ended for good and in one way.
Finished ==
    \A j \in (done \cup ToSet(failedQueue)) \ recovered :
       /\ j \notin QueuedIds
       /\ \A t \in Ticks : Holds(t) => HeldId(t) # j
       /\ ~(j \in done /\ j \in ToSet(failedQueue))

\* The payload's attempts count the runs that are over.
Counted ==
    /\ \A t \in Ticks : Holds(t) /\ HeldId(t) \notin recovered =>
          /\ job[tick[t].obj].attempts <= MaxRetries
          /\ runs[HeldId(t)] = job[tick[t].obj].attempts + 1
    /\ \A k \in DOMAIN queue : job[queue[k]].id \notin recovered =>
          /\ job[queue[k]].attempts <= MaxRetries
          /\ job[queue[k]].reservedAt = Null =>
                runs[job[queue[k]].id] = job[queue[k]].attempts
    /\ \A j \in Jobs \ recovered : runs[j] <= MaxRetries + 1

\* What NoOvertaking rests on: a job has one payload that was never retried, what
\* was popped has run, and the entries pushed without a delay keep their order.
ArrivalOrder ==
    /\ \A o \in DOMAIN job :
          /\ job[o].createdAt <= now
          /\ job[o].attempts > 0 \/ job[o].reservedAt # Null => runs[job[o].id] > 0
    /\ \A o, p \in DOMAIN job :
          job[o].id = job[p].id /\ job[o].attempts = 0 /\ job[p].attempts = 0 => o = p
    /\ \A t \in Ticks : Holds(t) => runs[HeldId(t)] > 0
    /\ \A k, l \in DOMAIN queue :
          Immediate(queue[k]) /\ Immediate(queue[l]) /\ queue[k] < queue[l] => k < l

\* When no handler outlives jobTimeout, nothing is recovered, and the time a
\* holder has left can be read off its payload.
Punctual ==
    MaxRun <= JobTimeout =>
       /\ recovered = {}
       /\ \A t \in Ticks : Holds(t) =>
             /\ job[tick[t].obj].reservedAt = tick[t].since
             /\ tick[t].since <= now
             /\ now <= tick[t].since + MaxRun

IInv ==
    /\ TypeOK
    /\ UniqueEntries
    /\ ReservedHeld
    /\ OnlyPushed
    /\ OneHolder
    /\ Finished
    /\ Counted

-----------------------------------------------------------------------------
(* The queue implements the life cycle of a job, as long as handlers       *)
(* finish within jobTimeout.                                               *)

PhaseOf(j) ==
    IF j \notin pushed THEN "absent"
    ELSE IF \E t \in Ticks : Holds(t) /\ HeldId(t) = j THEN "running"
    ELSE IF j \in QueuedIds THEN "waiting"
    ELSE IF j \in done THEN "done"
    ELSE IF j \in ToSet(failedQueue) THEN "failed"
    ELSE "discarded"

phase == [j \in Jobs |-> PhaseOf(j)]

Lifecycle == INSTANCE JobLifecycle WITH phase <- phase, runs <- runs

ImplementsLifecycle == Lifecycle!LifecycleSpec
=============================================================================
