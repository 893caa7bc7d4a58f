----------------------------- MODULE RedisQueue -----------------------------
(***************************************************************************)
(* The job queue of system/core/queue.ts with its Redis driver: class      *)
(* RedisQueueDriver, driven by the worker loops of several processes.      *)
(*                                                                         *)
(* The queue is a sorted set, the reservations are a hash, the failed jobs *)
(* a list.  Every driver operation is a series of awaited commands; the    *)
(* store executes each command atomically, and anything may happen between *)
(* two of them.  A client is one tick of one process; pc names the command *)
(* it sends next.  The store is shared, a client's payload is a copy.      *)
(***************************************************************************)
EXTENDS Naturals, Sequences

CONSTANTS
    Jobs,          \* the ids crypto.randomUUID() returns, each used once
    Clients,       \* ticks of Queue.work(), of one process or of several
    Registered,    \* the clients whose process registered a handler
    NoJob,         \* a client holds no payload
    MaxRetries,    \* config.defaultMaxRetries
    JobTimeout,    \* config.jobTimeout
    BatchSize,     \* config.batchSize
    Backoff,       \* retry delays before the cap
    BackoffCap,    \* the longest retry delay
    Delays,        \* delays that later() is called with
    HashReplies,   \* the forms the client library may answer HGETALL in
    MaxFailures,   \* bound: crashes and rejected commands
    FailBy,        \* bound: no failure after this time
    MaxTime        \* bound: the clock stops here

ASSUME RedisAssumption ==
    /\ Registered \subseteq Clients
    /\ MaxRetries \in Nat
    /\ JobTimeout \in Nat
    /\ BatchSize \in Nat \ {0}
    /\ Backoff \in Seq(Nat)
    /\ BackoffCap \in Nat
    /\ Delays \subseteq Nat
    /\ HashReplies \subseteq {"array", "object"}
    /\ HashReplies # {}
    /\ MaxFailures \in Nat
    /\ FailBy \in Nat
    /\ MaxTime \in Nat \ {0}

VARIABLES
    now,           \* Date.now(), the same in every process
    zset,          \* the sorted set of waiting jobs, scored by availableAt
    reserved,      \* the hash of reservations, one per id
    failedList,    \* the ids in the list of failed jobs
    hashReply,     \* the form HGETALL is answered in, fixed for a connection
    client,        \* the local state of each client
    failures,      \* crashes and rejected commands so far
    pushed,        \* history: ids given to push() or later()
    done,          \* history: ids some handler of which resolved
    recovered,     \* history: ids recoverTimeout() ever put back
    discarded,     \* history: ids dropped by flushFailed()
    dropped,       \* history: ids whose client failed between two keys
    orphaned,      \* history: ids whose reservation lost its client
    doubled        \* history: ids popped by two clients, or failed after complete()

store == <<zset, reserved, failedList>>

fate == <<dropped, orphaned, doubled>>

vars == <<now, hashReply, store, client, failures, pushed, done, recovered, discarded, fate>>

Payload == [id : Jobs, attempts : Nat, availableAt : Nat]

Reservation == [id : Jobs, attempts : Nat, availableAt : Nat, reservedAt : Nat]

ClientState ==
    [pc : {"idle", "unreserve", "requeue", "range", "rem", "reserve", "handler",
           "complete", "fail", "return"},
     n : 0 .. BatchSize - 1, job : Payload \cup {NoJob}, rest : SUBSET Payload, since : Nat]

Idle == [pc |-> "idle", n |-> 0, job |-> NoJob, rest |-> {}, since |-> 0]

Popping(round) == [pc |-> "range", n |-> round, job |-> NoJob, rest |-> {}, since |-> 0]

TypeOK ==
    /\ now \in Nat
    /\ zset \subseteq Payload
    /\ reserved \subseteq Reservation
    /\ failedList \subseteq Jobs
    /\ hashReply \in HashReplies
    /\ client \in [Clients -> ClientState]
    /\ \A c \in Clients : client[c].pc \notin {"idle", "range"} => client[c].job \in Payload
    /\ failures \in Nat
    /\ pushed \subseteq Jobs
    /\ done \subseteq Jobs
    /\ recovered \subseteq Jobs
    /\ discarded \subseteq Jobs
    /\ dropped \subseteq Jobs
    /\ orphaned \subseteq Jobs
    /\ doubled \subseteq Jobs

Init ==
    /\ now = 1
    /\ zset = {}
    /\ reserved = {}
    /\ failedList = {}
    /\ hashReply \in HashReplies
    /\ client = [c \in Clients |-> Idle]
    /\ failures = 0
    /\ pushed = {}
    /\ done = {}
    /\ recovered = {}
    /\ discarded = {}
    /\ dropped = {}
    /\ orphaned = {}
    /\ doubled = {}

\* The client took its job out of one key and did not write it to the next yet.
InTransit(c) == client[c].pc \in {"requeue", "reserve", "return"}

With(set, id, condition) == IF condition THEN set \cup {id} ELSE set

-----------------------------------------------------------------------------
(* The driver's values.                                                    *)

\* min(5 * 5^attempt, 300) seconds, as the sequence of its values below the cap.
retryDelay(attempt) ==
    IF attempt < Len(Backoff) THEN Backoff[attempt + 1] ELSE BackoffCap

\* Times after MaxTime are not told apart.
At(time) == IF time > MaxTime THEN MaxTime ELSE time

Retried(p) ==
    [id |-> p.id, attempts |-> p.attempts + 1,
     availableAt |-> At(now + retryDelay(p.attempts))]

\* HSET and HDEL of a field of the hash.
WithReservation(p, time) ==
    {r \in reserved : r.id # p.id} \cup
    {[id |-> p.id, attempts |-> p.attempts, availableAt |-> p.availableAt, reservedAt |-> time]}

WithoutReservation(id) == {r \in reserved : r.id # id}

\* ZRANGEBYSCORE key 0 now LIMIT 0 1: an available member with the least score.
First(p) ==
    /\ p \in zset
    /\ p.availableAt <= now
    /\ \A q \in zset : p.availableAt <= q.availableAt

\* Variant: the comparison with the timeout is the wrong way round (EveryJobEnds
\* detects it).
TimedOutInverted(reply) ==
    {[id |-> r.id, attempts |-> r.attempts + 1, availableAt |-> r.availableAt] :
        r \in {s \in reserved : reply = "array" /\ now < s.reservedAt + JobTimeout}}

\* What recoverTimeout() puts back of HGETALL's answer.  A RESP2 connection
\* answers with a flat array.  A RESP3 connection, Bun's, answers with an object:
\* of its Object.entries() the code parses [field, value] pairs instead of
\* values, JSON.parse throws, and nothing is recovered.
TimedOut(reply) ==
    {[id |-> r.id, attempts |-> r.attempts + 1, availableAt |-> r.availableAt] :
        r \in {s \in reserved : reply = "array" /\ now > s.reservedAt + JobTimeout}}

-----------------------------------------------------------------------------
(* The application.                                                        *)

Push(j, delay) ==
    /\ j \notin pushed
    /\ pushed' = pushed \cup {j}
    /\ zset' = zset \cup {[id |-> j, attempts |-> 0, availableAt |-> At(now + delay)]}
    /\ UNCHANGED <<now, hashReply, reserved, failedList, client, failures, done, recovered,
                   discarded, fate>>

FlushFailed ==
    /\ failedList # {}
    /\ failedList' = {}
    /\ discarded' = discarded \cup failedList
    /\ UNCHANGED <<now, hashReply, zset, reserved, client, failures, pushed, done, recovered, fate>>

-----------------------------------------------------------------------------
(* A tick: recoverTimeout(), then up to BatchSize times pop() and          *)
(* processJob().                                                           *)

Goto(c, state) == client' = [client EXCEPT ![c] = state]

Step(c, next) == client' = [client EXCEPT ![c].pc = next]

NextRound(c) ==
    IF client[c].n + 1 < BatchSize THEN Popping(client[c].n + 1) ELSE Idle

\* recoverTimeout()'s loop: the next timed out entry of the answer, or pop().
Recover(c, rest) ==
    \/ rest = {} /\ Goto(c, Popping(0))
    \/ \E p \in rest :
          Goto(c, [pc |-> "unreserve", n |-> 0, job |-> p, rest |-> rest \ {p}, since |-> 0])

\* A tick starts with HGETALL.
StartTick(c) ==
    /\ client[c].pc = "idle"
    /\ Recover(c, TimedOut(hashReply))
    /\ UNCHANGED <<now, hashReply, store, failures, pushed, done, recovered, discarded, fate>>

\* pop() up to ZRANGEBYSCORE.
Range(c) ==
    /\ client[c].pc = "range"
    /\ \/ \E p \in zset :
             /\ First(p)
             /\ Goto(c, [pc |-> "rem", n |-> client[c].n, job |-> p, rest |-> {}, since |-> now])
             /\ doubled' = With(doubled, p.id,
                   \E d \in Clients : client[d].pc = "rem" /\ client[d].job = p)
       \/ /\ \A p \in zset : p.availableAt > now
          /\ Goto(c, Idle)
          /\ UNCHANGED doubled
    /\ UNCHANGED <<now, hashReply, store, failures, pushed, done, recovered, discarded, dropped,
                   orphaned>>

HandlerOk(c) ==
    /\ client[c].pc = "handler"
    /\ done' = done \cup {client[c].job.id}
    /\ Step(c, "complete")
    /\ UNCHANGED <<now, hashReply, store, failures, pushed, recovered, discarded, fate>>

HandlerError(c) ==
    /\ client[c].pc = "handler"
    /\ Step(c, "fail")
    /\ UNCHANGED <<now, hashReply, store, failures, pushed, done, recovered, discarded, fate>>

-----------------------------------------------------------------------------
(* One command: its effect on the store, and what the client does with the *)
(* reply, or with a rejection.                                             *)

\* Variant: complete() leaves the reservation (ReservedHeld detects it).
UnreserveFailed(c) ==
    /\ client[c].pc \in {"unreserve", "complete", "fail"}
    /\ reserved' = IF client[c].pc = "complete" THEN reserved
                   ELSE WithoutReservation(client[c].job.id)
    /\ UNCHANGED <<zset, failedList, recovered>>

\* HDEL of recoverTimeout(), complete() and fail().
Unreserve(c) ==
    /\ client[c].pc \in {"unreserve", "complete", "fail"}
    /\ reserved' = WithoutReservation(client[c].job.id)
    /\ UNCHANGED <<zset, failedList, recovered>>

\* ZADD of recoverTimeout().
Requeue(c) ==
    /\ client[c].pc = "requeue"
    /\ zset' = zset \cup {client[c].job}
    /\ recovered' = recovered \cup {client[c].job.id}
    /\ UNCHANGED <<reserved, failedList>>

\* Variant: ZREM of the payload pop() has stamped with reservedAt removes
\* nothing (NeverMultiplied and IInv detect it).
RemoveStamped(c) ==
    /\ client[c].pc = "rem"
    /\ UNCHANGED <<zset, reserved, failedList, recovered>>

\* ZREM of pop(), whose reply nobody looks at.
Remove(c) ==
    /\ client[c].pc = "rem"
    /\ zset' = zset \ {client[c].job}
    /\ UNCHANGED <<reserved, failedList, recovered>>

\* HSET of pop().
Reserve(c) ==
    /\ client[c].pc = "reserve"
    /\ reserved' = WithReservation(client[c].job, client[c].since)
    /\ UNCHANGED <<zset, failedList, recovered>>

\* Variant: no LPUSH after the last retry (NoJobLost detects it).
ReturnRetries(c) ==
    /\ client[c].pc = "return"
    /\ zset' = IF client[c].job.attempts < MaxRetries
               THEN zset \cup {Retried(client[c].job)} ELSE zset
    /\ UNCHANGED <<reserved, failedList, recovered>>

\* ZADD or LPUSH of fail().
Return(c) ==
    /\ client[c].pc = "return"
    /\ \/ /\ client[c].job.attempts < MaxRetries
          /\ zset' = zset \cup {Retried(client[c].job)}
          /\ UNCHANGED failedList
       \/ /\ client[c].job.attempts >= MaxRetries
          /\ failedList' = failedList \cup {client[c].job.id}
          /\ UNCHANGED zset
    /\ UNCHANGED <<reserved, recovered>>

Effect(c) == Unreserve(c) \/ Requeue(c) \/ Remove(c) \/ Reserve(c) \/ Return(c)

\* The code after the awaited command.
Continue(c) ==
    \/ client[c].pc = "unreserve" /\ Step(c, "requeue")
    \/ client[c].pc = "requeue" /\ Recover(c, client[c].rest)
    \/ client[c].pc = "rem" /\ Step(c, "reserve")
    \/ client[c].pc = "reserve" /\ Step(c, IF c \in Registered THEN "handler" ELSE "fail")
    \/ client[c].pc = "fail" /\ Step(c, "return")
    \/ client[c].pc \in {"complete", "return"} /\ Goto(c, NextRound(c))

\* The code that catches the rejection: recoverTimeout() goes on with the next
\* entry, processJob() calls fail() when complete() rejects, anything else ends
\* the tick.
Catch(c) ==
    \/ client[c].pc \in {"unreserve", "requeue"} /\ Recover(c, client[c].rest)
    \/ client[c].pc = "complete" /\ Step(c, "fail")
    \/ client[c].pc \in {"rem", "reserve", "fail", "return"} /\ Goto(c, Idle)

Command(c) ==
    /\ Effect(c)
    /\ Continue(c)
    /\ orphaned' = IF client[c].pc \in {"unreserve", "complete", "fail"}
                   THEN orphaned \ {client[c].job.id} ELSE orphaned
    /\ UNCHANGED <<now, hashReply, failures, pushed, done, discarded, dropped, doubled>>

-----------------------------------------------------------------------------
(* Failures and the clock.                                                 *)

Fails ==
    /\ failures < MaxFailures
    /\ now <= FailBy
    /\ failures' = failures + 1
    /\ UNCHANGED <<now, hashReply, pushed, done, discarded>>

\* The connection drops: the command was executed, or was not.
Rejected(c) ==
    /\ Fails
    /\ Catch(c)
    /\ LET pc == client[c].pc
           id == client[c].job.id
       IN  /\ \/ /\ Effect(c)
                 /\ dropped' = With(dropped, id, pc \in {"unreserve", "rem", "fail"})
                 /\ orphaned' = With(IF pc \in {"unreserve", "complete", "fail"}
                                     THEN orphaned \ {id} ELSE orphaned,
                                     id, pc = "reserve")
              \/ /\ dropped' = With(dropped, id, pc \in {"requeue", "reserve", "return"})
                 /\ orphaned' = With(orphaned, id, pc = "fail")
                 /\ UNCHANGED <<store, recovered>>
           /\ doubled' = With(doubled, id, pc = "complete")

\* The process dies, and is started again.
Crash(c) ==
    /\ Fails
    /\ client[c].pc # "idle"
    /\ Goto(c, Idle)
    /\ dropped' = With(dropped, client[c].job.id, InTransit(c))
    /\ orphaned' = With(orphaned, client[c].job.id,
                        client[c].pc \in {"handler", "complete", "fail"})
    /\ UNCHANGED <<store, recovered, doubled>>

\* Time passes while a job or a reservation waits for it.
TimePasses ==
    /\ now < MaxTime
    /\ reserved # {} \/ \E p \in zset : p.availableAt > now
    /\ now' = now + 1
    /\ UNCHANGED <<hashReply, store, client, failures, pushed, done, recovered, discarded, fate>>

Worker(c) == StartTick(c) \/ Range(c) \/ HandlerOk(c) \/ HandlerError(c) \/ Command(c)

Next ==
    \/ \E j \in Jobs, delay \in Delays : Push(j, delay)
    \/ FlushFailed
    \/ \E c \in Clients : Worker(c) \/ Rejected(c) \/ Crash(c)
    \/ TimePasses

Spec == Init /\ [][Next]_vars

\* Intervals fire, commands are answered, handlers settle, the clock advances.
FairSpec == Spec /\ (\A c \in Clients : WF_vars(Worker(c))) /\ WF_vars(TimePasses)

-----------------------------------------------------------------------------
(* Properties.                                                             *)

Ids(set) == {p.id : p \in set}

\* The client took the job out of the queue.
Carries(c, j) ==
    /\ client[c].pc \in {"reserve", "handler", "complete", "fail", "return"}
    /\ client[c].job.id = j

\* Whatever clients pop, recover and fail the same job, in whatever order, a
\* pushed job is waiting, reserved, failed, completed, discarded or on its way
\* between two of the keys: only a failure on that way makes it disappear.
NoJobLost ==
    pushed \subseteq Ids(zset) \cup Ids(reserved) \cup failedList \cup done \cup discarded
                     \cup dropped \cup {client[c].job.id : c \in {d \in Clients : InTransit(d)}}

\* A reservation belongs to a client that will delete it, unless that client
\* failed: no order of commands of live clients leaves one behind.
ReservedHeld ==
    \A r \in reserved :
       \/ r.id \in orphaned
       \/ \E c \in Clients :
             client[c].pc \in {"handler", "complete", "fail"} /\ client[c].job.id = r.id

\* A job multiplies in three ways only: two clients read it before one of them
\* removes it, a timeout hands it out again, or complete() rejects after the
\* handler resolved.  Any other job exists once: in the queue, or carried by one
\* client, or ended, whatever fails.
NeverMultiplied ==
    \A j \in Jobs \ (recovered \cup doubled) :
       /\ \A p, q \in zset : p.id = j /\ q.id = j => p = q
       /\ \A c, d \in Clients : Carries(c, j) /\ Carries(d, j) => c = d
       /\ j \in Ids(zset) => j \notin done \cup failedList
       /\ \A c \in Clients : Carries(c, j) =>
             /\ j \notin Ids(zset) \cup failedList
             /\ j \in done => client[c].pc = "complete"
       /\ ~(j \in done /\ j \in failedList)

\* docs/user-guide/queue.md, Retry Mechanism: "Timed-out jobs auto-recover via
\* `recoverTimeout`".  Every pushed job ends, however often its handler throws and
\* whichever processes die; only where HGETALL is answered with an object, which
\* recoverTimeout() cannot read, may a job whose reservation lost its client stay
\* reserved for ever.
EveryJobEnds ==
    \A j \in Jobs :
       j \in pushed ~> \/ j \in done \cup failedList \cup discarded \cup dropped
                       \/ hashReply = "object" /\ [](j \in orphaned)

-----------------------------------------------------------------------------
(* The inductive invariant behind NoJobLost, ReservedHeld, NeverMultiplied. *)

\* Nothing is known of an id before it is pushed.
OnlyPushed ==
    /\ Ids(zset) \cup Ids(reserved) \cup failedList \cup done \subseteq pushed
    /\ \A c \in Clients :
          /\ client[c].pc \notin {"idle", "range"} => client[c].job.id \in pushed
          /\ Ids(client[c].rest) \subseteq pushed

\* A job read by pop() and not yet removed is in the queue, and read once.
ReadOnce ==
    \A c \in Clients :
       client[c].pc = "rem" /\ client[c].job.id \notin recovered \cup doubled =>
          /\ client[c].job \in zset
          /\ \A d \in Clients :
                client[d].pc = "rem" /\ client[d].job.id = client[c].job.id => c = d

\* complete() is called for a job whose handler resolved.
CompletesDone == \A c \in Clients : client[c].pc = "complete" => client[c].job.id \in done

IInv ==
    /\ TypeOK
    /\ NoJobLost
    /\ ReservedHeld
    /\ NeverMultiplied
    /\ OnlyPushed
    /\ ReadOnce
    /\ CompletesDone

-----------------------------------------------------------------------------
\* docs/user-guide/queue.md, RedisQueueDriver: "Multi-worker support in
\* distributed environments" and "Reserved jobs managed via Hash": a job that
\* is reserved and not timed out is not run by a second worker.
OneWorkerPerJob ==
    \A c, d \in Clients :
       /\ client[c].pc = "handler"
       /\ client[d].pc = "handler"
       /\ client[c].job = client[d].job
       => c = d \/ client[c].job.id \in recovered
=============================================================================
