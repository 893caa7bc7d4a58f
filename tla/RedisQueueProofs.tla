-------------------------- MODULE RedisQueueProofs --------------------------
(***************************************************************************)
(* Proofs about RedisQueue, for every number of jobs and clients, every    *)
(* timeout, batch size and number of failures.                             *)
(***************************************************************************)
EXTENDS RedisQueue, TLAPS

(***************************************************************************)
(* What a client does next: the states its code can go to from a command.  *)
(***************************************************************************)

\* The client goes on with the same job and the same entries left to recover.
Keeps(c, s) == s.job = client[c].job /\ s.rest = client[c].rest

\* recoverTimeout()'s loop goes on with entries of rest, or is over.
Recovers(s, rest) ==
    /\ s.pc \in {"range", "unreserve"}
    /\ s.rest \subseteq rest
    /\ s.pc = "unreserve" => s.job \in rest

\* The round or the tick is over.
IsOver(s) == s.pc \in {"idle", "range"} /\ s.rest = {}

Continued(c, s) ==
    \/ client[c].pc = "unreserve" /\ s.pc = "requeue" /\ Keeps(c, s)
    \/ client[c].pc = "requeue" /\ Recovers(s, client[c].rest)
    \/ client[c].pc = "rem" /\ s.pc = "reserve" /\ Keeps(c, s)
    \/ client[c].pc = "reserve" /\ s.pc \in {"handler", "fail"} /\ Keeps(c, s)
    \/ client[c].pc = "fail" /\ s.pc = "return" /\ Keeps(c, s)
    \/ client[c].pc \in {"complete", "return"} /\ IsOver(s)

Caught(c, s) ==
    \/ client[c].pc \in {"unreserve", "requeue"} /\ Recovers(s, client[c].rest)
    \/ client[c].pc = "complete" /\ s.pc = "fail" /\ Keeps(c, s)
    \/ client[c].pc \in {"rem", "reserve", "fail", "return"} /\ IsOver(s)

Moves(c, s) == s \in ClientState /\ client' = [client EXCEPT ![c] = s]

\* A job is there in every state but those between two jobs.
HasJob(s) == s.pc \notin {"idle", "range"} => s.job \in Payload

\* Idle and Popping are states without a job.
LEMMA IsOverTypes ==
    ASSUME RedisAssumption
    PROVE  /\ Idle \in ClientState /\ IsOver(Idle)
           /\ \A n \in 0 .. BatchSize - 1 :
                 Popping(n) \in ClientState /\ IsOver(Popping(n))
  BY DEF RedisAssumption, Idle, Popping, ClientState, IsOver

\* A step of a client only touches its pc.
LEMMA StepMoves ==
    ASSUME TypeOK, NEW c \in Clients, NEW next, Step(c, next),
           next \in {"requeue", "reserve", "handler", "complete", "fail", "return"}
    PROVE  \E s \in ClientState : Moves(c, s) /\ s.pc = next /\ Keeps(c, s)
<1> DEFINE s == [client[c] EXCEPT !.pc = next]
<1>1. client[c] \in ClientState /\ client \in [Clients -> ClientState]
  BY DEF TypeOK
<1>2. s \in ClientState /\ s.pc = next /\ Keeps(c, s)
  BY <1>1 DEF ClientState, Keeps
<1>3. client' = [client EXCEPT ![c] = s]
  BY <1>1 DEF Step
<1>. QED
  BY <1>2, <1>3 DEF Moves

\* recoverTimeout() handles the entries of its answer one by one.
LEMMA RecoverMoves ==
    ASSUME RedisAssumption, NEW c \in Clients, NEW rest, rest \subseteq Payload,
           Recover(c, rest)
    PROVE  \E s \in ClientState : Moves(c, s) /\ Recovers(s, rest) /\ HasJob(s)
<1>1. CASE rest = {} /\ Goto(c, Popping(0))
  <2>1. 0 \in 0 .. BatchSize - 1
    BY DEF RedisAssumption
  <2>2. Popping(0) \in ClientState /\ Recovers(Popping(0), rest) /\ HasJob(Popping(0))
    BY <2>1, IsOverTypes DEF Popping, Recovers, HasJob
  <2>. QED
    BY <1>1, <2>2 DEF Goto, Moves
<1>2. ASSUME NEW p \in rest,
             Goto(c, [pc |-> "unreserve", n |-> 0, job |-> p, rest |-> rest \ {p}, since |-> 0])
      PROVE  \E s \in ClientState : Moves(c, s) /\ Recovers(s, rest) /\ HasJob(s)
  <2> DEFINE s == [pc |-> "unreserve", n |-> 0, job |-> p, rest |-> rest \ {p}, since |-> 0]
  <2>1. s \in ClientState
    BY DEF RedisAssumption, ClientState
  <2>2. Recovers(s, rest) /\ HasJob(s)
    BY DEF Recovers, HasJob
  <2>. QED
    BY <1>2, <2>1, <2>2 DEF Goto, Moves
<1>. QED
  BY <1>1, <1>2 DEF Recover

\* NextRound ends a round.
LEMMA NextRoundOver ==
    ASSUME RedisAssumption, TypeOK, NEW c \in Clients
    PROVE  NextRound(c) \in ClientState /\ IsOver(NextRound(c))
<1>1. client[c].n \in 0 .. BatchSize - 1
  BY DEF TypeOK, ClientState
<1>2. client[c].n + 1 < BatchSize => client[c].n + 1 \in 0 .. BatchSize - 1
  BY <1>1 DEF RedisAssumption
<1>. QED
  BY <1>2, IsOverTypes DEF NextRound

\* Continue: the code after an awaited command.
LEMMA ContinueMoves ==
    ASSUME RedisAssumption, TypeOK, NEW c \in Clients, Continue(c)
    PROVE  \E s \in ClientState : Moves(c, s) /\ Continued(c, s) /\ HasJob(s)
<1>1. client[c].rest \subseteq Payload /\ HasJob(client[c])
  BY DEF TypeOK, ClientState, HasJob
<1>2. ASSUME NEW next \in {"requeue", "reserve", "handler", "fail", "return"}, Step(c, next),
             client[c].pc \notin {"idle", "range"}
      PROVE  \E s \in ClientState : Moves(c, s) /\ s.pc = next /\ Keeps(c, s) /\ HasJob(s)
  BY <1>1, <1>2, StepMoves DEF Keeps, HasJob
<1>3. CASE client[c].pc = "unreserve" /\ Step(c, "requeue")
  BY <1>2, <1>3 DEF Continued
<1>4. CASE client[c].pc = "requeue" /\ Recover(c, client[c].rest)
  BY <1>1, <1>4, RecoverMoves DEF Continued
<1>5. CASE client[c].pc = "rem" /\ Step(c, "reserve")
  BY <1>2, <1>5 DEF Continued
<1>6. CASE client[c].pc = "reserve" /\ Step(c, IF c \in Registered THEN "handler" ELSE "fail")
  <2> DEFINE next == IF c \in Registered THEN "handler" ELSE "fail"
  <2>1. next \in {"handler", "fail"}
    OBVIOUS
  <2>2. \E s \in ClientState : Moves(c, s) /\ s.pc = next /\ Keeps(c, s) /\ HasJob(s)
    BY <1>2, <1>6, <2>1
  <2>. QED
    BY <1>6, <2>1, <2>2 DEF Continued
<1>7. CASE client[c].pc = "fail" /\ Step(c, "return")
  BY <1>2, <1>7 DEF Continued
<1>8. CASE client[c].pc \in {"complete", "return"} /\ Goto(c, NextRound(c))
  BY <1>8, NextRoundOver DEF Goto, Moves, Continued, IsOver, HasJob
<1>. QED
  BY <1>3, <1>4, <1>5, <1>6, <1>7, <1>8 DEF Continue

\* Catch: the code that catches a rejected command.
LEMMA CatchMoves ==
    ASSUME RedisAssumption, TypeOK, NEW c \in Clients, Catch(c)
    PROVE  \E s \in ClientState : Moves(c, s) /\ Caught(c, s) /\ HasJob(s)
<1>1. client[c].rest \subseteq Payload /\ HasJob(client[c])
  BY DEF TypeOK, ClientState, HasJob
<1>2. CASE client[c].pc \in {"unreserve", "requeue"} /\ Recover(c, client[c].rest)
  BY <1>1, <1>2, RecoverMoves DEF Caught
<1>3. CASE client[c].pc = "complete" /\ Step(c, "fail")
  BY <1>1, <1>3, StepMoves DEF Caught, Keeps, HasJob
<1>4. CASE client[c].pc \in {"rem", "reserve", "fail", "return"} /\ Goto(c, Idle)
  BY <1>4, IsOverTypes DEF Goto, Moves, Caught, IsOver, HasJob
<1>. QED
  BY <1>2, <1>3, <1>4 DEF Catch

\* Only the client that takes the step changes its state.
LEMMA MovesLemma ==
    ASSUME TypeOK, NEW c \in Clients, NEW s, Moves(c, s)
    PROVE  /\ client'[c] = s
           /\ \A d \in Clients \ {c} : client'[d] = client[d]
           /\ client' \in [Clients -> ClientState]
           /\ HasJob(s) => \A d \in Clients : HasJob(client'[d])
<1>1. client \in [Clients -> ClientState] /\ \A d \in Clients : HasJob(client[d])
  BY DEF TypeOK, HasJob
<1>2. client' = [client EXCEPT ![c] = s] /\ s \in ClientState
  BY DEF Moves
<1>. QED
  BY <1>1, <1>2

\* The ids of a set with one entry more.
LEMMA IdsAdd ==
    ASSUME NEW set, NEW p
    PROVE  Ids(set \cup {p}) = Ids(set) \cup {p.id}
  BY DEF Ids

(***************************************************************************)
(* Types.                                                                  *)
(***************************************************************************)

\* The times and delays that payloads carry are naturals, capped or not.
LEMMA TimesNat ==
    ASSUME RedisAssumption, now \in Nat
    PROVE  /\ \A time \in Nat : At(time) \in Nat
           /\ \A p \in Payload : Retried(p) \in Payload
           /\ \A delay \in Delays : At(now + delay) \in Nat
<1>1. Len(Backoff) \in Nat /\ \A i \in 1 .. Len(Backoff) : Backoff[i] \in Nat
  BY DEF RedisAssumption
<1>2. \A attempt \in Nat : retryDelay(attempt) \in Nat
  BY <1>1 DEF retryDelay, RedisAssumption
<1>3. \A time \in Nat : At(time) \in Nat
  BY DEF At, RedisAssumption
<1>4. \A p \in Payload : now + retryDelay(p.attempts) \in Nat
  BY SMTT(30), <1>2 DEF Payload
<1>5. ASSUME NEW p \in Payload
      PROVE  Retried(p) \in Payload
  <2>1. p.id \in Jobs /\ p.attempts + 1 \in Nat
    BY DEF Payload
  <2>2. At(now + retryDelay(p.attempts)) \in Nat
    BY <1>3, <1>4
  <2>. QED
    BY <2>1, <2>2 DEF Retried, Payload
<1>. QED
  BY <1>3, <1>5 DEF RedisAssumption

\* A command leaves payloads in the sorted set and reservations in the hash.
LEMMA EffectTypes ==
    ASSUME RedisAssumption, TypeOK, NEW c \in Clients, Effect(c)
    PROVE  /\ zset' \subseteq Payload
           /\ reserved' \subseteq Reservation
           /\ failedList' \subseteq Jobs
           /\ recovered' \subseteq Jobs
           /\ client[c].job \in Payload
<1> USE DEF TypeOK
<1>1. client[c].pc \notin {"idle", "range"}
  BY DEF Effect, Unreserve, Requeue, Remove, Reserve, Return
<1>2. client[c].job \in Payload /\ client[c].job.id \in Jobs
  BY <1>1 DEF Payload
<1>3. CASE Unreserve(c)
  BY <1>2, <1>3 DEF Unreserve, WithoutReservation
<1>4. CASE Requeue(c)
  BY <1>2, <1>4 DEF Requeue
<1>5. CASE Remove(c)
  BY <1>2, <1>5 DEF Remove
<1>6. CASE Reserve(c)
  <2>1. client[c].since \in Nat
    BY DEF ClientState
  <2>2. WithReservation(client[c].job, client[c].since) \subseteq Reservation
    BY <1>2, <2>1 DEF WithReservation, Reservation, Payload
  <2>. QED
    BY <1>2, <1>6, <2>2 DEF Reserve
<1>7. CASE Return(c)
  BY <1>2, <1>7, TimesNat DEF Return
<1>. QED
  BY <1>2, <1>3, <1>4, <1>5, <1>6, <1>7 DEF Effect

\* What StartTick puts back are payloads made of reservations.
LEMMA TimedOutLemma ==
    ASSUME TypeOK
    PROVE  \A reply : /\ TimedOut(reply) \subseteq Payload
                      /\ Ids(TimedOut(reply)) \subseteq Ids(reserved)
<1>1. \A r \in reserved : r.id \in Jobs /\ r.attempts + 1 \in Nat /\ r.availableAt \in Nat
  BY DEF TypeOK, Reservation
<1>. QED
  BY <1>1 DEF TimedOut, Payload, Ids

\* A command is rejected after it was executed, or without being executed.
RejectedAfter(c) ==
    /\ Effect(c)
    /\ dropped' = With(dropped, client[c].job.id, client[c].pc \in {"unreserve", "rem", "fail"})
    /\ orphaned' = With(IF client[c].pc \in {"unreserve", "complete", "fail"}
                        THEN orphaned \ {client[c].job.id} ELSE orphaned,
                        client[c].job.id, client[c].pc = "reserve")

RejectedBefore(c) ==
    /\ UNCHANGED <<store, recovered>>
    /\ dropped' = With(dropped, client[c].job.id, client[c].pc \in {"requeue", "reserve", "return"})
    /\ orphaned' = With(orphaned, client[c].job.id, client[c].pc = "fail")

\* A rejected command was executed or not; either way the catch clause records
\* what the client was about to store.
LEMMA RejectedCases ==
    ASSUME NEW c \in Clients, Rejected(c)
    PROVE  /\ RejectedAfter(c) \/ RejectedBefore(c)
           /\ doubled' = With(doubled, client[c].job.id, client[c].pc = "complete")
  BY DEF Rejected, RejectedAfter, RejectedBefore

\* The ways a step moves a client to the state s.
Stepped(c, s) ==
    \/ StartTick(c) /\ client[c].pc = "idle" /\ Recovers(s, TimedOut(hashReply))
    \/ Range(c) /\ client[c].pc = "range" /\ IsOver(s) /\ UNCHANGED doubled
    \/ /\ Range(c) /\ client[c].pc = "range" /\ s.pc = "rem" /\ s.job \in zset /\ s.rest = {}
       /\ doubled' = With(doubled, s.job.id,
              \E d \in Clients : client[d].pc = "rem" /\ client[d].job = s.job)
    \/ HandlerOk(c) /\ client[c].pc = "handler" /\ s.pc = "complete" /\ Keeps(c, s)
    \/ HandlerError(c) /\ client[c].pc = "handler" /\ s.pc = "fail" /\ Keeps(c, s)
    \/ Command(c) /\ Continued(c, s)
    \/ Rejected(c) /\ RejectedAfter(c) /\ Caught(c, s)
    \/ Rejected(c) /\ RejectedBefore(c) /\ Caught(c, s)
    \/ Crash(c) /\ IsOver(s)

\* Every step of a client is one of these.
LEMMA WorkerMoves ==
    ASSUME RedisAssumption, TypeOK, NEW c \in Clients, Worker(c) \/ Rejected(c) \/ Crash(c)
    PROVE  \E s \in ClientState : Moves(c, s) /\ HasJob(s) /\ Stepped(c, s)
<1>1. CASE StartTick(c)
  <2>1. client[c].pc = "idle" /\ Recover(c, TimedOut(hashReply))
    BY <1>1 DEF StartTick
  <2>. QED
    BY <1>1, <2>1, TimedOutLemma, RecoverMoves DEF Stepped
<1>2. CASE Range(c)
  <2>1. CASE Goto(c, Idle) /\ UNCHANGED doubled
    BY <1>2, <2>1, IsOverTypes DEF Range, Goto, Moves, HasJob, IsOver, Stepped
  <2>2. ASSUME NEW p \in zset,
               Goto(c, [pc |-> "rem", n |-> client[c].n, job |-> p, rest |-> {}, since |-> now]),
               doubled' = With(doubled, p.id,
                   \E d \in Clients : client[d].pc = "rem" /\ client[d].job = p)
        PROVE  \E s \in ClientState : Moves(c, s) /\ HasJob(s) /\ Stepped(c, s)
    <3> DEFINE s == [pc |-> "rem", n |-> client[c].n, job |-> p, rest |-> {}, since |-> now]
    <3>1. s \in ClientState /\ HasJob(s)
      BY DEF TypeOK, ClientState, HasJob
    <3>2. client[c].pc = "range"
      BY <1>2 DEF Range
    <3>3. Stepped(c, s)
      BY <1>2, <2>2, <3>2 DEF Stepped
    <3>. QED
      BY <2>2, <3>1, <3>3 DEF Goto, Moves
  <2>. QED
    BY <1>2, <2>1, <2>2 DEF Range
<1>3. CASE HandlerOk(c)
  <2>1. \E s \in ClientState : Moves(c, s) /\ s.pc = "complete" /\ Keeps(c, s)
    BY <1>3, StepMoves DEF HandlerOk
  <2>. QED
    BY <1>3, <2>1 DEF HandlerOk, Stepped, Keeps, HasJob, TypeOK
<1>4. CASE HandlerError(c)
  <2>1. \E s \in ClientState : Moves(c, s) /\ s.pc = "fail" /\ Keeps(c, s)
    BY <1>4, StepMoves DEF HandlerError
  <2>. QED
    BY <1>4, <2>1 DEF HandlerError, Stepped, Keeps, HasJob, TypeOK
<1>5. CASE Command(c)
  BY <1>5, ContinueMoves DEF Command, Stepped
<1>6. CASE Rejected(c)
  BY <1>6, CatchMoves, RejectedCases DEF Rejected, Stepped
<1>7. CASE Crash(c)
  BY <1>7, IsOverTypes DEF Crash, Goto, Moves, HasJob, IsOver, Stepped
<1>. QED
  BY <1>1, <1>2, <1>3, <1>4, <1>5, <1>6, <1>7 DEF Worker

\* No step leaves the types.
LEMMA TypeStep ==
    ASSUME RedisAssumption, TypeOK, [Next]_vars
    PROVE  TypeOK'
<1>1. ASSUME NEW j \in Jobs, NEW delay \in Delays, Push(j, delay)
      PROVE  TypeOK'
  <2>1. [id |-> j, attempts |-> 0, availableAt |-> At(now + delay)] \in Payload
    BY TimesNat DEF TypeOK, Payload
  <2>. QED
    BY <1>1, <2>1 DEF Push, TypeOK, fate
<1>2. CASE FlushFailed
  BY <1>2 DEF FlushFailed, TypeOK, fate
<1>3. CASE TimePasses
  BY <1>3 DEF TimePasses, TypeOK, fate, store
<1>4. ASSUME NEW c \in Clients, Worker(c) \/ Rejected(c) \/ Crash(c)
      PROVE  TypeOK'
  <2>1. /\ client' \in [Clients -> ClientState]
        /\ \A d \in Clients : client'[d].pc \notin {"idle", "range"} => client'[d].job \in Payload
    BY <1>4, WorkerMoves, MovesLemma DEF HasJob
  <2>2. client[c].pc \notin {"idle", "range"} => client[c].job.id \in Jobs
    BY DEF TypeOK, Payload
  <2>3. /\ now' \in Nat
        /\ zset' \subseteq Payload
        /\ reserved' \subseteq Reservation
        /\ failedList' \subseteq Jobs
        /\ hashReply' \in HashReplies
        /\ failures' \in Nat
        /\ pushed' \subseteq Jobs
        /\ done' \subseteq Jobs
        /\ recovered' \subseteq Jobs
        /\ discarded' \subseteq Jobs
        /\ dropped' \subseteq Jobs
        /\ orphaned' \subseteq Jobs
        /\ doubled' \subseteq Jobs
    <3> USE DEF TypeOK, fate, store, With
    <3>1. CASE StartTick(c)
      BY <3>1 DEF StartTick
    <3>2. CASE Range(c)
      BY <3>2 DEF Range, Payload
    <3>3. CASE HandlerOk(c) \/ HandlerError(c)
      BY <3>3, <2>2 DEF HandlerOk, HandlerError
    <3>4. CASE Command(c)
      BY <3>4, EffectTypes DEF Command
    <3>5. CASE Rejected(c)
      <4>1. client[c].job.id \in Jobs
        BY <3>5, <2>2 DEF Rejected, Catch
      <4>2. dropped' \subseteq Jobs /\ orphaned' \subseteq Jobs /\ doubled' \subseteq Jobs
        BY <3>5, <4>1 DEF Rejected
      <4>3. CASE Effect(c)
        BY <3>5, <4>2, <4>3, EffectTypes DEF Rejected, Fails
      <4>4. CASE UNCHANGED <<store, recovered>>
        BY <3>5, <4>2, <4>4 DEF Rejected, Fails
      <4>. QED
        BY <3>5, <4>3, <4>4 DEF Rejected
    <3>6. CASE Crash(c)
      BY <3>6, <2>2 DEF Crash, Fails, InTransit
    <3>. QED
      BY <1>4, <3>1, <3>2, <3>3, <3>4, <3>5, <3>6 DEF Worker
  <2>. QED
    BY <2>1, <2>3 DEF TypeOK
<1>5. CASE UNCHANGED vars
  BY <1>5 DEF vars, TypeOK, fate, store
<1>. QED
  BY <1>1, <1>2, <1>3, <1>4, <1>5 DEF Next

(***************************************************************************)
(* One lemma per part of the inductive invariant.                          *)
(***************************************************************************)

\* A command of c that is executed, and what c knows of the reply.
Executed(c) == Effect(c) /\ (Command(c) \/ Rejected(c))

\* Steps that leave the store, recovered and done as they are.
Stays == UNCHANGED <<store, recovered, done, pushed, discarded>>

\* Only executed commands, and the handler's success, change what is known of jobs.
LEMMA StoreChanges ==
    ASSUME NEW c \in Clients, Worker(c) \/ Rejected(c) \/ Crash(c)
    PROVE  \/ Stays
           \/ HandlerOk(c) /\ UNCHANGED <<store, recovered, pushed, discarded>>
           \/ Executed(c) /\ UNCHANGED <<done, pushed, discarded>>
<1>1. CASE StartTick(c) \/ Range(c) \/ HandlerError(c) \/ Crash(c)
  BY <1>1 DEF StartTick, Range, HandlerError, Crash, Fails, Stays, store
<1>2. CASE HandlerOk(c)
  BY <1>2 DEF HandlerOk
<1>3. CASE Command(c)
  BY <1>3 DEF Command, Executed
<1>4. CASE Rejected(c)
  BY <1>4 DEF Rejected, Executed, Fails, Stays, store
<1>. QED
  BY <1>1, <1>2, <1>3, <1>4 DEF Worker

\* Nothing is known of an id before it is pushed.
LEMMA OnlyPushedStep ==
    ASSUME RedisAssumption, TypeOK, OnlyPushed, [Next]_vars
    PROVE  OnlyPushed'
<1>1. ASSUME NEW j \in Jobs, NEW delay \in Delays, Push(j, delay)
      PROVE  OnlyPushed'
  <2>1. Ids(zset') = Ids(zset) \cup {j}
    <3> DEFINE p == [id |-> j, attempts |-> 0, availableAt |-> At(now + delay)]
    <3>1. zset' = zset \cup {p} /\ p.id = j
      BY <1>1 DEF Push
    <3>. HIDE DEF p
    <3>. QED
      BY <3>1, IdsAdd
  <2>2. Ids(zset') \cup Ids(reserved') \cup failedList' \cup done' \subseteq pushed'
    BY <1>1, <2>1 DEF Push, OnlyPushed
  <2>3. pushed \subseteq pushed' /\ client' = client
    BY <1>1 DEF Push
  <2>. QED
    BY <2>2, <2>3 DEF OnlyPushed, Ids
<1>2. CASE FlushFailed
  BY <1>2 DEF FlushFailed, OnlyPushed, Ids
<1>3. CASE TimePasses \/ UNCHANGED vars
  BY <1>3 DEF TimePasses, vars, store, OnlyPushed, Ids
<1>4. ASSUME NEW c \in Clients, Worker(c) \/ Rejected(c) \/ Crash(c)
      PROVE  OnlyPushed'
  <2>1. PICK s \in ClientState : Moves(c, s) /\ HasJob(s) /\ Stepped(c, s)
    BY <1>4, WorkerMoves
  <2>2. client'[c] = s /\ \A d \in Clients \ {c} : client'[d] = client[d]
    BY <2>1, MovesLemma
  <2>3. client[c].pc \notin {"idle", "range"} => client[c].job.id \in pushed
    BY DEF OnlyPushed
  <2>4. pushed' = pushed
    BY <1>4, StoreChanges DEF Stays
  <2>5. (s.pc \notin {"idle", "range"} => s.job.id \in pushed) /\ Ids(s.rest) \subseteq pushed
    <3>1. \A rest : Ids(rest) \subseteq pushed /\ Recovers(s, rest) =>
             (s.pc \notin {"idle", "range"} => s.job.id \in pushed) /\ Ids(s.rest) \subseteq pushed
      BY DEF Recovers, Ids
    <3>2. (\A reply : Ids(TimedOut(reply)) \subseteq pushed) /\ Ids(client[c].rest) \subseteq pushed
      BY TimedOutLemma DEF OnlyPushed
    <3>3. client[c].pc \notin {"idle", "range"} /\ Keeps(c, s) =>
             s.job.id \in pushed /\ Ids(s.rest) \subseteq pushed
      BY <2>3, <3>2 DEF Keeps
    <3>4. IsOver(s) => s.pc \in {"idle", "range"} /\ Ids(s.rest) \subseteq pushed
      BY DEF IsOver, Ids
    <3>5. CASE Continued(c, s) \/ Caught(c, s)
      BY <3>1, <3>2, <3>3, <3>4, <3>5 DEF Continued, Caught
    <3>6. s.job \in zset /\ s.rest = {} => s.job.id \in pushed /\ Ids(s.rest) \subseteq pushed
      BY DEF OnlyPushed, Ids
    <3>. QED
      BY <2>1, <3>1, <3>2, <3>3, <3>4, <3>5, <3>6 DEF Stepped
  <2>6. Ids(zset') \cup Ids(reserved') \cup failedList' \cup done' \subseteq pushed
    <3>1. CASE Stays
      BY <3>1 DEF Stays, store, OnlyPushed
    <3>2. CASE HandlerOk(c)
      BY <2>3, <3>2 DEF HandlerOk, store, OnlyPushed
    <3>3. ASSUME Effect(c), UNCHANGED done
          PROVE  Ids(zset') \cup Ids(reserved') \cup failedList' \cup done' \subseteq pushed
      <4>1. client[c].job.id \in pushed
        BY <2>3, <3>3 DEF Effect, Unreserve, Requeue, Remove, Reserve, Return
      <4>2. CASE Unreserve(c)
        BY <3>3, <4>1, <4>2 DEF Unreserve, WithoutReservation, OnlyPushed, Ids
      <4>3. CASE Requeue(c)
        BY <3>3, <4>1, <4>3 DEF Requeue, OnlyPushed, Ids
      <4>4. CASE Remove(c)
        BY <3>3, <4>1, <4>4 DEF Remove, OnlyPushed, Ids
      <4>5. CASE Reserve(c)
        <5>1. Ids(reserved') \subseteq Ids(reserved) \cup {client[c].job.id}
          BY <4>5 DEF Reserve, WithReservation, Ids
        <5>. QED
          BY <3>3, <4>1, <4>5, <5>1 DEF Reserve, OnlyPushed
      <4>6. CASE Return(c)
        <5>1. Ids(zset') \subseteq Ids(zset) \cup {client[c].job.id}
          BY <4>6 DEF Return, Retried, Ids
        <5>. QED
          BY <3>3, <4>1, <4>6, <5>1 DEF Return, OnlyPushed
      <4>. QED
        BY <3>3, <4>2, <4>3, <4>4, <4>5, <4>6 DEF Effect
    <3>. QED
      BY <1>4, <3>1, <3>2, <3>3, StoreChanges DEF Executed
  <2>7. ASSUME NEW d \in Clients
        PROVE  /\ client'[d].pc \notin {"idle", "range"} => client'[d].job.id \in pushed
               /\ Ids(client'[d].rest) \subseteq pushed
    BY <2>2, <2>5 DEF OnlyPushed
  <2>. QED
    BY <2>4, <2>6, <2>7 DEF OnlyPushed, Ids
<1>. QED
  BY <1>1, <1>2, <1>3, <1>4 DEF Next

\* complete() runs after the handler resolved.
LEMMA CompletesDoneStep ==
    ASSUME RedisAssumption, TypeOK, CompletesDone, [Next]_vars
    PROVE  CompletesDone'
<1>1. CASE FlushFailed \/ TimePasses \/ UNCHANGED vars \/ \E j \in Jobs, delay \in Delays : Push(j, delay)
  BY <1>1 DEF FlushFailed, TimePasses, vars, Push, CompletesDone
<1>2. ASSUME NEW c \in Clients, Worker(c) \/ Rejected(c) \/ Crash(c)
      PROVE  CompletesDone'
  <2>1. PICK s \in ClientState : Moves(c, s) /\ HasJob(s) /\ Stepped(c, s)
    BY <1>2, WorkerMoves
  <2>2. client'[c] = s /\ \A d \in Clients \ {c} : client'[d] = client[d]
    BY <2>1, MovesLemma
  <2>3. done \subseteq done'
    BY <1>2, StoreChanges DEF Stays, HandlerOk
  <2>4. s.pc = "complete" => s.job.id \in done'
    <3>1. s.pc = "complete" => HandlerOk(c) /\ Keeps(c, s)
      BY <2>1 DEF Stepped, Recovers, IsOver, Continued, Caught
    <3>. QED
      BY <3>1 DEF HandlerOk, Keeps
  <2>. QED
    BY <2>2, <2>3, <2>4 DEF CompletesDone
<1>. QED
  BY <1>1, <1>2 DEF Next

\* The client c will delete the reservation of j.
Deletes(c, j) == client[c].pc \in {"handler", "complete", "fail"} /\ client[c].job.id = j

\* A reservation loses its client only when that client fails.
LEMMA ReservedHeldStep ==
    ASSUME RedisAssumption, TypeOK, ReservedHeld, [Next]_vars
    PROVE  ReservedHeld'
<1>1. CASE \/ FlushFailed \/ TimePasses \/ UNCHANGED vars
           \/ \E j \in Jobs, delay \in Delays : Push(j, delay)
  BY <1>1 DEF FlushFailed, TimePasses, vars, store, fate, Push, ReservedHeld
<1>2. ASSUME NEW c \in Clients, Worker(c) \/ Rejected(c) \/ Crash(c)
      PROVE  ReservedHeld'
  <2>1. PICK s \in ClientState : Moves(c, s) /\ HasJob(s) /\ Stepped(c, s)
    BY <1>2, WorkerMoves
  <2>2. client'[c] = s /\ \A d \in Clients \ {c} : client'[d] = client[d]
    BY <2>1, MovesLemma
  <2> SUFFICES ASSUME NEW r \in reserved'
               PROVE  r.id \in orphaned' \/ \E d \in Clients : Deletes(d, r.id)'
    BY DEF ReservedHeld, Deletes
  <2>3. ASSUME r \in reserved, r.id \notin orphaned,
               Deletes(c, r.id) => r.id \in orphaned' \/ Deletes(c, r.id)'
        PROVE  r.id \in orphaned' \/ \E d \in Clients : Deletes(d, r.id)'
    BY <2>2, <2>3 DEF ReservedHeld, Deletes
  <2>4. CASE (StartTick(c) /\ client[c].pc = "idle") \/ (Range(c) /\ client[c].pc = "range")
    <3>1. r \in reserved /\ orphaned' = orphaned
      BY <2>4 DEF StartTick, Range, store, fate
    <3>. QED
      BY <2>3, <2>4, <3>1 DEF Deletes
  <2>5. CASE /\ HandlerOk(c) \/ HandlerError(c)
             /\ s.pc \in {"complete", "fail"} /\ Keeps(c, s)
    <3>1. r \in reserved /\ orphaned' = orphaned
      BY <2>5 DEF HandlerOk, HandlerError, store, fate
    <3>. QED
      BY <2>2, <2>3, <2>5, <3>1 DEF Deletes, Keeps
  <2>6. CASE Crash(c)
    <3>1. r \in reserved /\ orphaned \subseteq orphaned'
      BY <2>6 DEF Crash, store, With
    <3>2. Deletes(c, r.id) => r.id \in orphaned'
      BY <2>6 DEF Crash, Deletes, With
    <3>. QED
      BY <2>3, <3>1, <3>2
  <2>7. ASSUME Unreserve(c), orphaned' = orphaned \ {client[c].job.id}
        PROVE  r.id \in orphaned' \/ \E d \in Clients : Deletes(d, r.id)'
    <3>1. r \in reserved /\ r.id # client[c].job.id
      BY <2>7 DEF Unreserve, WithoutReservation
    <3>. QED
      BY <2>3, <2>7, <3>1 DEF Deletes
  <2>8. ASSUME client[c].pc \notin {"handler", "complete", "fail"}, reserved' = reserved,
               orphaned \subseteq orphaned'
        PROVE  r.id \in orphaned' \/ \E d \in Clients : Deletes(d, r.id)'
    BY <2>3, <2>8 DEF Deletes
  <2>9. ASSUME Reserve(c), orphaned \subseteq orphaned',
               client[c].job.id \in orphaned' \/ (s.pc \in {"handler", "fail"} /\ Keeps(c, s))
        PROVE  r.id \in orphaned' \/ \E d \in Clients : Deletes(d, r.id)'
    <3>1. r \in reserved \/ r.id = client[c].job.id
      BY <2>9 DEF Reserve, WithReservation
    <3>2. CASE r.id = client[c].job.id
      BY <2>2, <2>9, <3>2 DEF Deletes, Keeps
    <3>3. CASE r \in reserved
      BY <2>3, <2>9, <3>3 DEF Deletes, Reserve
    <3>. QED
      BY <3>1, <3>2, <3>3
  <2>10. CASE Command(c) /\ Continued(c, s)
    <3>1. CASE Unreserve(c)
      BY <2>7, <2>10, <3>1 DEF Command, Unreserve
    <3>2. CASE Reserve(c)
      BY <2>9, <2>10, <3>2 DEF Command, Reserve, Continued
    <3>3. CASE Requeue(c) \/ Remove(c) \/ Return(c)
      <4>1. client[c].pc \in {"requeue", "rem", "return"} /\ reserved' = reserved /\ orphaned' = orphaned
        BY <2>10, <3>3 DEF Command, Requeue, Remove, Return
      <4>. QED
        BY <2>8, <4>1
    <3>. QED
      BY <2>10, <3>1, <3>2, <3>3 DEF Command, Effect
  <2>11. CASE RejectedAfter(c) /\ Caught(c, s)
    <3>1. CASE Unreserve(c)
      BY <2>7, <2>11, <3>1 DEF RejectedAfter, Unreserve, With
    <3>2. CASE Reserve(c)
      BY <2>9, <2>11, <3>2 DEF RejectedAfter, Reserve, With
    <3>3. CASE Requeue(c) \/ Remove(c) \/ Return(c)
      <4>1. client[c].pc \in {"requeue", "rem", "return"} /\ reserved' = reserved /\ orphaned' = orphaned
        BY <2>11, <3>3 DEF RejectedAfter, Requeue, Remove, Return, With
      <4>. QED
        BY <2>8, <4>1
    <3>. QED
      BY <2>11, <3>1, <3>2, <3>3 DEF RejectedAfter, Effect
  <2>12. CASE RejectedBefore(c) /\ Caught(c, s)
    <3>1. r \in reserved /\ orphaned \subseteq orphaned'
      BY <2>12 DEF RejectedBefore, store, With
    <3>2. Deletes(c, r.id) => r.id \in orphaned' \/ Deletes(c, r.id)'
      <4>1. client[c].pc = "complete" => s.pc = "fail" /\ Keeps(c, s)
        BY <2>12 DEF Caught
      <4>2. client[c].pc = "fail" => client[c].job.id \in orphaned'
        BY <2>12 DEF RejectedBefore, With
      <4>3. client[c].pc # "handler"
        BY <2>12 DEF Caught
      <4>. QED
        BY <2>2, <4>1, <4>2, <4>3 DEF Deletes, Keeps
    <3>. QED
      BY <2>3, <3>1, <3>2
  <2>. QED
    BY <2>1, <2>4, <2>5, <2>6, <2>10, <2>11, <2>12 DEF Stepped
<1>. QED
  BY <1>1, <1>2 DEF Next

\* The job j is in one of the store's keys, or it ended.
Kept(j) ==
    \/ \E p \in zset : p.id = j
    \/ \E r \in reserved : r.id = j
    \/ j \in failedList \cup done \cup discarded \cup dropped

\* The client c has the job j between two keys.
Transports(c, j) == InTransit(c) /\ client[c].job.id = j

\* NoJobLost, id by id.
LEMMA NoJobLostForm == NoJobLost <=> \A j \in pushed : Kept(j) \/ \E c \in Clients : Transports(c, j)
  BY DEF NoJobLost, Kept, Transports, Ids

\* A command takes a job out of a key only when its client has it, or it is done.
LEMMA EffectKeeps ==
    ASSUME CompletesDone, NEW c \in Clients, Effect(c), NEW j, Kept(j),
           done' = done, discarded' = discarded, dropped \subseteq dropped'
    PROVE  \/ Kept(j)'
           \/ client[c].pc \in {"unreserve", "rem", "fail"} /\ client[c].job.id = j
<1>1. CASE j \in done \cup discarded \cup dropped
  BY <1>1 DEF Kept
<1>2. CASE Unreserve(c)
  <2>1. zset' = zset /\ failedList' = failedList
    BY <1>2 DEF Unreserve
  <2>2. ASSUME NEW r \in reserved, r.id = j, r \notin reserved'
        PROVE  client[c].job.id = j /\ client[c].pc \in {"unreserve", "complete", "fail"}
    BY <1>2, <2>2 DEF Unreserve, WithoutReservation
  <2>3. client[c].pc = "complete" => client[c].job.id \in done
    BY DEF CompletesDone
  <2>. QED
    BY <1>1, <2>1, <2>2, <2>3 DEF Kept
<1>3. CASE Requeue(c)
  BY <1>3 DEF Requeue, Kept
<1>4. CASE Remove(c)
  <2>1. reserved' = reserved /\ failedList' = failedList /\ client[c].pc = "rem"
    BY <1>4 DEF Remove
  <2>2. ASSUME NEW p \in zset, p.id = j, p \notin zset'
        PROVE  client[c].job.id = j
    BY <1>4, <2>2 DEF Remove
  <2>. QED
    BY <2>1, <2>2 DEF Kept
<1>5. CASE Reserve(c)
  <2>1. zset' = zset /\ failedList' = failedList
    BY <1>5 DEF Reserve
  <2>2. ASSUME NEW r \in reserved
        PROVE  \E q \in reserved' : q.id = r.id
    <3> DEFINE q == [id |-> client[c].job.id, attempts |-> client[c].job.attempts,
                     availableAt |-> client[c].job.availableAt, reservedAt |-> client[c].since]
    <3>1. q \in reserved' /\ q.id = client[c].job.id
      BY <1>5 DEF Reserve, WithReservation
    <3>2. r \in reserved' \/ r.id = client[c].job.id
      BY <1>5 DEF Reserve, WithReservation
    <3>. QED
      BY <3>1, <3>2
  <2>. QED
    BY <2>1, <2>2 DEF Kept
<1>6. CASE Return(c)
  <2>1. reserved' = reserved /\ zset \subseteq zset' /\ failedList \subseteq failedList'
    BY <1>6 DEF Return
  <2>. QED
    BY <2>1 DEF Kept
<1>. QED
  BY <1>2, <1>3, <1>4, <1>5, <1>6 DEF Effect

\* A job between two keys arrives at the second one.
LEMMA EffectArrives ==
    ASSUME NEW c \in Clients, Effect(c), NEW j, Transports(c, j)
    PROVE  Kept(j)'
<1>1. CASE Requeue(c)
  BY <1>1 DEF Requeue, Kept, Transports
<1>2. CASE Reserve(c)
  <2> DEFINE r == [id |-> client[c].job.id, attempts |-> client[c].job.attempts,
                   availableAt |-> client[c].job.availableAt, reservedAt |-> client[c].since]
  <2>1. r \in reserved' /\ r.id = client[c].job.id
    BY <1>2 DEF Reserve, WithReservation
  <2>. QED
    BY <2>1 DEF Kept, Transports
<1>3. CASE Return(c)
  <2>1. Retried(client[c].job).id = client[c].job.id
    BY DEF Retried
  <2>2. Retried(client[c].job) \in zset' \/ client[c].job.id \in failedList'
    BY <1>3 DEF Return
  <2>. QED
    BY <2>1, <2>2 DEF Kept, Transports
<1>. QED
  BY <1>1, <1>2, <1>3 DEF Effect, Transports, InTransit, Unreserve, Remove

\* No job disappears but in a client that fails between two keys.
LEMMA NoJobLostStep ==
    ASSUME RedisAssumption, TypeOK, CompletesDone, NoJobLost, [Next]_vars
    PROVE  NoJobLost'
<1>1. ASSUME NEW j \in Jobs, NEW delay \in Delays, Push(j, delay)
      PROVE  NoJobLost'
  <2> DEFINE p == [id |-> j, attempts |-> 0, availableAt |-> At(now + delay)]
  <2>1. zset' = zset \cup {p} /\ p.id = j
    BY <1>1 DEF Push
  <2>. HIDE DEF p
  <2>2. Ids(zset') = Ids(zset) \cup {j}
    BY <2>1, IdsAdd
  <2>. QED
    BY <1>1, <2>2 DEF Push, NoJobLost, Ids, fate, InTransit
<1>2. CASE FlushFailed
  BY <1>2 DEF FlushFailed, NoJobLost, fate, InTransit
<1>3. CASE TimePasses \/ UNCHANGED vars
  BY <1>3 DEF TimePasses, vars, store, fate, NoJobLost, InTransit
<1>4. ASSUME NEW c \in Clients, Worker(c) \/ Rejected(c) \/ Crash(c)
      PROVE  NoJobLost'
  <2>1. PICK s \in ClientState : Moves(c, s) /\ HasJob(s) /\ Stepped(c, s)
    BY <1>4, WorkerMoves
  <2>2. client'[c] = s /\ \A d \in Clients \ {c} : client'[d] = client[d]
    BY <2>1, MovesLemma
  <2>3. pushed' = pushed /\ discarded' = discarded
    BY <1>4, StoreChanges DEF Stays
  <2> SUFFICES ASSUME NEW j \in pushed
               PROVE  Kept(j)' \/ \E d \in Clients : Transports(d, j)'
    BY <2>3 DEF NoJobLost, Kept, Transports, InTransit, Ids
  <2>4. CASE \E d \in Clients \ {c} : Transports(d, j)
    BY <2>2, <2>4 DEF Transports, InTransit
  <2>5. Kept(j) \/ Transports(c, j) \/ \E d \in Clients \ {c} : Transports(d, j)
    BY NoJobLostForm
  <2>6. ASSUME UNCHANGED store, done \subseteq done', dropped \subseteq dropped', Kept(j)
        PROVE  Kept(j)'
    BY <2>3, <2>6 DEF Kept, store
  <2>7. CASE StartTick(c) \/ Range(c) \/ HandlerOk(c) \/ HandlerError(c)
    <3>1. ~Transports(c, j)
      BY <2>7 DEF StartTick, Range, HandlerOk, HandlerError, Transports, InTransit
    <3>2. UNCHANGED store /\ done \subseteq done' /\ dropped \subseteq dropped'
      BY <2>7 DEF StartTick, Range, HandlerOk, HandlerError, store, fate
    <3>. QED
      BY <2>4, <2>5, <2>6, <3>1, <3>2
  <2>8. CASE Crash(c)
    <3>1. UNCHANGED store /\ done' = done /\ dropped \subseteq dropped'
      BY <2>8 DEF Crash, Fails, With
    <3>2. Transports(c, j) => j \in dropped'
      BY <2>8 DEF Crash, Transports, With
    <3>. QED
      BY <2>4, <2>5, <2>6, <3>1, <3>2 DEF Kept
  <2>9. CASE Command(c) /\ Continued(c, s)
    <3>1. Effect(c) /\ done' = done /\ dropped' = dropped
      BY <2>9 DEF Command
    <3>2. CASE Transports(c, j)
      BY <3>1, <3>2, EffectArrives
    <3>3. CASE Kept(j)
      <4>1. Kept(j)' \/ (client[c].pc \in {"unreserve", "rem", "fail"} /\ client[c].job.id = j)
        BY <2>3, <3>1, <3>3, EffectKeeps
      <4>2. client[c].pc \in {"unreserve", "rem", "fail"} /\ client[c].job.id = j => Transports(c, j)'
        BY <2>2, <2>9 DEF Continued, Keeps, Transports, InTransit
      <4>. QED
        BY <4>1, <4>2
    <3>. QED
      BY <2>4, <2>5, <3>2, <3>3
  <2>10. CASE Rejected(c) /\ RejectedAfter(c)
    <3>1. Effect(c) /\ done' = done /\ dropped \subseteq dropped'
      BY <2>10 DEF RejectedAfter, Rejected, Fails, With
    <3>2. CASE Transports(c, j)
      BY <3>1, <3>2, EffectArrives
    <3>3. CASE Kept(j)
      <4>1. Kept(j)' \/ (client[c].pc \in {"unreserve", "rem", "fail"} /\ client[c].job.id = j)
        BY <2>3, <3>1, <3>3, EffectKeeps
      <4>2. client[c].pc \in {"unreserve", "rem", "fail"} /\ client[c].job.id = j => j \in dropped'
        BY <2>10 DEF RejectedAfter, With
      <4>. QED
        BY <4>1, <4>2 DEF Kept
    <3>. QED
      BY <2>4, <2>5, <3>2, <3>3
  <2>11. CASE Rejected(c) /\ RejectedBefore(c)
    <3>1. UNCHANGED store /\ done' = done /\ dropped \subseteq dropped'
      BY <2>11 DEF RejectedBefore, Rejected, Fails, With
    <3>2. Transports(c, j) => j \in dropped'
      BY <2>11 DEF RejectedBefore, Transports, InTransit, With
    <3>. QED
      BY <2>4, <2>5, <2>6, <3>1, <3>2 DEF Kept
  <2>. QED
    BY <2>1, <2>7, <2>8, <2>9, <2>10, <2>11 DEF Stepped
<1>. QED
  BY <1>1, <1>2, <1>3, <1>4 DEF Next

\* The client c read j and has not yet removed it.
Reads(c, j) == client[c].pc = "rem" /\ client[c].job.id = j

\* What NeverMultiplied and ReadOnce say of one job.
Once(j) ==
    /\ \A p, q \in zset : p.id = j /\ q.id = j => p = q
    /\ \A c, d \in Clients : Carries(c, j) /\ Carries(d, j) => c = d
    /\ \A p \in zset : p.id = j => j \notin done \cup failedList
    /\ \A c \in Clients : Carries(c, j) =>
          /\ \A p \in zset : p.id # j
          /\ j \notin failedList
          /\ j \in done => client[c].pc = "complete"
    /\ ~(j \in done /\ j \in failedList)
    /\ \A c \in Clients : Reads(c, j) =>
          /\ client[c].job \in zset
          /\ \A d \in Clients : Reads(d, j) => c = d

\* NeverMultiplied and ReadOnce, id by id.
LEMMA OnceForm ==
    ASSUME NeverMultiplied, ReadOnce, NEW j \in Jobs \ (recovered \cup doubled)
    PROVE  Once(j)
  BY DEF NeverMultiplied, ReadOnce, Once, Carries, Reads, Ids

\* A step of c that leaves j where it is and takes no part in its life.
LEMMA OnceQuiet ==
    ASSUME NEW c \in Clients, NEW j, Once(j),
           \A d \in Clients \ {c} : client'[d] = client[d],
           \A p : p.id = j => (p \in zset' <=> p \in zset),
           j \in failedList' <=> j \in failedList,
           j \in done' <=> j \in done,
           Carries(c, j)' => Carries(c, j) /\ (j \in done => client'[c].pc = "complete"),
           ~Reads(c, j)'
    PROVE  Once(j)'
<1>1. \A d \in Clients : Carries(d, j)' => Carries(d, j)
  BY DEF Carries
<1>2. \A d \in Clients : Reads(d, j)' => d # c /\ Reads(d, j) /\ client'[d] = client[d]
  BY DEF Reads
<1>3. \A d \in Clients : Carries(d, j)' /\ j \in done' => client'[d].pc = "complete"
  BY <1>1 DEF Once, Carries
<1>4. \A p \in zset' : p.id = j => p \in zset
  OBVIOUS
<1>5. \A p, q \in zset' : p.id = j /\ q.id = j => p = q
  BY <1>4 DEF Once
<1>6. \A d, e \in Clients : Carries(d, j)' /\ Carries(e, j)' => d = e
  BY <1>1 DEF Once
<1>7. \A p \in zset' : p.id = j => j \notin done' \cup failedList'
  BY <1>4 DEF Once
<1>8. \A d \in Clients : Carries(d, j)' =>
          (\A p \in zset' : p.id # j) /\ j \notin failedList'
  BY <1>1, <1>4 DEF Once
<1>9. ~(j \in done' /\ j \in failedList')
  BY DEF Once
<1>10. ASSUME NEW d \in Clients, Reads(d, j)'
       PROVE  /\ client'[d].job \in zset'
              /\ \A e \in Clients : Reads(e, j)' => d = e
  <2>1. Reads(d, j) /\ client'[d] = client[d] /\ client[d].job.id = j
    BY <1>2, <1>10 DEF Reads
  <2>2. client[d].job \in zset /\ \A e \in Clients : Reads(e, j) => d = e
    BY <2>1 DEF Once
  <2>. QED
    BY <1>2, <2>1, <2>2
<1>. QED
  BY <1>3, <1>5, <1>6, <1>7, <1>8, <1>9, <1>10 DEF Once

\* A command on another job, or one that leaves the sorted set and the failed
\* list, is quiet; the other ones take j from one place to the next.
LEMMA OnceEffect ==
    ASSUME RedisAssumption, TypeOK, NEW c \in Clients, NEW s \in ClientState, Moves(c, s),
           Effect(c), done' = done,
           \/ Continued(c, s)
           \/ Caught(c, s) /\ (client[c].pc # "complete" \/ client[c].job.id \in doubled'),
           NEW j \in Jobs, j \notin recovered' \cup doubled', Once(j)
    PROVE  Once(j)'
<1>1. client'[c] = s /\ \A d \in Clients \ {c} : client'[d] = client[d]
  BY MovesLemma
<1>2. CASE Unreserve(c)
  <2>1. UNCHANGED <<zset, failedList>> /\ client[c].pc \in {"unreserve", "complete", "fail"}
    BY <1>2 DEF Unreserve
  <2>2. s.pc # "rem"
    BY <2>1 DEF Continued, Caught, Recovers, IsOver
  <2>3. Carries(c, j)' => Carries(c, j) /\ client[c].pc = "fail"
    BY <1>1, <2>1 DEF Continued, Caught, Recovers, IsOver, Carries, Keeps
  <2>4. Carries(c, j) /\ client[c].pc = "fail" => j \notin done
    BY DEF Once
  <2>. QED
    BY <1>1, <2>1, <2>2, <2>3, <2>4, OnceQuiet DEF Reads
<1>3. CASE Requeue(c)
  <2>1. /\ zset' = zset \cup {client[c].job} /\ client[c].job.id # j
        /\ failedList' = failedList /\ client[c].pc = "requeue"
    BY <1>3 DEF Requeue
  <2>2. s.pc \in {"range", "unreserve"}
    BY <2>1 DEF Continued, Caught, Recovers
  <2>3. ~Carries(c, j)' /\ ~Reads(c, j)'
    BY <1>1, <2>2 DEF Carries, Reads
  <2>. QED
    BY <1>1, <2>1, <2>3, OnceQuiet
<1>4. CASE Reserve(c)
  <2>1. UNCHANGED <<zset, failedList>> /\ client[c].pc = "reserve"
    BY <1>4 DEF Reserve
  <2>2. s.pc # "rem"
    BY <2>1 DEF Continued, Caught, IsOver
  <2>3. Carries(c, j)' => Carries(c, j)
    BY <1>1, <2>1 DEF Continued, Caught, IsOver, Carries, Keeps
  <2>4. Carries(c, j) => j \notin done
    BY <2>1 DEF Once
  <2>. QED
    BY <1>1, <2>1, <2>2, <2>3, <2>4, OnceQuiet DEF Reads
<1>5. CASE Remove(c)
  <2>1. /\ zset' = zset \ {client[c].job} /\ failedList' = failedList
        /\ client[c].pc = "rem"
    BY <1>5 DEF Remove
  <2>2. (s.pc = "reserve" /\ Keeps(c, s)) \/ s.pc \in {"idle", "range"}
    BY <2>1 DEF Continued, Caught, IsOver
  <2>3. CASE client[c].job.id # j
    <3>1. ~Carries(c, j)' /\ ~Reads(c, j)'
      BY <1>1, <2>2, <2>3 DEF Carries, Reads, Keeps
    <3>. QED
      BY <1>1, <2>1, <2>3, <3>1, OnceQuiet
  <2>4. CASE client[c].job.id = j
    <3>1. client[c].job \in zset /\ \A d \in Clients : Reads(d, j) => c = d
      BY <2>1, <2>4 DEF Once, Reads
    <3>2. \A p \in zset' : p.id # j
      BY <2>1, <2>4, <3>1 DEF Once
    <3>3. j \notin done' \cup failedList'
      BY <2>1, <2>4, <3>1 DEF Once
    <3>4. \A d \in Clients : ~Carries(d, j)
      BY <2>4, <3>1 DEF Once
    <3>5. \A d \in Clients : Carries(d, j)' => d = c
      BY <1>1, <3>4 DEF Carries
    <3>6. \A d \in Clients : ~Reads(d, j)'
      BY <1>1, <2>2, <3>1 DEF Reads
    <3>. QED
      BY <3>2, <3>3, <3>5, <3>6 DEF Once
  <2>. QED
    BY <2>3, <2>4
<1>6. CASE Return(c)
  <2>1. /\ client[c].pc = "return"
        /\ \/ zset' = zset \cup {Retried(client[c].job)} /\ failedList' = failedList
           \/ zset' = zset /\ failedList' = failedList \cup {client[c].job.id}
    BY <1>6 DEF Return
  <2>2. Retried(client[c].job).id = client[c].job.id
    BY DEF Retried
  <2>3. ~Carries(c, j)' /\ ~Reads(c, j)'
    BY <1>1, <2>1 DEF Continued, Caught, IsOver, Carries, Reads
  <2>4. CASE client[c].job.id # j
    BY <1>1, <2>1, <2>2, <2>3, <2>4, OnceQuiet
  <2>5. CASE client[c].job.id = j
    <3>1. Carries(c, j)
      BY <2>1, <2>5 DEF Carries
    <3>2. /\ \A p \in zset : p.id # j
          /\ j \notin failedList /\ j \notin done
          /\ \A d \in Clients \ {c} : ~Carries(d, j)
      BY <2>1, <3>1 DEF Once
    <3>3. \A d \in Clients : ~Reads(d, j)
      BY <3>2 DEF Once, Reads
    <3>4. \A d \in Clients : ~Carries(d, j)' /\ ~Reads(d, j)'
      BY <1>1, <2>3, <3>2, <3>3 DEF Carries, Reads
    <3>. QED
      BY <2>1, <2>2, <3>2, <3>4 DEF Once
  <2>. QED
    BY <2>4, <2>5
<1>. QED
  BY <1>2, <1>3, <1>4, <1>5, <1>6 DEF Effect

\* The life of a job that is neither recovered nor doubled goes on as one job's.
LEMMA OnceStep ==
    ASSUME RedisAssumption, TypeOK, OnlyPushed, [Next]_vars,
           NEW j \in Jobs, j \notin recovered' \cup doubled',
           j \notin recovered \cup doubled => Once(j)
    PROVE  Once(j)'
<1>1. ASSUME NEW i \in Jobs, NEW delay \in Delays, Push(i, delay)
      PROVE  Once(j)'
  <2> DEFINE p == [id |-> i, attempts |-> 0, availableAt |-> At(now + delay)]
  <2>1. /\ zset' = zset \cup {p} /\ p.id = i /\ i \notin pushed
        /\ UNCHANGED <<client, done, failedList, recovered, doubled>>
    BY <1>1 DEF Push, fate
  <2>. HIDE DEF p
  <2>2. Once(j)
    BY <2>1
  <2>3. CASE i = j
    <3>1. /\ \A q \in zset : q.id # j
          /\ j \notin done \cup failedList
          /\ \A c \in Clients : ~Carries(c, j) /\ ~Reads(c, j)
      BY <2>1, <2>3 DEF OnlyPushed, Ids, Carries, Reads
    <3>. QED
      BY <2>1, <3>1 DEF Once, Carries, Reads
  <2>4. CASE i # j
    BY <2>1, <2>2, <2>4 DEF Once, Carries, Reads
  <2>. QED
    BY <2>3, <2>4
<1>2. CASE FlushFailed
  <2>1. UNCHANGED <<zset, client, done, recovered, doubled>> /\ failedList' = {}
    BY <1>2 DEF FlushFailed, fate
  <2>. QED
    BY <2>1 DEF Once, Carries, Reads
<1>3. CASE TimePasses \/ UNCHANGED vars
  <2>1. UNCHANGED <<zset, client, done, recovered, doubled, failedList>>
    BY <1>3 DEF TimePasses, vars, store, fate
  <2>. QED
    BY <2>1 DEF Once, Carries, Reads
<1>4. ASSUME NEW c \in Clients, Worker(c) \/ Rejected(c) \/ Crash(c)
      PROVE  Once(j)'
  <2>1. PICK s \in ClientState : Moves(c, s) /\ HasJob(s) /\ Stepped(c, s)
    BY <1>4, WorkerMoves
  <2>2. client'[c] = s /\ \A d \in Clients \ {c} : client'[d] = client[d]
    BY <2>1, MovesLemma
  <2>3. recovered \subseteq recovered'
    <3>1. Effect(c) => recovered \subseteq recovered'
      BY DEF Effect, Unreserve, Requeue, Remove, Reserve, Return
    <3>. QED
      BY <1>4, <3>1, StoreChanges DEF Stays, Executed
  <2>4. doubled \subseteq doubled'
    BY <1>4 DEF Worker, StartTick, Range, HandlerOk, HandlerError, Command, Rejected, Crash,
                With, fate
  <2>5. Once(j)
    BY <2>3, <2>4
  <2>6. ASSUME UNCHANGED <<zset, failedList, done>>, s.pc = "rem" => s.job.id # j,
               Carries(c, j)' => Carries(c, j) /\ (j \in done => s.pc = "complete")
        PROVE  Once(j)'
    BY <2>2, <2>5, <2>6, OnceQuiet DEF Reads
  <2>7. CASE StartTick(c) /\ Recovers(s, TimedOut(hashReply))
    <3>1. ~Carries(c, j)' /\ s.pc # "rem"
      BY <2>2, <2>7 DEF Recovers, Carries
    <3>. QED
      BY <2>6, <2>7, <3>1 DEF StartTick, store
  <2>8. CASE IsOver(s) /\ (Range(c) \/ Crash(c))
    <3>1. ~Carries(c, j)' /\ s.pc # "rem"
      BY <2>2, <2>8 DEF IsOver, Carries
    <3>. QED
      BY <2>6, <2>8, <3>1 DEF Range, Crash, Fails, store
  <2>9. CASE /\ Range(c) /\ s.pc = "rem" /\ s.job \in zset
             /\ doubled' = With(doubled, s.job.id,
                    \E d \in Clients : client[d].pc = "rem" /\ client[d].job = s.job)
             /\ client[c].pc = "range"
    <3>1. UNCHANGED <<zset, failedList, done>> /\ ~Carries(c, j)'
      BY <2>2, <2>9 DEF Range, store, Carries
    <3>2. CASE s.job.id # j
      BY <2>6, <3>1, <3>2
    <3>3. CASE s.job.id = j
      <4>1. \A d \in Clients : ~(client[d].pc = "rem" /\ client[d].job = s.job)
        BY <2>9, <3>3 DEF With
      <4>2. \A d \in Clients : ~Reads(d, j)
        BY <2>5, <2>9, <3>3, <4>1 DEF Once, Reads
      <4>3. \A d \in Clients : Reads(d, j)' => d = c
        BY <2>2, <4>2 DEF Reads
      <4>4. \A d \in Clients : Carries(d, j)' => d # c /\ Carries(d, j) /\ client'[d] = client[d]
        BY <2>2, <3>1 DEF Carries
      <4>. QED
        BY <2>2, <2>5, <2>9, <3>1, <4>3, <4>4 DEF Once
    <3>. QED
      BY <3>2, <3>3
  <2>10. CASE HandlerOk(c) /\ client[c].pc = "handler" /\ s.pc = "complete" /\ Keeps(c, s)
    <3>1. UNCHANGED <<zset, failedList>> /\ done' = done \cup {client[c].job.id}
      BY <2>10 DEF HandlerOk, store
    <3>2. Carries(c, j)' <=> Carries(c, j)
      BY <2>2, <2>10 DEF Carries, Keeps
    <3>3. CASE client[c].job.id # j
      BY <2>2, <2>5, <2>10, <3>1, <3>2, <3>3, OnceQuiet DEF Reads
    <3>4. CASE client[c].job.id = j
      <4>1. Carries(c, j)
        BY <2>10, <3>4 DEF Carries
      <4>2. /\ \A p \in zset : p.id # j
            /\ j \notin failedList
            /\ \A d \in Clients \ {c} : ~Carries(d, j)
        BY <2>5, <4>1 DEF Once
      <4>3. \A d \in Clients : ~Reads(d, j)
        BY <2>5, <4>2 DEF Once, Reads
      <4>4. \A d \in Clients : ~Reads(d, j)' /\ (Carries(d, j)' => d = c)
        BY <2>2, <2>10, <4>2, <4>3 DEF Reads, Carries
      <4>. QED
        BY <2>2, <2>10, <3>1, <4>2, <4>4 DEF Once
    <3>. QED
      BY <3>3, <3>4
  <2>11. CASE HandlerError(c) /\ client[c].pc = "handler" /\ s.pc = "fail" /\ Keeps(c, s)
    <3>1. Carries(c, j)' => Carries(c, j)
      BY <2>2, <2>11 DEF Carries, Keeps
    <3>2. Carries(c, j) => j \notin done
      BY <2>5, <2>11 DEF Once
    <3>. QED
      BY <2>6, <2>11, <3>1, <3>2 DEF HandlerError, store
  <2>12. CASE Command(c) /\ Continued(c, s)
    <3>1. Effect(c) /\ done' = done
      BY <2>12 DEF Command
    <3>. QED
      BY <2>1, <2>5, <2>12, <3>1, OnceEffect
  <2>13. CASE Rejected(c) /\ RejectedAfter(c) /\ Caught(c, s)
    <3>1. Effect(c) /\ done' = done
      BY <2>13 DEF Rejected, RejectedAfter, Fails
    <3>2. client[c].pc # "complete" \/ client[c].job.id \in doubled'
      BY <2>13, RejectedCases DEF With
    <3>. QED
      BY <2>1, <2>5, <2>13, <3>1, <3>2, OnceEffect
  <2>14. CASE Rejected(c) /\ RejectedBefore(c) /\ Caught(c, s)
    <3>1. UNCHANGED <<zset, failedList, done>>
      BY <2>14 DEF Rejected, RejectedBefore, Fails, store
    <3>2. client[c].pc = "complete" => client[c].job.id \in doubled'
      BY <2>14, RejectedCases DEF With
    <3>3. s.pc # "rem" /\ ~Carries(c, j)'
      BY <2>2, <2>14, <3>2 DEF Caught, Recovers, IsOver, Keeps, Carries
    <3>. QED
      BY <2>6, <3>1, <3>3
  <2>. QED
    BY <2>1, <2>7, <2>8, <2>9, <2>10, <2>11, <2>12, <2>13, <2>14 DEF Stepped
<1>. QED
  BY <1>1, <1>2, <1>3, <1>4 DEF Next

(***************************************************************************)
(* The theorems.                                                           *)
(***************************************************************************)

\* The three parts that follow one id at a time, put together again.
LEMMA IInvStep ==
    ASSUME RedisAssumption, IInv, [Next]_vars
    PROVE  IInv'
<1> USE DEF IInv
<1>1. TypeOK'
  BY TypeStep
<1>2. \A j \in Jobs \ (recovered \cup doubled) : Once(j)
  BY OnceForm
<1>3. \A j \in Jobs : j \notin recovered' \cup doubled' => Once(j)'
  BY <1>2, OnceStep
<1>4. NeverMultiplied'
  BY <1>3 DEF NeverMultiplied, Once, Carries, Ids
<1>5. ReadOnce'
  <2>1. \A c \in Clients : client'[c].pc = "rem" => client'[c].job.id \in Jobs
    BY <1>1 DEF TypeOK, Payload
  <2>. QED
    BY <1>3, <2>1 DEF ReadOnce, Once, Reads
<1>. QED
  BY <1>1, <1>4, <1>5, NoJobLostStep, ReservedHeldStep, OnlyPushedStep, CompletesDoneStep

\* Whatever clients of whatever processes do, and whatever fails: no payload, no
\* reservation and no ended job comes from nowhere, and the three properties below
\* hold along.
THEOREM InductiveInvariant == Spec => []IInv
<1>1. Init => IInv
  <2> SUFFICES ASSUME Init
               PROVE  IInv
    OBVIOUS
  <2>1. \A c \in Clients : client[c] = Idle
    BY DEF Init
  <2>2. TypeOK
    BY <2>1, RedisAssumption, IsOverTypes DEF Init, TypeOK, Idle
  <2>3. NoJobLost /\ ReservedHeld
    BY DEF Init, NoJobLost, ReservedHeld
  <2>4. NeverMultiplied
    BY <2>1 DEF Init, NeverMultiplied, Carries, Ids, Idle
  <2>5. OnlyPushed /\ ReadOnce /\ CompletesDone
    BY <2>1 DEF Init, OnlyPushed, ReadOnce, CompletesDone, Ids, Idle
  <2>. QED
    BY <2>2, <2>3, <2>4, <2>5 DEF IInv
<1>2. IInv /\ [Next]_vars => IInv'
  BY RedisAssumption, IInvStep
<1>. QED
  BY <1>1, <1>2, PTL DEF Spec

\* A pushed job disappears only in a client that fails between two of the keys
\* (push(), pop(), recoverTimeout(), complete(), fail() of RedisQueueDriver).
THEOREM NoJobLostHolds == Spec => []NoJobLost
<1>1. IInv => NoJobLost
  BY DEF IInv
<1>. QED
  BY <1>1, InductiveInvariant, PTL

\* No order of commands of live clients leaves a reservation behind.
THEOREM ReservedHeldHolds == Spec => []ReservedHeld
<1>1. IInv => ReservedHeld
  BY DEF IInv
<1>. QED
  BY <1>1, InductiveInvariant, PTL

\* A job multiplies in the three ways NeverMultiplied names, and in no other.
THEOREM NeverMultipliedHolds == Spec => []NeverMultiplied
<1>1. IInv => NeverMultiplied
  BY DEF IInv
<1>. QED
  BY <1>1, InductiveInvariant, PTL
=============================================================================
