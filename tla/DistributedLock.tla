-------------------------- MODULE DistributedLock --------------------------
(***************************************************************************)
(* DistributedLock.run() of system/core/distributed_lock.ts: calls on      *)
(* several servers compete for one key of the store, run their callback    *)
(* under a lease that expires, may renew it, and release it.               *)
(*                                                                         *)
(* A driver's commands travel to the store on the connection of the call,  *)
(* in order; the store executes each one atomically (SET NX, or a Lua      *)
(* script that compares the owner first).  Commands, replies and timers    *)
(* are late by bounded amounts, servers crash, connections drop.  With     *)
(* MaxDelay = 0 and Second = 1 this is the memory driver of one process.   *)
(***************************************************************************)
EXTENDS Integers, Sequences

CONSTANTS
    Calls,          \* calls of run(); each call is the owner it generates
    NoOwner,        \* the key is not in the store
    AutoRenew,      \* the calls with options.autoRenew (runScheduled's)
    Ttl,            \* lock.ttl
    Second,         \* clock units in the second that EX counts in
    MaxRetries,     \* options.maxRetries
    RetryInterval,  \* options.retryInterval
    MaxRun,         \* how long the callback of each call takes at most
    MaxDelay,       \* how long a command or a reply travels at most
    MaxLag,         \* how late a timer of the event loop fires at most
    Lossy,          \* whether connections may drop
    Admin,          \* whether somebody calls releaseAll()
    MaxStart        \* bound: no call starts later than this

ASSUME LockAssumption ==
    /\ NoOwner \notin Calls
    /\ AutoRenew \subseteq Calls
    /\ Ttl \in Nat \ {0}
    /\ Second \in Nat \ {0}
    /\ MaxRetries \in Nat
    /\ RetryInterval \in Nat
    /\ MaxRun \in [Calls -> Nat]
    /\ MaxDelay \in Nat
    /\ MaxLag \in Nat
    /\ Lossy \in BOOLEAN
    /\ Admin \in BOOLEAN
    /\ MaxStart \in Nat

VARIABLES
    now,         \* the clock
    owner,       \* the value of the key in the store
    expiresAt,   \* when the store drops the key
    pc,          \* where each call is
    attempt,     \* acquireWithRetry(): attempts already refused
    timer,       \* when the call's timer is due, or its reply was sent
    since,       \* when the callback started, or the call ended
    wire         \* commands of each call on their way to the store

vars == <<now, owner, expiresAt, pc, attempt, timer, since, wire>>

Commands == [cmd : {"set", "renew", "release"}, at : Nat]

Over == {"executed", "skipped", "threw", "crashed"}

TypeOK ==
    /\ now \in Nat
    /\ owner \in Calls \cup {NoOwner}
    /\ expiresAt \in Nat
    /\ pc \in [Calls -> {"idle", "acquire", "granted", "denied", "sleep",
                         "callback", "release"} \cup Over]
    /\ attempt \in [Calls -> Nat]
    /\ timer \in [Calls -> Nat]
    /\ since \in [Calls -> Nat]
    /\ wire \in [Calls -> Seq(Commands)]

Init ==
    /\ now = 0
    /\ owner = NoOwner
    /\ expiresAt = 0
    /\ pc = [c \in Calls |-> "idle"]
    /\ attempt = [c \in Calls |-> 0]
    /\ timer = [c \in Calls |-> 0]
    /\ since = [c \in Calls |-> 0]
    /\ wire = [c \in Calls |-> <<>>]

-----------------------------------------------------------------------------
\* ttlSec = Math.ceil(ttlMs / 1000), in units of the clock.
InitialTtl == ((Ttl + Second - 1) \div Second) * Second

\* Variant: renewals only when the lease is over (ImplementsExclusiveRun
\* detects it).
RenewIntervalTtl == Ttl

\* Math.floor(lock.ttl / 3); setInterval() takes 0 for 1.
RenewInterval == IF Ttl \div 3 = 0 THEN 1 ELSE Ttl \div 3

Locked == owner # NoOwner /\ expiresAt > now

Send(c, cmd) == wire' = [wire EXCEPT ![c] = Append(@, [cmd |-> cmd, at |-> now])]

Goto(c, next) == pc' = [pc EXCEPT ![c] = next]

With(f, c, value) == [f EXCEPT ![c] = value]

\* The call ends, now.
Ends(c, how) == Goto(c, how) /\ since' = With(since, c, now)

\* Variant: a call out of attempts goes on waiting (EveryCallEnds detects it).
TryOnly(c) ==
    /\ attempt[c] < MaxRetries
    /\ Goto(c, "acquire")
    /\ Send(c, "set")
    /\ UNCHANGED since

\* One attempt of acquireWithRetry(), or its end after the last one.
TryOrSkip(c) ==
    \/ /\ attempt[c] < MaxRetries
       /\ Goto(c, "acquire")
       /\ Send(c, "set")
       /\ UNCHANGED since
    \/ /\ attempt[c] >= MaxRetries
       /\ Ends(c, "skipped")
       /\ UNCHANGED wire

Start(c) ==
    /\ pc[c] = "idle"
    /\ now <= MaxStart
    /\ TryOrSkip(c)
    /\ UNCHANGED <<now, owner, expiresAt, attempt, timer>>

Waking(c) ==
    /\ pc[c] = "sleep"
    /\ now >= timer[c]
    /\ TryOrSkip(c)
    /\ UNCHANGED <<now, owner, expiresAt, attempt, timer>>

\* The reply "OK": run() starts the renewals and calls back.
Granted(c) ==
    /\ pc[c] = "granted"
    /\ Goto(c, "callback")
    /\ timer' = With(timer, c, now + RenewInterval)
    /\ since' = With(since, c, now)
    /\ UNCHANGED <<now, owner, expiresAt, attempt, wire>>

\* Another call holds the key: sleep, even after the last attempt.
Denied(c) ==
    /\ pc[c] = "denied"
    /\ Goto(c, "sleep")
    /\ attempt' = With(attempt, c, attempt[c] + 1)
    /\ timer' = With(timer, c, now + RetryInterval)
    /\ UNCHANGED <<now, owner, expiresAt, since, wire>>

\* Variant: the interval is not cleared when the callback threw or the release
\* was lost (LeaseEnds detects it).
RenewalLeaks(c) ==
    /\ pc[c] \in {"callback", "release", "threw"}
    /\ c \in AutoRenew
    /\ now >= timer[c]
    /\ Send(c, "renew")
    /\ timer' = With(timer, c, now + RenewInterval)
    /\ UNCHANGED <<now, owner, expiresAt, pc, attempt, since>>

\* The interval of autoRenew; nobody looks at what renew() answers.
Renewal(c) ==
    /\ pc[c] = "callback"
    /\ c \in AutoRenew
    /\ now >= timer[c]
    /\ Send(c, "renew")
    /\ timer' = With(timer, c, now + RenewInterval)
    /\ UNCHANGED <<now, owner, expiresAt, pc, attempt, since>>

\* The callback settled: clear the interval, release.
CallbackEnds(c) ==
    /\ pc[c] = "callback"
    /\ Goto(c, "release")
    /\ Send(c, "release")
    /\ UNCHANGED <<now, owner, expiresAt, attempt, timer, since>>

-----------------------------------------------------------------------------
(* The store executes the oldest command of a connection.                  *)

Arrives(c, cmd) ==
    /\ wire[c] # <<>>
    /\ Head(wire[c]).cmd = cmd
    /\ wire' = [wire EXCEPT ![c] = Tail(@)]

\* A crashed server sent the command but hears no reply.
Answer(c, reply) ==
    /\ pc' = [pc EXCEPT ![c] = IF @ = "acquire" THEN reply ELSE @]
    /\ timer' = With(timer, c, now)

\* Variant: SET without NX (MutualExclusion detects it).
SetAlways(c) ==
    /\ Arrives(c, "set")
    /\ owner' = c
    /\ expiresAt' = now + InitialTtl
    /\ Answer(c, "granted")
    /\ UNCHANGED <<now, attempt, since>>

SetIfAbsent(c) ==
    /\ Arrives(c, "set")
    /\ \/ /\ ~Locked
          /\ owner' = c
          /\ expiresAt' = now + InitialTtl
          /\ Answer(c, "granted")
       \/ /\ Locked
          /\ Answer(c, "denied")
          /\ UNCHANGED <<owner, expiresAt>>
    /\ UNCHANGED <<now, attempt, since>>

\* RENEW_SCRIPT compares the owner before it extends.
Renew(c) ==
    /\ Arrives(c, "renew")
    /\ expiresAt' = IF owner = c /\ Locked THEN now + Ttl ELSE expiresAt
    /\ UNCHANGED <<now, owner, pc, attempt, timer, since>>

\* Variant: DEL without comparing the owner (OwnLeaseOnly detects it).
ReleaseAny(c) ==
    /\ Arrives(c, "release")
    /\ owner' = NoOwner
    /\ IF pc[c] = "release" THEN Ends(c, "executed") ELSE UNCHANGED <<pc, since>>
    /\ UNCHANGED <<now, expiresAt, attempt, timer>>

\* RELEASE_SCRIPT compares the owner before it deletes; then run() returns.
Release(c) ==
    /\ Arrives(c, "release")
    /\ owner' = IF owner = c THEN NoOwner ELSE owner
    /\ IF pc[c] = "release" THEN Ends(c, "executed") ELSE UNCHANGED <<pc, since>>
    /\ UNCHANGED <<now, expiresAt, attempt, timer>>

\* releaseAll(): the DEL that follows the SCAN deletes the key whoever holds it.
ReleaseAll ==
    /\ Admin
    /\ Locked
    /\ owner' = NoOwner
    /\ UNCHANGED <<now, expiresAt, pc, attempt, timer, since, wire>>

-----------------------------------------------------------------------------
(* Failures and the clock.                                                 *)

\* What is on the wire is lost or was executed before.  acquire() and release()
\* reject and run() throws; a rejected renew() is caught.
Disconnect(c) ==
    /\ Lossy
    /\ \/ /\ pc[c] \in {"acquire", "granted", "denied", "release"}
          /\ Ends(c, "threw")
       \/ /\ pc[c] = "callback" /\ wire[c] # <<>>
          /\ UNCHANGED <<pc, since>>
    /\ wire' = [wire EXCEPT ![c] = <<>>]
    /\ UNCHANGED <<now, owner, expiresAt, attempt, timer>>

\* The server dies; what it sent may still arrive.
Crash(c) ==
    /\ pc[c] \notin Over \cup {"idle"}
    /\ Ends(c, "crashed")
    /\ UNCHANGED <<now, owner, expiresAt, attempt, timer, wire>>

\* No command, reply, timer or callback is later than the constants allow.
OnTime(c) ==
    /\ \A i \in DOMAIN wire[c] : now < wire[c][i].at + MaxDelay
    /\ pc[c] \in {"granted", "denied"} => now < timer[c] + MaxDelay
    /\ pc[c] = "sleep" => now < timer[c] + MaxLag
    /\ pc[c] = "callback" => now < since[c] + MaxRun[c]
    /\ pc[c] = "callback" /\ c \in AutoRenew => now < timer[c] + MaxLag

\* The clock matters while a call is on its way or the key is in the store.
TimePasses ==
    /\ Locked \/ \E c \in Calls : pc[c] \notin Over \cup {"idle"} \/ wire[c] # <<>>
    /\ \A c \in Calls : OnTime(c)
    /\ now' = now + 1
    /\ UNCHANGED <<owner, expiresAt, pc, attempt, timer, since, wire>>

Call(c) ==
    \/ Waking(c) \/ Granted(c) \/ Denied(c) \/ Renewal(c) \/ CallbackEnds(c)
    \/ SetIfAbsent(c) \/ Renew(c) \/ Release(c)

Next ==
    \/ \E c \in Calls : Start(c) \/ Call(c) \/ Disconnect(c) \/ Crash(c)
    \/ ReleaseAll
    \/ TimePasses

Spec == Init /\ [][Next]_vars

\* Commands arrive, timers fire, callbacks settle and the clock runs.
FairSpec == Spec /\ (\A c \in Calls : WF_vars(Call(c))) /\ WF_vars(TimePasses)

-----------------------------------------------------------------------------
(* Properties.                                                             *)

\* The timing under which the lease covers the callback: a renewal reaches the
\* store before the lease is over, or the callback is shorter than the lease.
Timely ==
    /\ ~Admin
    /\ \A c \in Calls :
          IF c \in AutoRenew
          THEN ~Lossy /\ RenewInterval + MaxLag + 2 * MaxDelay < Ttl
          ELSE MaxRun[c] + MaxDelay < Ttl

\* Two servers never run their callbacks at the same time, as long as the
\* delays leave every lease alive until its callback is over.
MutualExclusion ==
    Timely => \A c, d \in Calls : pc[c] = "callback" /\ pc[d] = "callback" => c = d

\* Whatever the delays, a key that is alive passes from its owner only by that
\* owner's own release, and its lease is changed only by that owner's renewal:
\* a late release or renewal of an expired lease touches nobody else's lock.
OwnLeaseOnly ==
    [][Locked /\ ~ReleaseAll =>
         /\ owner' # owner => Release(owner)
         /\ owner' = owner /\ expiresAt' # expiresAt => Renew(owner)]_vars

\* However a call ends (crash, lost reply, lost release), its lock does not
\* outlive it by more than a command's delay and one lease.
LeaseEnds ==
    \A c \in Calls :
       pc[c] \in Over /\ owner = c => expiresAt <= since[c] + MaxDelay + InitialTtl

\* Every call of run() returns, throws or dies with its server.
EveryCallEnds == \A c \in Calls : pc[c] # "idle" ~> pc[c] \in Over

-----------------------------------------------------------------------------
(* The inductive invariant behind the theorems of DistributedLockProofs.   *)

\* What a call can have on the wire while it is alive.
Shape(c) ==
    /\ pc[c] \in {"idle", "granted", "denied", "sleep"} => wire[c] = <<>>
    /\ pc[c] = "acquire" => Len(wire[c]) = 1 /\ wire[c][1].cmd = "set"
    /\ pc[c] = "callback" /\ c \notin AutoRenew => wire[c] = <<>>
    /\ pc[c] = "callback" => \A i \in DOMAIN wire[c] : wire[c][i].cmd = "renew"

\* Nothing is later than the clock allows.
Prompt(c) ==
    /\ \A i \in DOMAIN wire[c] :
          wire[c][i].at <= now /\ now <= wire[c][i].at + MaxDelay
    /\ pc[c] = "granted" => timer[c] <= now /\ now <= timer[c] + MaxDelay
    /\ pc[c] = "callback" => since[c] <= now /\ now <= since[c] + MaxRun[c]
    /\ pc[c] = "callback" /\ c \in AutoRenew =>
          timer[c] <= now + RenewInterval /\ now <= timer[c] + MaxLag

\* A call between its grant and the end of its callback owns the key, with a
\* lease that reaches beyond the arrival of the next renewal, or beyond the
\* longest callback.
Leased(c) ==
    /\ pc[c] = "granted" => owner = c /\ expiresAt >= timer[c] + Ttl
    /\ pc[c] = "callback" /\ c \notin AutoRenew =>
          owner = c /\ expiresAt + MaxDelay >= since[c] + Ttl
    /\ pc[c] = "callback" /\ c \in AutoRenew =>
          /\ owner = c
          /\ wire[c] = <<>> => expiresAt > timer[c] + MaxLag + MaxDelay
          /\ wire[c] # <<>> => expiresAt > wire[c][1].at + MaxDelay

\* A call that is over sends nothing more; no lease is longer than the first.
NoLateSends ==
    /\ expiresAt <= now + InitialTtl
    /\ \A c \in Calls : pc[c] \in Over =>
          \A i \in DOMAIN wire[c] : wire[c][i].at <= since[c]

IInv ==
    /\ TypeOK
    /\ \A c \in Calls : Shape(c) /\ Prompt(c)
    /\ Timely => \A c \in Calls : Leased(c)
    /\ NoLateSends
    /\ LeaseEnds

-----------------------------------------------------------------------------
(* run() implements ExclusiveRun when its timing is right.                 *)

phase == [c \in Calls |->
            IF pc[c] \in {"release"} \cup Over THEN "over"
            ELSE IF pc[c] = "callback" THEN "running"
            ELSE "waiting"]

Exclusive == INSTANCE ExclusiveRun WITH phase <- phase

ImplementsExclusiveRun == Exclusive!ExclusiveSpec
=============================================================================
