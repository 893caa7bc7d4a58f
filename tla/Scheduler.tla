----------------------------- MODULE Scheduler -----------------------------
(***************************************************************************)
(* Class Scheduler of system/core/scheduler.ts on several servers, and the *)
(* lock its runs take through DistributedLock.runScheduled().  An action   *)
(* is one call, one cron callback up to its first await, or one later      *)
(* stretch of it.                                                          *)
(*                                                                         *)
(* A TrackedJob object, a cron handle and a firing keep their index for    *)
(* ever, as the closures refer to them.  The lock is as DistributedLock    *)
(* promises it: a holder that renews keeps it.  Counters, timestamps and   *)
(* error texts are left out: nothing reads them.                           *)
(***************************************************************************)
EXTENDS Naturals, SequencesExt

CONSTANTS
    Servers,      \* processes that run the same scheduled jobs
    JobNames,     \* names given to Scheduler.add()
    Redis,        \* the store the redis lock driver of every server uses
    MaxTracked,   \* bound: TrackedJob objects ever made
    MaxCrons,     \* bound: cron handles ever made
    MaxFirings,   \* bound: cron callbacks ever called
    MaxSwitches   \* bound: calls that switch the lock on, off or over

ASSUME SchedulerAssumption ==
    /\ Redis \notin Servers
    /\ {MaxTracked, MaxCrons, MaxFirings, MaxSwitches} \subseteq Nat

VARIABLES
    tracked,      \* the TrackedJob objects ever made
    jobs,         \* Scheduler.jobs on each server: 0 or an index into tracked
    crons,        \* the handles Bun.cron() returned
    firings,      \* the cron callbacks that were called
    lockEnabled,  \* Scheduler.lockEnabled
    lockDriver,   \* DistributedLock.config.driver
    switches,     \* calls that switched it so far
    holders,      \* who holds "scheduled:<name>", in each memory and in Redis
    halted,       \* history: jobs stopAll() stopped and disable() did not
    forgotten     \* history: firings whose lock enableDistributedLock() dropped

lockConfig == <<lockEnabled, lockDriver, switches>>

lockVars == <<lockConfig, holders, forgotten>>

schedulerVars == <<tracked, jobs, crons, firings, halted, lockVars>>

TrackedJob == [server : Servers, name : JobNames, enabled : BOOLEAN, cronJob : 0 .. MaxCrons]

\* add() makes handles that look their job up by name, enable() one that
\* keeps the job.
Cron == [server : Servers, name : JobNames, job : 0 .. MaxTracked, live : BOOLEAN]

Firing == [server : Servers, job : 1 .. MaxTracked, guarded : BOOLEAN,
           pc : {"acquiring", "executing", "over"}]

NoHolder == 0

SchedulerTypeOK ==
    /\ tracked \in Seq(TrackedJob)
    /\ jobs \in [Servers -> [JobNames -> 0 .. MaxTracked]]
    /\ crons \in Seq(Cron)
    /\ firings \in Seq(Firing)
    /\ lockEnabled \in [Servers -> BOOLEAN]
    /\ lockDriver \in [Servers -> {"memory", "redis"}]
    /\ switches \in 0 .. MaxSwitches
    /\ holders \in [Servers \cup {Redis} -> [JobNames -> 0 .. MaxFirings]]
    /\ halted \subseteq 1 .. MaxTracked
    /\ forgotten \subseteq 1 .. MaxFirings

SchedulerInit ==
    /\ tracked = <<>>
    /\ jobs = [s \in Servers |-> [n \in JobNames |-> 0]]
    /\ crons = <<>>
    /\ firings = <<>>
    /\ lockEnabled = [s \in Servers |-> FALSE]
    /\ lockDriver = [s \in Servers |-> "memory"]
    /\ switches = 0
    /\ holders = [d \in Servers \cup {Redis} |-> [n \in JobNames |-> NoHolder]]
    /\ halted = {}
    /\ forgotten = {}

-----------------------------------------------------------------------------
(* The calls.                                                              *)

NameOf(f) == tracked[firings[f].job].name

Registered(s) == {jobs[s][n] : n \in JobNames} \ {0}

Stopped(handles) == [c \in DOMAIN crons |->
                        IF c \in handles THEN [crons[c] EXCEPT !.live = FALSE] ELSE crons[c]]

add(s, n, enabled) ==
    LET old == IF jobs[s][n] = 0 THEN 0 ELSE tracked[jobs[s][n]].cronJob
        cron == [server |-> s, name |-> n, job |-> 0, live |-> TRUE]
        handles == IF enabled THEN Append(Stopped({old}), cron) ELSE Stopped({old})
    IN
    /\ Len(tracked) < MaxTracked
    /\ Len(crons) < MaxCrons
    /\ crons' = handles
    /\ tracked' = Append(tracked, [server |-> s, name |-> n, enabled |-> enabled,
                                   cronJob |-> IF enabled THEN Len(handles) ELSE 0])
    /\ jobs' = [jobs EXCEPT ![s][n] = Len(tracked) + 1]
    /\ UNCHANGED <<firings, halted, lockVars>>

remove(s, n) ==
    /\ jobs[s][n] # 0
    /\ crons' = Stopped({tracked[jobs[s][n]].cronJob})
    /\ jobs' = [jobs EXCEPT ![s][n] = 0]
    /\ UNCHANGED <<tracked, firings, halted, lockVars>>

\* A handle that keeps its TrackedJob, unless the job is enabled already.
enable(s, n) ==
    LET j == jobs[s][n] IN
    /\ j # 0 /\ ~ tracked[j].enabled
    /\ Len(crons) < MaxCrons
    /\ crons' = Append(crons, [server |-> s, name |-> n, job |-> j, live |-> TRUE])
    /\ tracked' = [tracked EXCEPT ![j].enabled = TRUE, ![j].cronJob = Len(crons) + 1]
    /\ UNCHANGED <<jobs, firings, halted, lockVars>>

\* Variant: the handle is dropped before it is stopped.
disableLeaks(s, n) ==
    LET j == jobs[s][n] IN
    /\ j # 0
    /\ tracked' = [tracked EXCEPT ![j].enabled = FALSE, ![j].cronJob = 0]
    /\ halted' = halted \ {j}
    /\ UNCHANGED <<jobs, crons, firings, lockVars>>

disable(s, n) ==
    LET j == jobs[s][n] IN
    /\ j # 0
    /\ crons' = IF tracked[j].enabled THEN Stopped({tracked[j].cronJob}) ELSE crons
    /\ tracked' = [tracked EXCEPT ![j].enabled = FALSE, ![j].cronJob = 0]
    /\ halted' = halted \ {j}
    /\ UNCHANGED <<jobs, firings, lockVars>>

\* enable() for every job that is not enabled.
startAll(s) ==
    LET off == SetToSeq({j \in Registered(s) : ~ tracked[j].enabled})
        handle(i) == Len(crons) + i
    IN
    /\ Registered(s) # {}
    /\ Len(crons) + Len(off) <= MaxCrons
    /\ crons' = crons \o [i \in DOMAIN off |->
                             [server |-> s, name |-> tracked[off[i]].name,
                              job |-> off[i], live |-> TRUE]]
    /\ tracked' = [j \in DOMAIN tracked |->
                      IF j \in Range(off)
                      THEN [tracked[j] EXCEPT !.enabled = TRUE,
                                              !.cronJob = handle(CHOOSE i \in DOMAIN off : off[i] = j)]
                      ELSE tracked[j]]
    /\ UNCHANGED <<jobs, firings, halted, lockVars>>

\* enabled stays TRUE.
stopAll(s) ==
    /\ crons' = Stopped({tracked[j].cronJob : j \in Registered(s)})
    /\ tracked' = [j \in DOMAIN tracked |->
                      IF j \in Registered(s) THEN [tracked[j] EXCEPT !.cronJob = 0]
                      ELSE tracked[j]]
    /\ halted' = halted \cup {j \in Registered(s) : tracked[j].enabled}
    /\ UNCHANGED <<jobs, firings, lockVars>>

-----------------------------------------------------------------------------
(* The lock.                                                               *)

\* DistributedLock.getDriver(): where a server's locks are.
DriverOf(s) == IF lockDriver[s] = "redis" THEN Redis ELSE s

Executing(f) == firings[f].pc = "executing"

\* The firings of server s that hold a lock with its driver.
HoldersOn(s) == {f \in DOMAIN firings :
                    firings[f].server = s /\ holders[DriverOf(s)][NameOf(f)] = f}

\* configure() drops the driver, and a memory driver its locks with it.
enableDistributedLock(s, driver) ==
    LET same == lockDriver[s] = "redis" /\ driver = "redis" IN
    /\ switches < MaxSwitches
    /\ switches' = switches + 1
    /\ lockEnabled' = [lockEnabled EXCEPT ![s] = TRUE]
    /\ lockDriver' = [lockDriver EXCEPT ![s] = driver]
    /\ holders' = [holders EXCEPT ![s] = [n \in JobNames |-> NoHolder]]
    /\ forgotten' = IF same THEN forgotten ELSE forgotten \cup HoldersOn(s)
    /\ UNCHANGED <<tracked, jobs, crons, firings, halted>>

disableDistributedLock(s) ==
    /\ lockEnabled[s] /\ switches < MaxSwitches
    /\ switches' = switches + 1
    /\ lockEnabled' = [lockEnabled EXCEPT ![s] = FALSE]
    /\ UNCHANGED <<tracked, jobs, crons, firings, halted, lockDriver, holders, forgotten>>

\* acquire(): one attempt, maxRetries is 1.
Free(s, n) == holders[DriverOf(s)][n] = NoHolder

\* release(): by its owner only, with the driver of now.
Released(f) ==
    LET d == DriverOf(firings[f].server) IN
    IF holders[d][NameOf(f)] = f THEN [holders EXCEPT ![d][NameOf(f)] = NoHolder]
    ELSE holders

\* The lease of a key in Redis whose holder is over, or renews elsewhere.
leaseEnds(n) ==
    LET f == holders[Redis][n] IN
    /\ f # NoHolder
    /\ ~ Executing(f) \/ lockDriver[firings[f].server] # "redis"
    /\ holders' = [holders EXCEPT ![Redis][n] = NoHolder]
    /\ UNCHANGED <<tracked, jobs, crons, firings, lockConfig, halted, forgotten>>

-----------------------------------------------------------------------------
(* The cron callback.                                                      *)

\* The job a handle's callback works on.
JobOf(c) == IF crons[c].job = 0 THEN jobs[crons[c].server][crons[c].name] ELSE crons[c].job

\* The callback up to its first await.  The memory driver answers in the same
\* turn; a Redis server's answer is awaited.
fires(c) ==
    LET s == crons[c].server
        j == JobOf(c)
        pc == IF ~ lockEnabled[s] THEN "executing"
              ELSE IF lockDriver[s] = "redis" THEN "acquiring"
              ELSE IF Free(s, crons[c].name) THEN "executing" ELSE "over"
        f == Len(firings) + 1
    IN
    /\ crons[c].live
    /\ Len(firings) < MaxFirings
    /\ j # 0
    /\ tracked[j].enabled
    /\ firings' = Append(firings, [server |-> s, job |-> j, guarded |-> lockEnabled[s],
                                   pc |-> pc])
    /\ holders' = IF lockEnabled[s] /\ pc = "executing"
                  THEN [holders EXCEPT ![s][crons[c].name] = f] ELSE holders
    /\ UNCHANGED <<tracked, jobs, crons, lockConfig, halted, forgotten>>

\* The answer to SET NX: execute the job, as it was when the callback began,
\* or skip it.
answered(f) ==
    LET free == holders[Redis][NameOf(f)] = NoHolder IN
    /\ firings[f].pc = "acquiring"
    /\ firings' = [firings EXCEPT ![f].pc = IF free THEN "executing" ELSE "over"]
    /\ holders' = IF free THEN [holders EXCEPT ![Redis][NameOf(f)] = f] ELSE holders
    /\ forgotten' = IF free /\ lockDriver[firings[f].server] # "redis"
                    THEN forgotten \cup {f} ELSE forgotten
    /\ UNCHANGED <<tracked, jobs, crons, lockConfig, halted>>

\* executeJob() catches what the handler throws; then run() releases the lock.
executed(f) ==
    /\ Executing(f)
    /\ firings' = [firings EXCEPT ![f].pc = "over"]
    /\ holders' = IF firings[f].guarded THEN Released(f) ELSE holders
    /\ UNCHANGED <<tracked, jobs, crons, lockConfig, halted, forgotten>>

SchedulerNext ==
    \/ \E s \in Servers, n \in JobNames :
          \/ \E enabled \in BOOLEAN : add(s, n, enabled)
          \/ remove(s, n)
          \/ enable(s, n)
          \/ disable(s, n)
    \/ \E s \in Servers :
          \/ startAll(s)
          \/ stopAll(s)
          \/ \E driver \in {"memory", "redis"} : enableDistributedLock(s, driver)
          \/ disableDistributedLock(s)
    \/ \E c \in DOMAIN crons : fires(c)
    \/ \E f \in DOMAIN firings : answered(f) \/ executed(f)
    \/ \E n \in JobNames : leaseEnds(n)

SchedulerSpec == SchedulerInit /\ [][SchedulerNext]_schedulerVars

-----------------------------------------------------------------------------
(* Properties.                                                             *)

LiveCrons(s, n) == {c \in DOMAIN crons :
                       crons[c].live /\ crons[c].server = s /\ crons[c].name = n}

\* add(), remove(), enable(), disable(), startAll(), stopAll(): whatever their
\* order, a name's only timer is that of its job, and an enabled job has one,
\* unless stopAll() took it: then disable() must come before enable().
OneTimerPerJob ==
    \A s \in Servers, n \in JobNames :
       LET j == jobs[s][n] IN
       LiveCrons(s, n) = IF j = 0 THEN {}
                         ELSE IF tracked[j].enabled /\ j \notin halted THEN {tracked[j].cronJob}
                         ELSE {}

\* runScheduled(): two runs of one job that took its lock with the same driver
\* are not in progress at once, on whatever servers, unless
\* enableDistributedLock() dropped the lock of one of them meanwhile.
OneRunPerLock ==
    \A f \in DOMAIN firings, g \in DOMAIN firings :
       /\ f # g /\ NameOf(f) = NameOf(g)
       /\ Executing(f) /\ Executing(g)
       /\ firings[f].guarded /\ firings[g].guarded
       /\ \/ firings[f].server = firings[g].server
          \/ lockDriver[firings[f].server] = "redis" /\ lockDriver[firings[g].server] = "redis"
       => {f, g} \cap forgotten # {}

\* add(), enable(), startAll(), runScheduled(): a job fires from one timer, and its
\* runs under the lock do not overlap.
ScheduledOnce == OneTimerPerJob /\ OneRunPerLock

-----------------------------------------------------------------------------
(* The inductive invariant behind the theorems of ServersProofs.           *)

\* An index refers to an object that was made, of the server and the name it
\* stands for.
Referring ==
    /\ Len(tracked) <= MaxTracked /\ Len(crons) <= MaxCrons /\ Len(firings) <= MaxFirings
    /\ \A s \in Servers, n \in JobNames :
          jobs[s][n] # 0 => /\ jobs[s][n] \in DOMAIN tracked
                            /\ tracked[jobs[s][n]].server = s
                            /\ tracked[jobs[s][n]].name = n
    /\ \A c \in DOMAIN crons :
          crons[c].job # 0 => /\ crons[c].job \in DOMAIN tracked
                              /\ tracked[crons[c].job].server = crons[c].server
                              /\ tracked[crons[c].job].name = crons[c].name
    /\ \A f \in DOMAIN firings : firings[f].job \in DOMAIN tracked

\* A job that is off, or that stopAll() stopped, keeps no handle it could stop
\* instead of another's.
NoStaleHandle ==
    /\ \A j \in DOMAIN tracked :
          ~ tracked[j].enabled \/ j \in halted => tracked[j].cronJob = 0
    /\ \A j \in halted : j \in DOMAIN tracked /\ tracked[j].enabled

\* A run under the lock is the holder its server's driver knows.
LockHeld ==
    \A f \in DOMAIN firings :
       Executing(f) /\ firings[f].guarded /\ f \notin forgotten =>
          holders[DriverOf(firings[f].server)][NameOf(f)] = f

SchedulerInv ==
    SchedulerTypeOK /\ Referring /\ NoStaleHandle /\ OneTimerPerJob /\ LockHeld

=============================================================================
