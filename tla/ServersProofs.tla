--------------------------- MODULE ServersProofs ---------------------------
(***************************************************************************)
(* For any number of servers, jobs, processes, messages, files and         *)
(* commands: the scheduler keeps one timer per enabled job and, under the  *)
(* lock, one run at a time; the table of migrations records the schema; a  *)
(* broadcast is handled once per channel by everybody who listens; what    *)
(* send() of an e-mail answers is what became of the message.              *)
(***************************************************************************)
EXTENDS Scheduler, Migrations, BroadcastQueue, Mail, SeqLemmas

-----------------------------------------------------------------------------
(* Scheduler: timers.                                                      *)

\* Objects are found at the indices that refer to them, with the types the code
\* gives them.
LEMMA SchedulerFacts ==
    ASSUME SchedulerAssumption, SchedulerTypeOK
    PROVE  /\ MaxTracked \in Nat /\ MaxCrons \in Nat /\ MaxFirings \in Nat /\ MaxSwitches \in Nat
           /\ Len(tracked) \in Nat /\ DOMAIN tracked = 1 .. Len(tracked)
           /\ Len(crons) \in Nat /\ DOMAIN crons = 1 .. Len(crons)
           /\ Len(firings) \in Nat /\ DOMAIN firings = 1 .. Len(firings)
           /\ \A j \in DOMAIN tracked : tracked[j] \in TrackedJob
           /\ \A c \in DOMAIN crons : crons[c] \in Cron
           /\ \A f \in DOMAIN firings : firings[f] \in Firing
<1>1. MaxTracked \in Nat /\ MaxCrons \in Nat /\ MaxFirings \in Nat /\ MaxSwitches \in Nat
  BY DEF SchedulerAssumption
<1>2. Len(tracked) \in Nat /\ DOMAIN tracked = 1 .. Len(tracked)
      /\ \A j \in DOMAIN tracked : tracked[j] \in TrackedJob
  BY LenProperties, ElementOfSeq DEF SchedulerTypeOK
<1>3. Len(crons) \in Nat /\ DOMAIN crons = 1 .. Len(crons)
      /\ \A c \in DOMAIN crons : crons[c] \in Cron
  BY LenProperties, ElementOfSeq DEF SchedulerTypeOK
<1>4. Len(firings) \in Nat /\ DOMAIN firings = 1 .. Len(firings)
      /\ \A f \in DOMAIN firings : firings[f] \in Firing
  BY LenProperties, ElementOfSeq DEF SchedulerTypeOK
<1>. QED
  BY <1>1, <1>2, <1>3, <1>4

\* stop() of some handles ends them and leaves what the others are.
LEMMA StoppedLemma ==
    ASSUME SchedulerAssumption, SchedulerTypeOK, NEW handles
    PROVE  /\ Stopped(handles) \in Seq(Cron)
           /\ Len(Stopped(handles)) = Len(crons)
           /\ DOMAIN Stopped(handles) = DOMAIN crons
           /\ \A c \in DOMAIN crons :
                 /\ Stopped(handles)[c].server = crons[c].server
                 /\ Stopped(handles)[c].name = crons[c].name
                 /\ Stopped(handles)[c].job = crons[c].job
                 /\ Stopped(handles)[c].live <=> crons[c].live /\ c \notin handles
<1>1. \A c \in DOMAIN crons : crons[c] \in Cron
  BY SchedulerFacts
<1>2. \A c \in DOMAIN crons :
         /\ [crons[c] EXCEPT !.live = FALSE] \in Cron
         /\ [crons[c] EXCEPT !.live = FALSE].server = crons[c].server
         /\ [crons[c] EXCEPT !.live = FALSE].name = crons[c].name
         /\ [crons[c] EXCEPT !.live = FALSE].job = crons[c].job
         /\ [crons[c] EXCEPT !.live = FALSE].live = FALSE
  BY <1>1 DEF Cron
<1>3. DOMAIN Stopped(handles) = DOMAIN crons
  BY DEF Stopped
<1>4. \A c \in DOMAIN crons :
         Stopped(handles)[c] = IF c \in handles THEN [crons[c] EXCEPT !.live = FALSE] ELSE crons[c]
  BY DEF Stopped
<1>5. Stopped(handles) \in [1 .. Len(crons) -> Cron]
  BY <1>1, <1>2, <1>4, SchedulerFacts DEF Stopped
<1>6. Stopped(handles) \in Seq(Cron) /\ Len(Stopped(handles)) = Len(crons)
  BY <1>5, SchedulerFacts
<1>7. \A c \in DOMAIN crons : crons[c].live \in BOOLEAN
  BY <1>1 DEF Cron
<1>. QED
  BY <1>2, <1>3, <1>4, <1>6, <1>7

\* A timer that is live is that of the job registered under its name.
LEMMA LiveTimer ==
    ASSUME SchedulerAssumption, SchedulerTypeOK, OneTimerPerJob,
           NEW c \in DOMAIN crons, crons[c].live
    PROVE  LET j == jobs[crons[c].server][crons[c].name] IN
           j # 0 /\ tracked[j].enabled /\ j \notin halted /\ tracked[j].cronJob = c
<1>1. crons[c] \in Cron
  BY SchedulerFacts
<1>2. crons[c].server \in Servers /\ crons[c].name \in JobNames
  BY <1>1 DEF Cron
<1>3. c \in LiveCrons(crons[c].server, crons[c].name)
  BY DEF LiveCrons
<1>. QED
  BY <1>2, <1>3 DEF OneTimerPerJob

\* An enabled job that stopAll() did not stop has a live timer of its name.
LEMMA TimerLives ==
    ASSUME OneTimerPerJob, NEW s \in Servers, NEW n \in JobNames, jobs[s][n] # 0,
           tracked[jobs[s][n]].enabled, jobs[s][n] \notin halted
    PROVE  LET c == tracked[jobs[s][n]].cronJob IN
           c \in DOMAIN crons /\ crons[c].live /\ crons[c].server = s /\ crons[c].name = n
<1>1. tracked[jobs[s][n]].cronJob \in LiveCrons(s, n)
  BY DEF OneTimerPerJob
<1>. QED
  BY <1>1 DEF LiveCrons

\* OneTimerPerJob, seen from the timers and from the jobs.
LiveAreCurrent ==
    \A c \in DOMAIN crons : crons[c].live =>
       LET j == jobs[crons[c].server][crons[c].name] IN
       j # 0 /\ tracked[j].enabled /\ j \notin halted /\ tracked[j].cronJob = c

EnabledAreLive ==
    \A s \in Servers, n \in JobNames :
       LET j == jobs[s][n] IN
       j # 0 /\ tracked[j].enabled /\ j \notin halted =>
          /\ tracked[j].cronJob \in DOMAIN crons
          /\ crons[tracked[j].cronJob].live
          /\ crons[tracked[j].cronJob].server = s
          /\ crons[tracked[j].cronJob].name = n

\* The two views are enough.
LEMMA TimerForm == LiveAreCurrent /\ EnabledAreLive => OneTimerPerJob
<1>. SUFFICES ASSUME LiveAreCurrent, EnabledAreLive, NEW s \in Servers, NEW n \in JobNames
              PROVE  LET j == jobs[s][n] IN
                     LiveCrons(s, n) = IF j = 0 THEN {}
                                       ELSE IF tracked[j].enabled /\ j \notin halted
                                            THEN {tracked[j].cronJob}
                                       ELSE {}
  BY DEF OneTimerPerJob
<1>1. \A c \in LiveCrons(s, n) :
         /\ jobs[s][n] # 0 /\ tracked[jobs[s][n]].enabled /\ jobs[s][n] \notin halted
         /\ tracked[jobs[s][n]].cronJob = c
  BY DEF LiveAreCurrent, LiveCrons
<1>2. jobs[s][n] # 0 /\ tracked[jobs[s][n]].enabled /\ jobs[s][n] \notin halted =>
         tracked[jobs[s][n]].cronJob \in LiveCrons(s, n)
  BY DEF EnabledAreLive, LiveCrons
<1>. QED
  BY <1>1, <1>2

\* The same of the next state.
LEMMA TimerFormNext == LiveAreCurrent' /\ EnabledAreLive' => OneTimerPerJob'
  BY TimerForm, PTL

\* The invariant has both views.
LEMMA TimerViews ==
    ASSUME SchedulerAssumption, SchedulerTypeOK, OneTimerPerJob
    PROVE  LiveAreCurrent /\ EnabledAreLive
  BY LiveTimer, TimerLives DEF LiveAreCurrent, EnabledAreLive

\* add(), enable() and the like keep the invariant if they keep what an index
\* refers to, leave no stale handle, and keep timers and jobs together: the lock
\* is not theirs.
LEMMA TimersStep ==
    ASSUME SchedulerAssumption, SchedulerInv, UNCHANGED <<firings, lockVars>>,
           tracked' \in Seq(TrackedJob),
           Len(tracked) <= Len(tracked'), Len(tracked') <= MaxTracked,
           \A j \in DOMAIN tracked : /\ tracked'[j].server = tracked[j].server
                                     /\ tracked'[j].name = tracked[j].name,
           jobs' \in [Servers -> [JobNames -> 0 .. MaxTracked]],
           \A s \in Servers, n \in JobNames : jobs'[s][n] # 0 =>
              /\ jobs'[s][n] \in DOMAIN tracked'
              /\ tracked'[jobs'[s][n]].server = s
              /\ tracked'[jobs'[s][n]].name = n,
           crons' \in Seq(Cron), Len(crons') <= MaxCrons,
           \A c \in DOMAIN crons' : crons'[c].job # 0 =>
              /\ crons'[c].job \in DOMAIN tracked
              /\ tracked[crons'[c].job].server = crons'[c].server
              /\ tracked[crons'[c].job].name = crons'[c].name,
           NoStaleHandle', LiveAreCurrent', EnabledAreLive'
    PROVE  SchedulerInv'
<1>. SchedulerTypeOK /\ Referring /\ LockHeld
  BY DEF SchedulerInv
<1>. /\ MaxTracked \in Nat /\ Len(tracked) \in Nat /\ DOMAIN tracked = 1 .. Len(tracked)
     /\ Len(tracked') \in Nat /\ DOMAIN tracked' = 1 .. Len(tracked')
  BY SchedulerFacts, LenProperties
<1>1. halted' \subseteq 1 .. MaxTracked
  BY DEF NoStaleHandle
<1>2. SchedulerTypeOK'
  BY <1>1 DEF SchedulerTypeOK, lockVars, lockConfig
<1>3. DOMAIN tracked \subseteq DOMAIN tracked'
  OBVIOUS
<1>4. Referring'
  <2>1. \A c \in DOMAIN crons' : crons'[c].job # 0 =>
           /\ crons'[c].job \in DOMAIN tracked'
           /\ tracked'[crons'[c].job].server = crons'[c].server
           /\ tracked'[crons'[c].job].name = crons'[c].name
    BY <1>3
  <2>2. Len(firings') <= MaxFirings /\ \A f \in DOMAIN firings' : firings'[f].job \in DOMAIN tracked'
    BY <1>3 DEF Referring
  <2>. QED
    BY <2>1, <2>2 DEF Referring
<1>5. LockHeld'
  <2>1. \A f \in DOMAIN firings : NameOf(f)' = NameOf(f)
    BY DEF Referring, NameOf
  <2>2. \A f \in DOMAIN firings : /\ Executing(f)' <=> Executing(f)
                                  /\ DriverOf(firings[f].server)' = DriverOf(firings[f].server)
    BY DEF Executing, DriverOf, lockVars, lockConfig
  <2>. QED
    BY <2>1, <2>2 DEF LockHeld, lockVars
<1>6. OneTimerPerJob'
  BY TimerFormNext
<1>. QED
  BY <1>2, <1>4, <1>5, <1>6 DEF SchedulerInv

\* The handle that add(), remove() and disable() stop.
HandleOf(s, n) == IF jobs[s][n] = 0 THEN 0 ELSE tracked[jobs[s][n]].cronJob

\* Stopping it ends the timers of that name on that server, and no others.
LEMMA StopOwn ==
    ASSUME SchedulerAssumption, SchedulerInv, NEW s \in Servers, NEW n \in JobNames
    PROVE  \A c \in DOMAIN crons :
              Stopped({HandleOf(s, n)})[c].live <=>
                 crons[c].live /\ ~ (crons[c].server = s /\ crons[c].name = n)
<1>. SchedulerTypeOK /\ Referring /\ NoStaleHandle /\ OneTimerPerJob
  BY DEF SchedulerInv
<1>. SUFFICES ASSUME NEW c \in DOMAIN crons, crons[c].live
              PROVE  c = HandleOf(s, n) <=> crons[c].server = s /\ crons[c].name = n
  BY StoppedLemma
<1>1. ASSUME crons[c].server = s, crons[c].name = n
      PROVE  c = HandleOf(s, n)
  BY <1>1, TimerViews DEF LiveAreCurrent, HandleOf
<1>2. ASSUME c = HandleOf(s, n)
      PROVE  crons[c].server = s /\ crons[c].name = n
  <2>1. c # 0
    BY SchedulerFacts
  <2>2. jobs[s][n] # 0 /\ c = tracked[jobs[s][n]].cronJob
    BY <1>2, <2>1 DEF HandleOf
  <2>3. jobs[s][n] \in DOMAIN tracked
    BY <2>2 DEF Referring
  <2>4. tracked[jobs[s][n]].enabled /\ jobs[s][n] \notin halted
    BY <2>1, <2>2, <2>3 DEF NoStaleHandle
  <2>. QED
    BY <2>2, <2>4, TimerViews DEF EnabledAreLive
<1>. QED
  BY <1>1, <1>2

\* add(): the old timer of the name goes, the new one is that of the new job.
LEMMA AddStep ==
    ASSUME SchedulerAssumption, SchedulerInv, NEW s \in Servers, NEW n \in JobNames,
           NEW enabled \in BOOLEAN, add(s, n, enabled)
    PROVE  SchedulerInv'
<1>. SchedulerTypeOK /\ Referring /\ NoStaleHandle /\ OneTimerPerJob
  BY DEF SchedulerInv
<1> DEFINE base == Stopped({HandleOf(s, n)})
           cron == [server |-> s, name |-> n, job |-> 0, live |-> TRUE]
           k == Len(crons) + 1
           new == [server |-> s, name |-> n, enabled |-> enabled,
                   cronJob |-> IF enabled THEN k ELSE 0]
           j == Len(tracked) + 1
<1>1. /\ Len(tracked) < MaxTracked /\ Len(crons) < MaxCrons
      /\ crons' = IF enabled THEN Append(base, cron) ELSE base
      /\ jobs' = [jobs EXCEPT ![s][n] = j]
      /\ UNCHANGED <<firings, halted, lockVars>>
  BY DEF add, HandleOf
<1>2. base \in Seq(Cron) /\ Len(base) = Len(crons) /\ DOMAIN base = DOMAIN crons
  BY StoppedLemma
<1>3. cron \in Cron
  BY SchedulerFacts DEF Cron
<1>4. tracked' = Append(tracked, new)
  <2>1. enabled => Len(crons') = k
    BY <1>1, <1>2, <1>3, AppendProperties
  <2>. QED
    BY <1>1, <2>1 DEF add, HandleOf
<1>5. new \in TrackedJob
  BY <1>1, SchedulerFacts DEF TrackedJob
<1>. HIDE DEF base
<1>6. /\ tracked' \in Seq(TrackedJob) /\ Len(tracked') = j /\ DOMAIN tracked' = 1 .. j
      /\ \A i \in DOMAIN tracked : tracked'[i] = tracked[i]
      /\ tracked'[j] = new
  <2>1. tracked \in Seq(TrackedJob)
    BY DEF SchedulerTypeOK
  <2>2. /\ Append(tracked, new) \in Seq(TrackedJob)
        /\ Len(Append(tracked, new)) = j
        /\ \A i \in 1 .. Len(tracked) : Append(tracked, new)[i] = tracked[i]
        /\ Append(tracked, new)[j] = new
    BY <1>5, <2>1, AppendProperties
  <2>. QED
    BY <1>4, <2>2, SchedulerFacts, LenProperties
<1>7. /\ crons' \in Seq(Cron) /\ Len(crons') <= MaxCrons
      /\ \A c \in DOMAIN crons' : \/ c \in DOMAIN crons /\ crons'[c] = base[c]
                                  \/ enabled /\ c = k /\ crons'[c] = cron
      /\ \A c \in DOMAIN crons : c \in DOMAIN crons' /\ crons'[c] = base[c]
      /\ enabled => k \in DOMAIN crons' /\ crons'[k] = cron
  <2>1. CASE ~ enabled
    BY <1>1, <1>2, <2>1, SchedulerFacts
  <2>2. CASE enabled
    <3>1. /\ Append(base, cron) \in Seq(Cron)
          /\ Len(Append(base, cron)) = k
          /\ \A c \in 1 .. Len(crons) : Append(base, cron)[c] = base[c]
          /\ Append(base, cron)[k] = cron
      BY <1>2, <1>3, AppendProperties
    <3>. QED
      BY <1>1, <2>2, <3>1, SchedulerFacts, LenProperties
  <2>. QED
    BY <2>1, <2>2
<1>8. \A c \in DOMAIN crons :
         /\ base[c].server = crons[c].server
         /\ base[c].name = crons[c].name
         /\ base[c].job = crons[c].job
         /\ base[c].live <=> crons[c].live /\ ~ (crons[c].server = s /\ crons[c].name = n)
  BY StoppedLemma, StopOwn DEF base
<1>9. /\ jobs' \in [Servers -> [JobNames -> 0 .. MaxTracked]]
      /\ jobs'[s][n] = j
      /\ \A t \in Servers, m \in JobNames : ~ (t = s /\ m = n) => jobs'[t][m] = jobs[t][m]
  <2>1. j \in 0 .. MaxTracked /\ jobs \in [Servers -> [JobNames -> 0 .. MaxTracked]]
    BY <1>1, SchedulerFacts DEF SchedulerTypeOK
  <2>. QED
    BY <1>1, <2>1
<1>10. j # 0 /\ j \notin halted /\ j \in DOMAIN tracked'
  BY <1>6, SchedulerFacts DEF NoStaleHandle
<1>11. /\ tracked'[j].server = s /\ tracked'[j].name = n
       /\ tracked'[j].enabled <=> enabled
       /\ enabled => tracked'[j].cronJob = k
       /\ ~ enabled => tracked'[j].cronJob = 0
  BY <1>6
<1>12. /\ cron.server = s /\ cron.name = n /\ cron.job = 0 /\ cron.live
  OBVIOUS
<1>. HIDE DEF new, cron
<1>13. \A t \in Servers, m \in JobNames : jobs'[t][m] # 0 =>
          /\ jobs'[t][m] \in DOMAIN tracked'
          /\ tracked'[jobs'[t][m]].server = t
          /\ tracked'[jobs'[t][m]].name = m
  BY <1>6, <1>9, <1>10, <1>11, SchedulerFacts DEF Referring
<1>14. \A c \in DOMAIN crons' : crons'[c].job # 0 =>
          /\ crons'[c].job \in DOMAIN tracked
          /\ tracked[crons'[c].job].server = crons'[c].server
          /\ tracked[crons'[c].job].name = crons'[c].name
  BY <1>7, <1>8, <1>12 DEF Referring
<1>15. NoStaleHandle'
  <2>1. \A i \in DOMAIN tracked' : i = j \/ i \in DOMAIN tracked
    BY <1>6, SchedulerFacts
  <2>2. \A i \in DOMAIN tracked' :
           ~ tracked'[i].enabled \/ i \in halted => tracked'[i].cronJob = 0
    BY <1>6, <1>10, <1>11, <2>1 DEF NoStaleHandle
  <2>3. \A i \in halted : i \in DOMAIN tracked' /\ tracked'[i].enabled
    BY <1>6, SchedulerFacts DEF NoStaleHandle
  <2>4. halted' = halted
    BY <1>1
  <2>. QED
    BY <2>2, <2>3, <2>4 DEF NoStaleHandle
<1>16. LiveAreCurrent'
  <2>. SUFFICES ASSUME NEW c \in DOMAIN crons', crons'[c].live
                PROVE  LET i == jobs'[crons'[c].server][crons'[c].name] IN
                       i # 0 /\ tracked'[i].enabled /\ i \notin halted /\ tracked'[i].cronJob = c
    BY <1>1 DEF LiveAreCurrent
  <2>1. CASE enabled /\ c = k /\ crons'[c] = cron
    BY <1>9, <1>10, <1>11, <1>12, <2>1
  <2>2. CASE c \in DOMAIN crons /\ crons'[c] = base[c]
    <3>1. /\ crons[c].live /\ ~ (crons[c].server = s /\ crons[c].name = n)
          /\ crons'[c].server = crons[c].server /\ crons'[c].name = crons[c].name
      BY <1>8, <2>2
    <3>2. crons[c].server \in Servers /\ crons[c].name \in JobNames
      BY <2>2, SchedulerFacts DEF Cron
    <3> DEFINE i == jobs[crons[c].server][crons[c].name]
    <3>3. i # 0 /\ tracked[i].enabled /\ i \notin halted /\ tracked[i].cronJob = c
      BY <2>2, <3>1, TimerViews DEF LiveAreCurrent
    <3>4. i \in DOMAIN tracked
      BY <3>2, <3>3 DEF Referring
    <3>5. jobs'[crons'[c].server][crons'[c].name] = i
      BY <1>9, <3>1, <3>2
    <3>6. tracked'[i] = tracked[i] /\ halted' = halted
      BY <1>1, <1>6, <3>4
    <3>. QED
      BY <3>3, <3>5, <3>6
  <2>. QED
    BY <1>7, <2>1, <2>2
<1>17. EnabledAreLive'
  <2>. SUFFICES ASSUME NEW t \in Servers, NEW m \in JobNames,
                       jobs'[t][m] # 0, tracked'[jobs'[t][m]].enabled, jobs'[t][m] \notin halted'
                PROVE  /\ tracked'[jobs'[t][m]].cronJob \in DOMAIN crons'
                       /\ crons'[tracked'[jobs'[t][m]].cronJob].live
                       /\ crons'[tracked'[jobs'[t][m]].cronJob].server = t
                       /\ crons'[tracked'[jobs'[t][m]].cronJob].name = m
    BY DEF EnabledAreLive
  <2>1. CASE t = s /\ m = n
    BY <1>7, <1>9, <1>11, <1>12, <2>1
  <2>2. CASE ~ (t = s /\ m = n)
    <3> DEFINE i == jobs[t][m]
    <3>1. jobs'[t][m] = i /\ i # 0 /\ i \in DOMAIN tracked /\ tracked'[i] = tracked[i]
      BY <1>6, <1>9, <2>2 DEF Referring
    <3>2. /\ tracked[i].cronJob \in DOMAIN crons
          /\ crons[tracked[i].cronJob].live
          /\ crons[tracked[i].cronJob].server = t
          /\ crons[tracked[i].cronJob].name = m
      BY <1>1, <3>1, TimerViews DEF EnabledAreLive
    <3>3. /\ tracked[i].cronJob \in DOMAIN crons'
          /\ crons'[tracked[i].cronJob] = base[tracked[i].cronJob]
      BY <1>7, <3>2
    <3>4. /\ base[tracked[i].cronJob].live
          /\ base[tracked[i].cronJob].server = t
          /\ base[tracked[i].cronJob].name = m
      BY <1>8, <2>2, <3>2
    <3> DEFINE c == tracked'[jobs'[t][m]].cronJob
    <3>5. c = tracked[i].cronJob
      BY <3>1
    <3>. HIDE DEF c
    <3>6. c \in DOMAIN crons' /\ crons'[c].live /\ crons'[c].server = t /\ crons'[c].name = m
      BY <3>3, <3>4, <3>5
    <3>. QED
      BY <3>6 DEF c
  <2>. QED
    BY <2>1, <2>2
<1>18. Len(tracked) <= Len(tracked') /\ Len(tracked') <= MaxTracked
  BY <1>1, <1>6, SchedulerFacts
<1>19. \A i \in DOMAIN tracked : /\ tracked'[i].server = tracked[i].server
                                 /\ tracked'[i].name = tracked[i].name
  BY <1>6
<1>20. UNCHANGED <<firings, lockVars>>
  BY <1>1
<1>. QED
  BY <1>6, <1>7, <1>9, <1>13, <1>14, <1>15, <1>16, <1>17, <1>18, <1>19, <1>20, TimersStep

\* When the timers of some names go, and with them the jobs or their being on,
\* timers and jobs stay together.
LEMMA TimersGo ==
    ASSUME SchedulerAssumption, SchedulerInv, NEW G,
           DOMAIN crons' = DOMAIN crons,
           \A c \in DOMAIN crons :
              /\ crons'[c].server = crons[c].server
              /\ crons'[c].name = crons[c].name
              /\ crons'[c].live <=> crons[c].live /\ <<crons[c].server, crons[c].name>> \notin G,
           \A t \in Servers, m \in JobNames : <<t, m>> \notin G =>
              /\ jobs'[t][m] = jobs[t][m]
              /\ jobs[t][m] # 0 => /\ tracked'[jobs[t][m]] = tracked[jobs[t][m]]
                                   /\ jobs[t][m] \in halted' <=> jobs[t][m] \in halted,
           \A t \in Servers, m \in JobNames : <<t, m>> \in G =>
              jobs'[t][m] = 0 \/ ~ tracked'[jobs'[t][m]].enabled \/ jobs'[t][m] \in halted'
    PROVE  LiveAreCurrent' /\ EnabledAreLive'
<1>. SchedulerTypeOK /\ OneTimerPerJob
  BY DEF SchedulerInv
<1>1. LiveAreCurrent /\ EnabledAreLive
  BY TimerViews
<1>2. LiveAreCurrent'
  <2>. SUFFICES ASSUME NEW c \in DOMAIN crons, crons'[c].live
                PROVE  LET i == jobs'[crons'[c].server][crons'[c].name] IN
                       i # 0 /\ tracked'[i].enabled /\ i \notin halted' /\ tracked'[i].cronJob = c
    BY DEF LiveAreCurrent
  <2> DEFINE t == crons[c].server
             m == crons[c].name
  <2>1. t \in Servers /\ m \in JobNames
    BY SchedulerFacts DEF Cron
  <2>2. crons[c].live /\ <<t, m>> \notin G /\ crons'[c].server = t /\ crons'[c].name = m
    OBVIOUS
  <2>3. /\ jobs[t][m] # 0 /\ tracked[jobs[t][m]].enabled
        /\ jobs[t][m] \notin halted /\ tracked[jobs[t][m]].cronJob = c
    BY <1>1, <2>2 DEF LiveAreCurrent
  <2>. HIDE DEF t, m
  <2>4. /\ jobs'[t][m] = jobs[t][m]
        /\ tracked'[jobs[t][m]] = tracked[jobs[t][m]]
        /\ jobs[t][m] \notin halted'
    BY <2>1, <2>2, <2>3
  <2>. QED
    BY <2>2, <2>3, <2>4
<1>3. EnabledAreLive'
  <2>. SUFFICES ASSUME NEW t \in Servers, NEW m \in JobNames,
                       jobs'[t][m] # 0, tracked'[jobs'[t][m]].enabled, jobs'[t][m] \notin halted'
                PROVE  /\ tracked'[jobs'[t][m]].cronJob \in DOMAIN crons'
                       /\ crons'[tracked'[jobs'[t][m]].cronJob].live
                       /\ crons'[tracked'[jobs'[t][m]].cronJob].server = t
                       /\ crons'[tracked'[jobs'[t][m]].cronJob].name = m
    BY DEF EnabledAreLive
  <2> DEFINE i == jobs[t][m]
             c == tracked[i].cronJob
  <2>1. <<t, m>> \notin G
    OBVIOUS
  <2>2. /\ jobs'[t][m] = i /\ i # 0
        /\ tracked'[i] = tracked[i] /\ tracked[i].enabled /\ i \notin halted
    BY <2>1
  <2>3. c \in DOMAIN crons /\ crons[c].live /\ crons[c].server = t /\ crons[c].name = m
    BY <1>1, <2>2 DEF EnabledAreLive
  <2>4. tracked'[jobs'[t][m]].cronJob = c
    BY <2>2
  <2>. HIDE DEF c
  <2>5. c \in DOMAIN crons' /\ crons'[c].live /\ crons'[c].server = t /\ crons'[c].name = m
    BY <2>1, <2>3
  <2>. QED
    BY <2>4, <2>5
<1>. QED
  BY <1>2, <1>3

\* When jobs that were off get timers, one each, timers and jobs stay together.
LEMMA TimersCome ==
    ASSUME SchedulerAssumption, SchedulerInv,
           DOMAIN crons \subseteq DOMAIN crons',
           \A c \in DOMAIN crons : crons'[c] = crons[c],
           \A c \in DOMAIN crons' \ DOMAIN crons :
              LET j == jobs[crons'[c].server][crons'[c].name] IN
              j # 0 /\ tracked'[j].enabled /\ j \notin halted /\ tracked'[j].cronJob = c,
           jobs' = jobs, halted' = halted,
           \A t \in Servers, m \in JobNames : jobs[t][m] # 0 =>
              \/ tracked'[jobs[t][m]] = tracked[jobs[t][m]]
              \/ /\ ~ tracked[jobs[t][m]].enabled
                 /\ LET c == tracked'[jobs[t][m]].cronJob IN
                    c \in DOMAIN crons' /\ crons'[c].live /\ crons'[c].server = t /\ crons'[c].name = m
    PROVE  LiveAreCurrent' /\ EnabledAreLive'
<1>. SchedulerTypeOK /\ OneTimerPerJob
  BY DEF SchedulerInv
<1>1. LiveAreCurrent /\ EnabledAreLive
  BY TimerViews
<1>2. LiveAreCurrent'
  <2>. SUFFICES ASSUME NEW c \in DOMAIN crons', crons'[c].live
                PROVE  LET i == jobs[crons'[c].server][crons'[c].name] IN
                       i # 0 /\ tracked'[i].enabled /\ i \notin halted /\ tracked'[i].cronJob = c
    BY DEF LiveAreCurrent
  <2>. SUFFICES ASSUME c \in DOMAIN crons
                PROVE  LET i == jobs[crons'[c].server][crons'[c].name] IN
                       i # 0 /\ tracked'[i].enabled /\ i \notin halted /\ tracked'[i].cronJob = c
    OBVIOUS
  <2> DEFINE t == crons[c].server
             m == crons[c].name
  <2>1. t \in Servers /\ m \in JobNames
    BY SchedulerFacts DEF Cron
  <2>2. crons[c].live /\ crons'[c].server = t /\ crons'[c].name = m
    OBVIOUS
  <2>3. /\ jobs[t][m] # 0 /\ tracked[jobs[t][m]].enabled
        /\ jobs[t][m] \notin halted /\ tracked[jobs[t][m]].cronJob = c
    BY <1>1, <2>2 DEF LiveAreCurrent
  <2>. HIDE DEF t, m
  <2>4. tracked'[jobs[t][m]] = tracked[jobs[t][m]]
    BY <2>1, <2>3
  <2>. QED
    BY <2>2, <2>3, <2>4
<1>3. EnabledAreLive'
  <2>. SUFFICES ASSUME NEW t \in Servers, NEW m \in JobNames,
                       jobs[t][m] # 0, tracked'[jobs[t][m]].enabled, jobs[t][m] \notin halted
                PROVE  /\ tracked'[jobs[t][m]].cronJob \in DOMAIN crons'
                       /\ crons'[tracked'[jobs[t][m]].cronJob].live
                       /\ crons'[tracked'[jobs[t][m]].cronJob].server = t
                       /\ crons'[tracked'[jobs[t][m]].cronJob].name = m
    BY DEF EnabledAreLive
  <2>1. CASE tracked'[jobs[t][m]] # tracked[jobs[t][m]]
    BY <2>1
  <2>2. CASE tracked'[jobs[t][m]] = tracked[jobs[t][m]]
    <3> DEFINE i == jobs[t][m]
               c == tracked[i].cronJob
    <3>1. i # 0 /\ tracked'[i] = tracked[i] /\ tracked[i].enabled /\ i \notin halted
      BY <2>2
    <3>2. c \in DOMAIN crons /\ crons[c].live /\ crons[c].server = t /\ crons[c].name = m
      BY <1>1, <3>1 DEF EnabledAreLive
    <3>3. tracked'[jobs[t][m]].cronJob = c
      BY <3>1
    <3>. HIDE DEF c
    <3>4. c \in DOMAIN crons' /\ crons'[c].live /\ crons'[c].server = t /\ crons'[c].name = m
      BY <3>2
    <3>. QED
      BY <3>3, <3>4
  <2>. QED
    BY <2>1, <2>2
<1>. QED
  BY <1>2, <1>3

\* A step of Stopped() keeps what every handle's job is.
LEMMA StoppedRefers ==
    ASSUME SchedulerAssumption, SchedulerInv, NEW handles, crons' = Stopped(handles)
    PROVE  /\ crons' \in Seq(Cron) /\ Len(crons') <= MaxCrons
           /\ DOMAIN crons' = DOMAIN crons
           /\ \A c \in DOMAIN crons' : crons'[c].job # 0 =>
                 /\ crons'[c].job \in DOMAIN tracked
                 /\ tracked[crons'[c].job].server = crons'[c].server
                 /\ tracked[crons'[c].job].name = crons'[c].name
<1>. SchedulerTypeOK /\ Referring
  BY DEF SchedulerInv
<1>. QED
  BY StoppedLemma DEF Referring

\* remove(): the job's timer goes with it.
LEMMA RemoveStep ==
    ASSUME SchedulerAssumption, SchedulerInv, NEW s \in Servers, NEW n \in JobNames,
           remove(s, n)
    PROVE  SchedulerInv'
<1>. SchedulerTypeOK /\ Referring /\ NoStaleHandle
  BY DEF SchedulerInv
<1>1. /\ crons' = Stopped({HandleOf(s, n)})
      /\ jobs' = [jobs EXCEPT ![s][n] = 0]
      /\ UNCHANGED <<tracked, firings, halted, lockVars>>
  BY DEF remove, HandleOf
<1>2. /\ jobs' \in [Servers -> [JobNames -> 0 .. MaxTracked]]
      /\ jobs'[s][n] = 0
      /\ \A t \in Servers, m \in JobNames : ~ (t = s /\ m = n) => jobs'[t][m] = jobs[t][m]
  <2>1. 0 \in 0 .. MaxTracked /\ jobs \in [Servers -> [JobNames -> 0 .. MaxTracked]]
    BY SchedulerFacts DEF SchedulerTypeOK
  <2>. QED
    BY <1>1, <2>1
<1>3. /\ DOMAIN crons' = DOMAIN crons
      /\ \A c \in DOMAIN crons :
            /\ crons'[c].server = crons[c].server
            /\ crons'[c].name = crons[c].name
            /\ crons'[c].live <=> crons[c].live
                                   /\ <<crons[c].server, crons[c].name>> \notin {<<s, n>>}
  BY <1>1, StoppedLemma, StopOwn
<1>4. \A t \in Servers, m \in JobNames : <<t, m>> \notin {<<s, n>>} =>
         /\ jobs'[t][m] = jobs[t][m]
         /\ jobs[t][m] # 0 => /\ tracked'[jobs[t][m]] = tracked[jobs[t][m]]
                              /\ jobs[t][m] \in halted' <=> jobs[t][m] \in halted
  BY <1>1, <1>2
<1>5. \A t \in Servers, m \in JobNames : <<t, m>> \in {<<s, n>>} =>
         jobs'[t][m] = 0 \/ ~ tracked'[jobs'[t][m]].enabled \/ jobs'[t][m] \in halted'
  BY <1>2
<1>6. LiveAreCurrent' /\ EnabledAreLive'
  BY <1>3, <1>4, <1>5, TimersGo
<1>7. NoStaleHandle'
  BY <1>1 DEF NoStaleHandle
<1>8. \A t \in Servers, m \in JobNames : jobs'[t][m] # 0 =>
         /\ jobs'[t][m] \in DOMAIN tracked'
         /\ tracked'[jobs'[t][m]].server = t
         /\ tracked'[jobs'[t][m]].name = m
  BY <1>1, <1>2 DEF Referring
<1>9. /\ tracked' \in Seq(TrackedJob)
      /\ Len(tracked) <= Len(tracked') /\ Len(tracked') <= MaxTracked
      /\ \A j \in DOMAIN tracked : /\ tracked'[j].server = tracked[j].server
                                   /\ tracked'[j].name = tracked[j].name
      /\ UNCHANGED <<firings, lockVars>>
  BY <1>1, SchedulerFacts DEF Referring, SchedulerTypeOK
<1>. QED
  BY <1>1, <1>2, <1>6, <1>7, <1>8, <1>9, StoppedRefers, TimersStep

\* What enable(), disable(), startAll() and stopAll() make of the objects: each
\* keeps its server and name.
LEMMA Retracked ==
    ASSUME SchedulerAssumption, SchedulerInv, DOMAIN tracked' = DOMAIN tracked,
           tracked' = [j \in DOMAIN tracked |-> tracked'[j]],
           \A j \in DOMAIN tracked :
              /\ tracked'[j] \in TrackedJob
              /\ tracked'[j].server = tracked[j].server
              /\ tracked'[j].name = tracked[j].name,
           jobs' = jobs
    PROVE  /\ tracked' \in Seq(TrackedJob)
           /\ Len(tracked) <= Len(tracked') /\ Len(tracked') <= MaxTracked
           /\ jobs' \in [Servers -> [JobNames -> 0 .. MaxTracked]]
           /\ \A t \in Servers, m \in JobNames : jobs'[t][m] # 0 =>
                 /\ jobs'[t][m] \in DOMAIN tracked'
                 /\ tracked'[jobs'[t][m]].server = t
                 /\ tracked'[jobs'[t][m]].name = m
<1>. SchedulerTypeOK /\ Referring
  BY DEF SchedulerInv
<1>1. tracked' \in [1 .. Len(tracked) -> TrackedJob]
  BY SchedulerFacts
<1>2. tracked' \in Seq(TrackedJob) /\ Len(tracked') = Len(tracked)
  BY <1>1, SchedulerFacts
<1>3. Len(tracked) <= Len(tracked') /\ Len(tracked') <= MaxTracked
  BY <1>2, SchedulerFacts DEF Referring
<1>4. jobs' \in [Servers -> [JobNames -> 0 .. MaxTracked]]
  BY DEF SchedulerTypeOK
<1>5. \A t \in Servers, m \in JobNames : jobs'[t][m] # 0 =>
         /\ jobs'[t][m] \in DOMAIN tracked'
         /\ tracked'[jobs'[t][m]].server = t
         /\ tracked'[jobs'[t][m]].name = m
  BY DEF Referring
<1>. QED
  BY <1>2, <1>3, <1>4, <1>5

\* disable(): the job is off and its timer gone.
LEMMA DisableStep ==
    ASSUME SchedulerAssumption, SchedulerInv, NEW s \in Servers, NEW n \in JobNames,
           disable(s, n)
    PROVE  SchedulerInv'
<1>. SchedulerTypeOK /\ Referring /\ NoStaleHandle /\ OneTimerPerJob
  BY DEF SchedulerInv
<1> DEFINE j == jobs[s][n]
<1>1. /\ j # 0
      /\ crons' = IF tracked[j].enabled THEN Stopped({HandleOf(s, n)}) ELSE crons
      /\ tracked' = [tracked EXCEPT ![j].enabled = FALSE, ![j].cronJob = 0]
      /\ halted' = halted \ {j}
      /\ UNCHANGED <<jobs, firings, lockVars>>
  BY DEF disable, HandleOf
<1>2. j \in DOMAIN tracked /\ tracked[j] \in TrackedJob /\ 0 \in 0 .. MaxCrons
  BY <1>1, SchedulerFacts DEF Referring
<1>3. /\ tracked'[j] \in TrackedJob
      /\ tracked'[j].server = tracked[j].server /\ tracked'[j].name = tracked[j].name
      /\ tracked'[j].enabled = FALSE /\ tracked'[j].cronJob = 0
      /\ \A i \in DOMAIN tracked : i # j => tracked'[i] = tracked[i]
  <2> DEFINE new == [tracked[j] EXCEPT !.enabled = FALSE, !.cronJob = 0]
  <2>1. /\ new \in TrackedJob
        /\ new.server = tracked[j].server /\ new.name = tracked[j].name
        /\ new.enabled = FALSE /\ new.cronJob = 0
    BY <1>2 DEF TrackedJob
  <2>2. tracked' = [tracked EXCEPT ![j] = new]
    BY <1>1
  <2>. HIDE DEF new
  <2>. QED
    BY <1>2, <2>1, <2>2
<1>4. DOMAIN tracked' = DOMAIN tracked /\ tracked' = [i \in DOMAIN tracked |-> tracked'[i]]
  BY <1>1
<1>5. \A i \in DOMAIN tracked : /\ tracked'[i] \in TrackedJob
                                /\ tracked'[i].server = tracked[i].server
                                /\ tracked'[i].name = tracked[i].name
  BY <1>3, SchedulerFacts
<1>6. /\ crons' \in Seq(Cron) /\ Len(crons') <= MaxCrons
      /\ DOMAIN crons' = DOMAIN crons
      /\ \A c \in DOMAIN crons' : crons'[c].job # 0 =>
            /\ crons'[c].job \in DOMAIN tracked
            /\ tracked[crons'[c].job].server = crons'[c].server
            /\ tracked[crons'[c].job].name = crons'[c].name
  <2>1. CASE tracked[j].enabled
    BY <1>1, <2>1, StoppedRefers
  <2>2. CASE ~ tracked[j].enabled
    BY <1>1, <2>2 DEF Referring, SchedulerTypeOK
  <2>. QED
    BY <2>1, <2>2
<1>7. \A c \in DOMAIN crons :
         /\ crons'[c].server = crons[c].server
         /\ crons'[c].name = crons[c].name
         /\ crons'[c].live <=> crons[c].live
                                /\ <<crons[c].server, crons[c].name>> \notin {<<s, n>>}
  <2>1. CASE tracked[j].enabled
    BY <1>1, <2>1, StoppedLemma, StopOwn
  <2>2. CASE ~ tracked[j].enabled
    <3>1. \A c \in DOMAIN crons : crons[c].live => ~ (crons[c].server = s /\ crons[c].name = n)
      BY <2>2, TimerViews DEF LiveAreCurrent
    <3>. QED
      BY <1>1, <2>2, <3>1
  <2>. QED
    BY <2>1, <2>2
<1>8. \A t \in Servers, m \in JobNames : <<t, m>> \notin {<<s, n>>} =>
         /\ jobs'[t][m] = jobs[t][m]
         /\ jobs[t][m] # 0 => /\ tracked'[jobs[t][m]] = tracked[jobs[t][m]]
                              /\ jobs[t][m] \in halted' <=> jobs[t][m] \in halted
  <2>. SUFFICES ASSUME NEW t \in Servers, NEW m \in JobNames, <<t, m>> # <<s, n>>,
                       jobs[t][m] # 0
                PROVE  /\ tracked'[jobs[t][m]] = tracked[jobs[t][m]]
                       /\ jobs[t][m] \in halted' <=> jobs[t][m] \in halted
    BY <1>1
  <2>1. jobs[t][m] # j /\ jobs[t][m] \in DOMAIN tracked
    BY <1>1 DEF Referring
  <2>. QED
    BY <1>1, <1>3, <2>1
<1>9. \A t \in Servers, m \in JobNames : <<t, m>> \in {<<s, n>>} =>
         ~ tracked'[jobs'[t][m]].enabled
  BY <1>1, <1>3
<1>10. LiveAreCurrent' /\ EnabledAreLive'
  BY <1>6, <1>7, <1>8, <1>9, TimersGo
<1>11. NoStaleHandle'
  BY <1>1, <1>3, <1>4 DEF NoStaleHandle
<1>12. UNCHANGED <<jobs, firings, lockVars>>
  BY <1>1
<1>. HIDE DEF j
<1>13. /\ tracked' \in Seq(TrackedJob)
       /\ Len(tracked) <= Len(tracked') /\ Len(tracked') <= MaxTracked
       /\ jobs' \in [Servers -> [JobNames -> 0 .. MaxTracked]]
       /\ \A t \in Servers, m \in JobNames : jobs'[t][m] # 0 =>
             /\ jobs'[t][m] \in DOMAIN tracked'
             /\ tracked'[jobs'[t][m]].server = t
             /\ tracked'[jobs'[t][m]].name = m
  BY <1>4, <1>5, <1>12, Retracked
<1>. QED
  BY <1>5, <1>6, <1>10, <1>11, <1>12, <1>13, TimersStep

\* stopAll(): every timer of the server goes; its jobs stay as they are.
LEMMA StopAllStep ==
    ASSUME SchedulerAssumption, SchedulerInv, NEW s \in Servers, stopAll(s)
    PROVE  SchedulerInv'
<1>. SchedulerTypeOK /\ Referring /\ NoStaleHandle /\ OneTimerPerJob
  BY DEF SchedulerInv
<1> DEFINE handles == {tracked[j].cronJob : j \in Registered(s)}
           G == {s} \X JobNames
<1>1. /\ crons' = Stopped(handles)
      /\ tracked' = [j \in DOMAIN tracked |->
                        IF j \in Registered(s) THEN [tracked[j] EXCEPT !.cronJob = 0]
                        ELSE tracked[j]]
      /\ halted' = halted \cup {j \in Registered(s) : tracked[j].enabled}
      /\ UNCHANGED <<jobs, firings, lockVars>>
  BY DEF stopAll
<1>2. \A j \in Registered(s) : /\ j \in DOMAIN tracked /\ tracked[j].server = s
                               /\ \E n \in JobNames : j = jobs[s][n]
  BY DEF Registered, Referring
<1>3. \A n \in JobNames : jobs[s][n] # 0 => jobs[s][n] \in Registered(s)
  BY DEF Registered
<1>4. \A j \in DOMAIN tracked :
         /\ tracked'[j] \in TrackedJob
         /\ tracked'[j].server = tracked[j].server
         /\ tracked'[j].name = tracked[j].name
         /\ tracked'[j].enabled = tracked[j].enabled
         /\ tracked'[j].cronJob = IF j \in Registered(s) THEN 0 ELSE tracked[j].cronJob
  <2>. SUFFICES ASSUME NEW j \in DOMAIN tracked
                PROVE  /\ tracked'[j] \in TrackedJob
                       /\ tracked'[j].server = tracked[j].server
                       /\ tracked'[j].name = tracked[j].name
                       /\ tracked'[j].enabled = tracked[j].enabled
                       /\ tracked'[j].cronJob = IF j \in Registered(s) THEN 0 ELSE tracked[j].cronJob
    OBVIOUS
  <2>1. tracked[j] \in TrackedJob /\ 0 \in 0 .. MaxCrons
    BY SchedulerFacts
  <2> DEFINE new == [tracked[j] EXCEPT !.cronJob = 0]
  <2>2. /\ new \in TrackedJob
        /\ new.server = tracked[j].server /\ new.name = tracked[j].name
        /\ new.enabled = tracked[j].enabled /\ new.cronJob = 0
    BY <2>1 DEF TrackedJob
  <2>3. tracked'[j] = IF j \in Registered(s) THEN new ELSE tracked[j]
    BY <1>1
  <2>. HIDE DEF new
  <2>. QED
    BY <2>1, <2>2, <2>3
<1>5. DOMAIN tracked' = DOMAIN tracked /\ tracked' = [j \in DOMAIN tracked |-> tracked'[j]]
  BY <1>1
<1>6. \A c \in DOMAIN crons : crons[c].live =>
         (c \in handles <=> <<crons[c].server, crons[c].name>> \in G)
  <2>. SUFFICES ASSUME NEW c \in DOMAIN crons, crons[c].live
                PROVE  c \in handles <=> crons[c].server = s
    BY SchedulerFacts DEF Cron
  <2>1. ASSUME crons[c].server = s
        PROVE  c \in handles
    <3>1. crons[c].name \in JobNames
      BY SchedulerFacts DEF Cron
    <3>2. jobs[s][crons[c].name] # 0 /\ tracked[jobs[s][crons[c].name]].cronJob = c
      BY <2>1, TimerViews DEF LiveAreCurrent
    <3>. QED
      BY <1>3, <3>1, <3>2
  <2>2. ASSUME c \in handles
        PROVE  crons[c].server = s
    <3>1. PICK j \in Registered(s) : c = tracked[j].cronJob
      BY <2>2
    <3>2. PICK n \in JobNames : j = jobs[s][n]
      BY <1>2
    <3>3. j \in DOMAIN tracked /\ j # 0
      BY <1>2, SchedulerFacts
    <3>4. tracked[j].cronJob # 0
      BY <3>1, SchedulerFacts
    <3>5. tracked[j].enabled /\ j \notin halted
      BY <3>3, <3>4 DEF NoStaleHandle
    <3>6. crons[tracked[j].cronJob].server = s
      BY <3>2, <3>3, <3>5, TimerViews DEF EnabledAreLive
    <3>. QED
      BY <3>1, <3>6
  <2>. QED
    BY <2>1, <2>2
<1>. HIDE DEF handles, G
<1>7. \A c \in DOMAIN crons :
         /\ crons'[c].server = crons[c].server
         /\ crons'[c].name = crons[c].name
         /\ crons'[c].live <=> crons[c].live /\ <<crons[c].server, crons[c].name>> \notin G
  BY <1>1, <1>6, StoppedLemma
<1>8. \A t \in Servers, m \in JobNames : <<t, m>> \notin G =>
         /\ jobs'[t][m] = jobs[t][m]
         /\ jobs[t][m] # 0 => /\ tracked'[jobs[t][m]] = tracked[jobs[t][m]]
                              /\ jobs[t][m] \in halted' <=> jobs[t][m] \in halted
  <2>. SUFFICES ASSUME NEW t \in Servers, NEW m \in JobNames, <<t, m>> \notin G,
                       jobs[t][m] # 0
                PROVE  /\ tracked'[jobs[t][m]] = tracked[jobs[t][m]]
                       /\ jobs[t][m] \in halted' <=> jobs[t][m] \in halted
    BY <1>1
  <2>1. t # s
    BY DEF G
  <2>2. jobs[t][m] \notin Registered(s) /\ jobs[t][m] \in DOMAIN tracked
    BY <1>2, <2>1 DEF Referring
  <2>. QED
    BY <1>1, <2>2
<1>9. \A t \in Servers, m \in JobNames : <<t, m>> \in G =>
         jobs'[t][m] = 0 \/ ~ tracked'[jobs'[t][m]].enabled \/ jobs'[t][m] \in halted'
  <2>. SUFFICES ASSUME NEW m \in JobNames, jobs[s][m] # 0, tracked'[jobs[s][m]].enabled
                PROVE  jobs[s][m] \in halted'
    BY <1>1 DEF G
  <2>1. jobs[s][m] \in Registered(s) /\ jobs[s][m] \in DOMAIN tracked
    BY <1>2, <1>3
  <2>2. tracked[jobs[s][m]].enabled
    BY <1>4, <2>1
  <2>. QED
    BY <1>1, <2>1, <2>2
<1>10. LiveAreCurrent' /\ EnabledAreLive'
  BY <1>1, <1>7, <1>8, <1>9, StoppedRefers, TimersGo
<1>11. NoStaleHandle'
  <2>1. \A j \in DOMAIN tracked : tracked[j].enabled \in BOOLEAN
    BY SchedulerFacts DEF TrackedJob
  <2>2. \A j \in DOMAIN tracked : tracked'[j].enabled <=> tracked[j].enabled
    BY <1>4, <2>1
  <2>. QED
    BY <1>1, <1>2, <1>4, <1>5, <2>2 DEF NoStaleHandle
<1>12. UNCHANGED <<jobs, firings, lockVars>>
  BY <1>1
<1>13. /\ tracked' \in Seq(TrackedJob)
       /\ Len(tracked) <= Len(tracked') /\ Len(tracked') <= MaxTracked
       /\ jobs' \in [Servers -> [JobNames -> 0 .. MaxTracked]]
       /\ \A t \in Servers, m \in JobNames : jobs'[t][m] # 0 =>
             /\ jobs'[t][m] \in DOMAIN tracked'
             /\ tracked'[jobs'[t][m]].server = t
             /\ tracked'[jobs'[t][m]].name = m
  BY <1>4, <1>5, <1>12, Retracked
<1>. QED
  BY <1>1, <1>4, <1>10, <1>11, <1>12, <1>13, StoppedRefers, TimersStep

\* enable(): a job that was off gets a timer that keeps it.
LEMMA EnableStep ==
    ASSUME SchedulerAssumption, SchedulerInv, NEW s \in Servers, NEW n \in JobNames,
           enable(s, n)
    PROVE  SchedulerInv'
<1>. SchedulerTypeOK /\ Referring /\ NoStaleHandle
  BY DEF SchedulerInv
<1> DEFINE j == jobs[s][n]
           k == Len(crons) + 1
           cron == [server |-> s, name |-> n, job |-> j, live |-> TRUE]
<1>1. /\ j # 0 /\ ~ tracked[j].enabled /\ Len(crons) < MaxCrons
      /\ crons' = Append(crons, cron)
      /\ tracked' = [tracked EXCEPT ![j].enabled = TRUE, ![j].cronJob = k]
      /\ UNCHANGED <<jobs, firings, halted, lockVars>>
  BY DEF enable
<1>2. /\ j \in DOMAIN tracked /\ tracked[j] \in TrackedJob /\ j \in 0 .. MaxTracked
      /\ tracked[j].server = s /\ tracked[j].name = n /\ j \notin halted
  BY <1>1, SchedulerFacts DEF Referring, NoStaleHandle
<1>3. /\ tracked'[j] \in TrackedJob
      /\ tracked'[j].server = tracked[j].server /\ tracked'[j].name = tracked[j].name
      /\ tracked'[j].enabled /\ tracked'[j].cronJob = k
      /\ \A i \in DOMAIN tracked : i # j => tracked'[i] = tracked[i]
  <2> DEFINE new == [tracked[j] EXCEPT !.enabled = TRUE, !.cronJob = k]
  <2>0. k \in 0 .. MaxCrons
    BY <1>1, SchedulerFacts
  <2>. HIDE DEF k
  <2>1. /\ new \in TrackedJob
        /\ new.server = tracked[j].server /\ new.name = tracked[j].name
        /\ new.enabled /\ new.cronJob = k
    BY <1>2, <2>0 DEF TrackedJob
  <2>2. tracked' = [tracked EXCEPT ![j] = new]
    BY <1>1
  <2>. HIDE DEF new
  <2>. QED
    BY <1>2, <2>1, <2>2
<1>4. DOMAIN tracked' = DOMAIN tracked /\ tracked' = [i \in DOMAIN tracked |-> tracked'[i]]
  BY <1>1
<1>5. \A i \in DOMAIN tracked : /\ tracked'[i] \in TrackedJob
                                /\ tracked'[i].server = tracked[i].server
                                /\ tracked'[i].name = tracked[i].name
  BY <1>3, SchedulerFacts
<1>6. /\ cron \in Cron /\ cron.server = s /\ cron.name = n /\ cron.job = j /\ cron.live
  BY <1>2 DEF Cron
<1>. HIDE DEF cron
<1>7. /\ crons' \in Seq(Cron) /\ Len(crons') <= MaxCrons
      /\ DOMAIN crons' = 1 .. k
      /\ \A c \in DOMAIN crons : crons'[c] = crons[c]
      /\ crons'[k] = cron
  <2>1. crons \in Seq(Cron)
    BY DEF SchedulerTypeOK
  <2>. QED
    BY <1>1, <1>6, <2>1, AppendFacts, SchedulerFacts
<1>8. /\ DOMAIN crons \subseteq DOMAIN crons'
      /\ \A c \in DOMAIN crons' : c \in DOMAIN crons \/ c = k
      /\ k \in DOMAIN crons'
  BY <1>7, SchedulerFacts
<1>9. \A c \in DOMAIN crons' : crons'[c].job # 0 =>
         /\ crons'[c].job \in DOMAIN tracked
         /\ tracked[crons'[c].job].server = crons'[c].server
         /\ tracked[crons'[c].job].name = crons'[c].name
  BY <1>2, <1>6, <1>7, <1>8 DEF Referring
<1>10. NoStaleHandle'
  <2>1. \A i \in DOMAIN tracked' :
           ~ tracked'[i].enabled \/ i \in halted' => tracked'[i].cronJob = 0
    BY <1>1, <1>2, <1>3, <1>4 DEF NoStaleHandle
  <2>2. \A i \in halted' : i \in DOMAIN tracked' /\ tracked'[i].enabled
    BY <1>1, <1>2, <1>3, <1>4 DEF NoStaleHandle
  <2>. QED
    BY <2>1, <2>2 DEF NoStaleHandle
<1>11. LiveAreCurrent' /\ EnabledAreLive'
  <2>1. \A c \in DOMAIN crons' \ DOMAIN crons :
           LET i == jobs[crons'[c].server][crons'[c].name] IN
           i # 0 /\ tracked'[i].enabled /\ i \notin halted /\ tracked'[i].cronJob = c
    BY <1>1, <1>2, <1>3, <1>6, <1>7, <1>8
  <2>2. /\ j # 0 /\ ~ tracked[j].enabled
        /\ LET c == tracked'[j].cronJob IN
           c \in DOMAIN crons' /\ crons'[c].live /\ crons'[c].server = s /\ crons'[c].name = n
    <3>. HIDE DEF j, k
    <3>. QED
      BY <1>1, <1>3, <1>6, <1>7, <1>8
  <2>3. \A t \in Servers, m \in JobNames : jobs[t][m] # 0 =>
           \/ tracked'[jobs[t][m]] = tracked[jobs[t][m]]
           \/ /\ ~ tracked[jobs[t][m]].enabled
              /\ LET c == tracked'[jobs[t][m]].cronJob IN
                 c \in DOMAIN crons' /\ crons'[c].live /\ crons'[c].server = t /\ crons'[c].name = m
    <3>. SUFFICES ASSUME NEW t \in Servers, NEW m \in JobNames, jobs[t][m] # 0
                  PROVE  \/ tracked'[jobs[t][m]] = tracked[jobs[t][m]]
                         \/ /\ ~ tracked[jobs[t][m]].enabled
                            /\ LET c == tracked'[jobs[t][m]].cronJob IN
                               /\ c \in DOMAIN crons' /\ crons'[c].live
                               /\ crons'[c].server = t /\ crons'[c].name = m
      OBVIOUS
    <3>1. CASE t = s /\ m = n
      BY <2>2, <3>1
    <3>2. CASE ~ (t = s /\ m = n)
      <4>1. jobs[t][m] # j /\ jobs[t][m] \in DOMAIN tracked
        BY <1>2, <3>2 DEF Referring
      <4>. QED
        BY <1>3, <4>1
    <3>. QED
      BY <3>1, <3>2
  <2>4. jobs' = jobs /\ halted' = halted
    BY <1>1
  <2>5. DOMAIN crons \subseteq DOMAIN crons'
    BY <1>8
  <2>6. \A c \in DOMAIN crons : crons'[c] = crons[c]
    BY <1>7
  <2>. QED
    BY <2>1, <2>3, <2>4, <2>5, <2>6, TimersCome
<1>12. UNCHANGED <<jobs, firings, lockVars>>
  BY <1>1
<1>13. /\ tracked' \in Seq(TrackedJob)
       /\ Len(tracked) <= Len(tracked') /\ Len(tracked') <= MaxTracked
       /\ jobs' \in [Servers -> [JobNames -> 0 .. MaxTracked]]
       /\ \A t \in Servers, m \in JobNames : jobs'[t][m] # 0 =>
             /\ jobs'[t][m] \in DOMAIN tracked'
             /\ tracked'[jobs'[t][m]].server = t
             /\ tracked'[jobs'[t][m]].name = m
  BY <1>4, <1>5, <1>12, Retracked
<1>. QED
  BY <1>5, <1>7, <1>9, <1>10, <1>11, <1>12, <1>13, TimersStep

\* startAll(): each job that is off gets one timer, whatever their order.
LEMMA StartAllStep ==
    ASSUME SchedulerAssumption, SchedulerInv, NEW s \in Servers, startAll(s)
    PROVE  SchedulerInv'
<1>. SchedulerTypeOK /\ Referring /\ NoStaleHandle
  BY DEF SchedulerInv
<1> DEFINE Off == {j \in Registered(s) : ~ tracked[j].enabled}
           off == SetToSeq(Off)
           L == Len(crons)
           at(j) == CHOOSE i \in DOMAIN off : off[i] = j
           cron(i) == [server |-> s, name |-> tracked[off[i]].name, job |-> off[i], live |-> TRUE]
           fresh == [i \in DOMAIN off |-> cron(i)]
           new(j) == [tracked[j] EXCEPT !.enabled = TRUE, !.cronJob = L + at(j)]
<1>1. /\ L + Len(off) <= MaxCrons
      /\ crons' = crons \o fresh
      /\ tracked' = [j \in DOMAIN tracked |-> IF j \in Range(off) THEN new(j) ELSE tracked[j]]
      /\ UNCHANGED <<jobs, firings, halted, lockVars>>
  BY DEF startAll
<1>2. \A j \in Registered(s) : /\ j # 0 /\ j \in DOMAIN tracked /\ tracked[j].server = s
                               /\ tracked[j].name \in JobNames /\ j = jobs[s][tracked[j].name]
  BY DEF Registered, Referring
<1>3. IsFiniteSet(Off)
  <2>1. Off \subseteq 1 .. Len(tracked)
    BY <1>2, SchedulerFacts
  <2>2. Len(tracked) \in Int
    BY SchedulerFacts
  <2>3. IsFiniteSet(1 .. Len(tracked))
    BY <2>2, FS_Interval
  <2>. QED
    BY <2>1, <2>3, FS_Subset
<1>4. /\ off \in Seq(Off) /\ Len(off) \in Nat /\ DOMAIN off = 1 .. Len(off)
      /\ \A i, l \in DOMAIN off : off[i] = off[l] => i = l
      /\ \A j \in Off : \E i \in DOMAIN off : off[i] = j
      /\ \A i \in DOMAIN off : off[i] \in Off
  <2>. HIDE DEF Off
  <2>1. /\ off \in Seq(Off) /\ Len(off) \in Nat /\ DOMAIN off = 1 .. Len(off)
        /\ \A i, l \in DOMAIN off : off[i] = off[l] => i = l
        /\ \A j \in Off : \E i \in DOMAIN off : off[i] = j
    BY <1>3, SetToSeqLemma
  <2>. HIDE DEF off
  <2>. QED
    BY <2>1, ElementOfSeq
<1>. HIDE DEF off
<1>5. Range(off) = Off
  BY <1>4 DEF Range
<1>6. \A j \in Off : at(j) \in DOMAIN off /\ off[at(j)] = j
  BY <1>4
<1>7. \A i \in DOMAIN off : at(off[i]) = i
  BY <1>4, <1>6
<1>. HIDE DEF at
<1>8. \A j \in Off : /\ j # 0 /\ j \in DOMAIN tracked /\ tracked[j].server = s
                     /\ tracked[j].name \in JobNames /\ j = jobs[s][tracked[j].name]
                     /\ ~ tracked[j].enabled /\ j \notin halted
  BY <1>2 DEF NoStaleHandle
<1>9. \A n \in JobNames : jobs[s][n] # 0 /\ ~ tracked[jobs[s][n]].enabled => jobs[s][n] \in Off
  BY DEF Registered
<1>. HIDE DEF Off
<1>10. \A i \in DOMAIN off :
          /\ cron(i) \in Cron
          /\ cron(i).server = s /\ cron(i).name = tracked[off[i]].name
          /\ cron(i).job = off[i] /\ cron(i).live
  <2>. SUFFICES ASSUME NEW i \in DOMAIN off
                PROVE  cron(i) \in Cron
    OBVIOUS
  <2>1. off[i] \in 0 .. MaxTracked /\ tracked[off[i]].name \in JobNames
    BY <1>4, <1>8, SchedulerFacts DEF Referring
  <2>. QED
    BY <2>1 DEF Cron
<1>11. \A j \in Off : /\ new(j) \in TrackedJob
                      /\ new(j).server = tracked[j].server /\ new(j).name = tracked[j].name
                      /\ new(j).enabled /\ new(j).cronJob = L + at(j)
  <2>. SUFFICES ASSUME NEW j \in Off
                PROVE  /\ new(j) \in TrackedJob
                       /\ new(j).server = tracked[j].server /\ new(j).name = tracked[j].name
                       /\ new(j).enabled /\ new(j).cronJob = L + at(j)
    OBVIOUS
  <2>1. L + at(j) \in 0 .. MaxCrons
    <3>1. at(j) \in 1 .. Len(off) /\ Len(off) \in Nat
      BY <1>4, <1>6
    <3>2. L \in Nat /\ MaxCrons \in Nat /\ L + Len(off) <= MaxCrons
      BY <1>1, SchedulerFacts
    <3>. HIDE DEF L, new, cron, fresh
    <3>. QED
      BY <3>1, <3>2
  <2>2. tracked[j] \in TrackedJob
    BY <1>8, SchedulerFacts
  <2>. QED
    BY <2>1, <2>2 DEF TrackedJob
<1>12. \A j \in DOMAIN tracked : tracked'[j] = IF j \in Off THEN new(j) ELSE tracked[j]
  BY <1>1, <1>5
<1>13. DOMAIN tracked' = DOMAIN tracked /\ tracked' = [j \in DOMAIN tracked |-> tracked'[j]]
  BY <1>1
<1>14. /\ crons' \in Seq(Cron) /\ Len(crons') <= MaxCrons
       /\ DOMAIN crons' = 1 .. L + Len(off)
       /\ \A c \in DOMAIN crons : crons'[c] = crons[c]
       /\ \A i \in DOMAIN off : crons'[L + i] = cron(i)
  <2>1. fresh \in [1 .. Len(off) -> Cron]
    BY <1>4, <1>10
  <2>2. fresh \in Seq(Cron) /\ Len(fresh) = Len(off)
    BY <1>4, <2>1
  <2>3. \A i \in DOMAIN off : fresh[i] = cron(i)
    OBVIOUS
  <2>. HIDE DEF fresh, cron
  <2>4. crons \in Seq(Cron)
    BY DEF SchedulerTypeOK
  <2>0. /\ crons \o fresh \in Seq(Cron)
        /\ Len(crons \o fresh) = Len(crons) + Len(fresh)
        /\ \A c \in 1 .. Len(crons) + Len(fresh) :
              (crons \o fresh)[c] = IF c <= Len(crons) THEN crons[c] ELSE fresh[c - Len(crons)]
    BY <2>2, <2>4, ConcatProperties
  <2>5. /\ crons \o fresh \in Seq(Cron)
        /\ Len(crons \o fresh) = L + Len(off)
        /\ \A c \in 1 .. L + Len(off) :
              (crons \o fresh)[c] = IF c <= L THEN crons[c] ELSE fresh[c - L]
    BY <2>0, <2>2
  <2>6. DOMAIN (crons \o fresh) = 1 .. L + Len(off)
    BY <2>5, LenProperties
  <2>7. \A i \in DOMAIN off : (crons \o fresh)[L + i] = fresh[i]
    <3>. SUFFICES ASSUME NEW i \in DOMAIN off
                  PROVE  (crons \o fresh)[L + i] = fresh[i]
      OBVIOUS
    <3>1. L \in Nat /\ i \in Nat /\ L + i \in 1 .. L + Len(off) /\ ~ (L + i <= L) /\ (L + i) - L = i
      BY <1>4, SchedulerFacts
    <3>. QED
      BY <2>5, <3>1
  <2>8. \A c \in DOMAIN crons : (crons \o fresh)[c] = crons[c]
    BY <1>4, <2>5, SchedulerFacts
  <2>. QED
    BY <1>1, <2>3, <2>5, <2>6, <2>7, <2>8
<1>. HIDE DEF cron, fresh, new
<1>15. /\ DOMAIN crons \subseteq DOMAIN crons'
       /\ \A c \in DOMAIN crons' : c \in DOMAIN crons \/ \E i \in DOMAIN off : c = L + i
       /\ \A i \in DOMAIN off : L + i \in DOMAIN crons'
  <2>1. \A c \in DOMAIN crons' : c \in DOMAIN crons \/ \E i \in DOMAIN off : c = L + i
    <3>. SUFFICES ASSUME NEW c \in DOMAIN crons', c \notin DOMAIN crons
                  PROVE  \E i \in DOMAIN off : c = L + i
      OBVIOUS
    <3>1. c - L \in DOMAIN off /\ c = L + (c - L)
      BY <1>4, <1>14, SchedulerFacts
    <3>. QED
      BY <3>1
  <2>. QED
    BY <1>4, <1>14, <2>1, SchedulerFacts
<1>16. \A c \in DOMAIN crons' : crons'[c].job # 0 =>
          /\ crons'[c].job \in DOMAIN tracked
          /\ tracked[crons'[c].job].server = crons'[c].server
          /\ tracked[crons'[c].job].name = crons'[c].name
  <2>. SUFFICES ASSUME NEW c \in DOMAIN crons', crons'[c].job # 0
                PROVE  /\ crons'[c].job \in DOMAIN tracked
                       /\ tracked[crons'[c].job].server = crons'[c].server
                       /\ tracked[crons'[c].job].name = crons'[c].name
    OBVIOUS
  <2>1. CASE c \in DOMAIN crons
    BY <1>14, <2>1 DEF Referring
  <2>2. CASE \E i \in DOMAIN off : c = L + i
    BY <1>4, <1>8, <1>10, <1>14, <2>2
  <2>. QED
    BY <1>15, <2>1, <2>2
<1>17. \A j \in DOMAIN tracked : /\ tracked'[j] \in TrackedJob
                                 /\ tracked'[j].server = tracked[j].server
                                 /\ tracked'[j].name = tracked[j].name
  BY <1>11, <1>12, SchedulerFacts
<1>18. NoStaleHandle'
  <2>1. \A j \in DOMAIN tracked' :
           ~ tracked'[j].enabled \/ j \in halted' => tracked'[j].cronJob = 0
    BY <1>1, <1>8, <1>11, <1>12, <1>13 DEF NoStaleHandle
  <2>2. \A j \in halted' : j \in DOMAIN tracked' /\ tracked'[j].enabled
    BY <1>1, <1>8, <1>11, <1>12, <1>13 DEF NoStaleHandle
  <2>. QED
    BY <2>1, <2>2 DEF NoStaleHandle
<1>19. LiveAreCurrent' /\ EnabledAreLive'
  <2> DEFINE G == {<<s, tracked[j].name>> : j \in Off}
  <2>1. \A c \in DOMAIN crons' \ DOMAIN crons :
           LET i == jobs[crons'[c].server][crons'[c].name] IN
           i # 0 /\ tracked'[i].enabled /\ i \notin halted /\ tracked'[i].cronJob = c
    <3>. SUFFICES ASSUME NEW c \in DOMAIN crons' \ DOMAIN crons
                  PROVE  LET i == jobs[crons'[c].server][crons'[c].name] IN
                         i # 0 /\ tracked'[i].enabled /\ i \notin halted /\ tracked'[i].cronJob = c
      OBVIOUS
    <3>1. PICK i \in DOMAIN off : c = L + i
      BY <1>15
    <3> DEFINE j == off[i]
    <3>2. j \in Off /\ at(j) = i
      BY <1>4, <1>7
    <3>3. crons'[c].server = s /\ crons'[c].name = tracked[j].name
      BY <1>10, <1>14, <3>1
    <3>4. jobs[crons'[c].server][crons'[c].name] = j
      BY <1>8, <3>2, <3>3
    <3>5. j # 0 /\ j \notin halted /\ j \in DOMAIN tracked /\ tracked'[j] = new(j)
      BY <1>8, <1>12, <3>2
    <3>. HIDE DEF j
    <3>6. tracked'[j].enabled /\ tracked'[j].cronJob = c
      BY <1>11, <3>1, <3>2, <3>5
    <3>. QED
      BY <3>4, <3>5, <3>6
  <2>2. \A t \in Servers, m \in JobNames : jobs[t][m] # 0 =>
           \/ tracked'[jobs[t][m]] = tracked[jobs[t][m]]
           \/ /\ ~ tracked[jobs[t][m]].enabled
              /\ LET c == tracked'[jobs[t][m]].cronJob IN
                 c \in DOMAIN crons' /\ crons'[c].live /\ crons'[c].server = t /\ crons'[c].name = m
    <3>. SUFFICES ASSUME NEW t \in Servers, NEW m \in JobNames, jobs[t][m] # 0, jobs[t][m] \in Off
                  PROVE  /\ ~ tracked[jobs[t][m]].enabled
                         /\ LET c == tracked'[jobs[t][m]].cronJob IN
                            /\ c \in DOMAIN crons' /\ crons'[c].live
                            /\ crons'[c].server = t /\ crons'[c].name = m
      BY <1>12 DEF Referring
    <3> DEFINE j == jobs[t][m]
               c == L + at(j)
    <3>1. ~ tracked[j].enabled /\ j \in DOMAIN tracked /\ t = s /\ m = tracked[j].name
      BY <1>8 DEF Referring
    <3>2. at(j) \in DOMAIN off /\ off[at(j)] = j
      BY <1>6
    <3>. HIDE DEF j
    <3>3. j \in Off
      BY DEF j
    <3>4. tracked'[j].cronJob = c
      BY <1>11, <1>12, <3>1, <3>3
    <3>5. c \in DOMAIN crons' /\ crons'[c] = cron(at(j))
      BY <1>14, <1>15, <3>2
    <3>. HIDE DEF c
    <3>6. crons'[c].live /\ crons'[c].server = t /\ crons'[c].name = m
      BY <1>10, <3>1, <3>2, <3>5
    <3>7. ~ tracked[j].enabled
          /\ tracked'[j].cronJob \in DOMAIN crons' /\ crons'[tracked'[j].cronJob].live
          /\ crons'[tracked'[j].cronJob].server = t /\ crons'[tracked'[j].cronJob].name = m
      BY <3>1, <3>4, <3>5, <3>6
    <3>. QED
      BY <3>7 DEF j
  <2>3. jobs' = jobs /\ halted' = halted
    BY <1>1
  <2>4. DOMAIN crons \subseteq DOMAIN crons'
    BY <1>15
  <2>5. \A c \in DOMAIN crons : crons'[c] = crons[c]
    BY <1>14
  <2>. QED
    BY <2>1, <2>2, <2>3, <2>4, <2>5, TimersCome
<1>20. UNCHANGED <<jobs, firings, lockVars>>
  BY <1>1
<1>21. /\ tracked' \in Seq(TrackedJob)
       /\ Len(tracked) <= Len(tracked') /\ Len(tracked') <= MaxTracked
       /\ jobs' \in [Servers -> [JobNames -> 0 .. MaxTracked]]
       /\ \A t \in Servers, m \in JobNames : jobs'[t][m] # 0 =>
             /\ jobs'[t][m] \in DOMAIN tracked'
             /\ tracked'[jobs'[t][m]].server = t
             /\ tracked'[jobs'[t][m]].name = m
  BY <1>13, <1>17, <1>20, Retracked
<1>. QED
  BY <1>14, <1>16, <1>17, <1>18, <1>19, <1>20, <1>21, TimersStep

-----------------------------------------------------------------------------
(* Scheduler: the lock.                                                    *)

\* Switching the lock, firing and answering leave jobs and timers alone: only
\* the firings and who holds what need an argument.
LEMMA LockStep ==
    ASSUME SchedulerAssumption, SchedulerInv, UNCHANGED <<tracked, jobs, crons, halted>>,
           firings' \in Seq(Firing), Len(firings') <= MaxFirings,
           \A f \in DOMAIN firings' : firings'[f].job \in DOMAIN tracked,
           lockEnabled' \in [Servers -> BOOLEAN],
           lockDriver' \in [Servers -> {"memory", "redis"}],
           switches' \in 0 .. MaxSwitches,
           holders' \in [Servers \cup {Redis} -> [JobNames -> 0 .. MaxFirings]],
           forgotten' \subseteq 1 .. MaxFirings,
           LockHeld'
    PROVE  SchedulerInv'
<1>1. SchedulerTypeOK'
  BY DEF SchedulerInv, SchedulerTypeOK
<1>2. Referring'
  BY DEF SchedulerInv, Referring
<1>3. NoStaleHandle' /\ OneTimerPerJob'
  BY DEF SchedulerInv, NoStaleHandle, OneTimerPerJob, LiveCrons
<1>. QED
  BY <1>1, <1>2, <1>3 DEF SchedulerInv

\* What the code finds when it asks for a firing's server, name and driver.
LEMMA FiringFacts ==
    ASSUME SchedulerAssumption, SchedulerInv
    PROVE  /\ \A f \in DOMAIN firings :
                 /\ firings[f].server \in Servers /\ firings[f].job \in DOMAIN tracked
                 /\ firings[f].guarded \in BOOLEAN /\ NameOf(f) \in JobNames
           /\ \A s \in Servers : /\ lockDriver[s] \in {"memory", "redis"}
                                 /\ DriverOf(s) \in Servers \cup {Redis}
                                 /\ DriverOf(s) = Redis <=> lockDriver[s] = "redis"
                                 /\ DriverOf(s) = s <=> lockDriver[s] = "memory"
           /\ \A f \in DOMAIN firings : f # NoHolder /\ f \in 1 .. MaxFirings
<1>. SchedulerTypeOK /\ Referring
  BY DEF SchedulerInv
<1>1. \A f \in DOMAIN firings : /\ firings[f].server \in Servers
                                /\ firings[f].guarded \in BOOLEAN
  BY SchedulerFacts DEF Firing
<1>2. \A f \in DOMAIN firings : firings[f].job \in DOMAIN tracked /\ NameOf(f) \in JobNames
  BY SchedulerFacts DEF Referring, NameOf, TrackedJob
<1>3. Redis \notin Servers
  BY DEF SchedulerAssumption
<1>4. \A s \in Servers : lockDriver[s] \in {"memory", "redis"}
  BY DEF SchedulerTypeOK
<1>5. \A f \in DOMAIN firings : f # NoHolder /\ f \in 1 .. MaxFirings
  BY SchedulerFacts DEF Referring, NoHolder
<1>. QED
  BY <1>1, <1>2, <1>3, <1>4, <1>5 DEF DriverOf

\* Taking or dropping one lock leaves the others.
LEMMA OneLock ==
    ASSUME SchedulerTypeOK, NEW d \in Servers \cup {Redis}, NEW n \in JobNames,
           NEW f \in 0 .. MaxFirings, holders' = [holders EXCEPT ![d][n] = f]
    PROVE  /\ holders' \in [Servers \cup {Redis} -> [JobNames -> 0 .. MaxFirings]]
           /\ \A e \in Servers \cup {Redis}, m \in JobNames :
                 holders'[e][m] = IF e = d /\ m = n THEN f ELSE holders[e][m]
<1>1. holders \in [Servers \cup {Redis} -> [JobNames -> 0 .. MaxFirings]]
  BY DEF SchedulerTypeOK
<1>. QED
  BY <1>1

\* LockHeld of the next state, for the firings there are then.
LEMMA LockHeldNext ==
    ASSUME \A f \in DOMAIN firings' :
              firings'[f].pc = "executing" /\ firings'[f].guarded /\ f \notin forgotten' =>
                 holders'[IF lockDriver'[firings'[f].server] = "redis" THEN Redis
                          ELSE firings'[f].server][tracked'[firings'[f].job].name] = f
    PROVE  LockHeld'
  BY DEF LockHeld, Executing, DriverOf, NameOf

\* disableDistributedLock(): who holds what stays as it is.
LEMMA DisableLockStep ==
    ASSUME SchedulerAssumption, SchedulerInv, NEW s \in Servers, disableDistributedLock(s)
    PROVE  SchedulerInv'
<1>. SchedulerTypeOK /\ Referring /\ LockHeld
  BY DEF SchedulerInv
<1>1. /\ UNCHANGED <<tracked, jobs, crons, firings, halted, lockDriver, holders, forgotten>>
      /\ switches < MaxSwitches /\ switches' = switches + 1
      /\ lockEnabled' = [lockEnabled EXCEPT ![s] = FALSE]
  BY DEF disableDistributedLock
<1>2. LockHeld'
  BY <1>1 DEF LockHeld, Executing, DriverOf, NameOf
<1>3. switches' \in 0 .. MaxSwitches
  BY <1>1, SchedulerFacts DEF SchedulerTypeOK
<1>4. lockEnabled' \in [Servers -> BOOLEAN]
  BY <1>1 DEF SchedulerTypeOK
<1>5. /\ firings' \in Seq(Firing) /\ Len(firings') <= MaxFirings
      /\ \A f \in DOMAIN firings' : firings'[f].job \in DOMAIN tracked
      /\ lockDriver' \in [Servers -> {"memory", "redis"}]
      /\ holders' \in [Servers \cup {Redis} -> [JobNames -> 0 .. MaxFirings]]
      /\ forgotten' \subseteq 1 .. MaxFirings
  BY <1>1 DEF SchedulerTypeOK, Referring
<1>. QED
  BY <1>1, <1>2, <1>3, <1>4, <1>5, LockStep

\* enableDistributedLock(): the server's runs are forgotten, unless Redis keeps
\* their locks.
LEMMA EnableLockStep ==
    ASSUME SchedulerAssumption, SchedulerInv, NEW s \in Servers,
           NEW driver \in {"memory", "redis"}, enableDistributedLock(s, driver)
    PROVE  SchedulerInv'
<1>. SchedulerTypeOK /\ Referring /\ LockHeld
  BY DEF SchedulerInv
<1> DEFINE same == lockDriver[s] = "redis" /\ driver = "redis"
<1>1. /\ UNCHANGED <<tracked, jobs, crons, firings, halted>>
      /\ switches < MaxSwitches /\ switches' = switches + 1
      /\ lockEnabled' = [lockEnabled EXCEPT ![s] = TRUE]
      /\ lockDriver' = [lockDriver EXCEPT ![s] = driver]
      /\ holders' = [holders EXCEPT ![s] = [n \in JobNames |-> NoHolder]]
      /\ forgotten' = IF same THEN forgotten ELSE forgotten \cup HoldersOn(s)
  BY DEF enableDistributedLock
<1>2. /\ lockDriver' \in [Servers -> {"memory", "redis"}]
      /\ lockDriver'[s] = driver
      /\ \A t \in Servers : t # s => lockDriver'[t] = lockDriver[t]
  BY <1>1 DEF SchedulerTypeOK
<1>3. /\ holders' \in [Servers \cup {Redis} -> [JobNames -> 0 .. MaxFirings]]
      /\ \A e \in Servers \cup {Redis} : e # s => holders'[e] = holders[e]
  <2>1. [n \in JobNames |-> NoHolder] \in [JobNames -> 0 .. MaxFirings]
    BY SchedulerFacts DEF NoHolder
  <2>2. holders \in [Servers \cup {Redis} -> [JobNames -> 0 .. MaxFirings]]
    BY DEF SchedulerTypeOK
  <2>. QED
    BY <1>1, <2>1, <2>2
<1>4. forgotten' \subseteq 1 .. MaxFirings
  BY <1>1, FiringFacts DEF SchedulerTypeOK, HoldersOn
<1>5. LockHeld'
  <2>. SUFFICES ASSUME NEW f \in DOMAIN firings, firings[f].pc = "executing",
                       firings[f].guarded, f \notin forgotten'
                PROVE  holders'[IF lockDriver'[firings[f].server] = "redis" THEN Redis
                                ELSE firings[f].server][NameOf(f)] = f
    BY <1>1, LockHeldNext DEF NameOf
  <2>1. f \notin forgotten
    BY <1>1
  <2>2. holders[DriverOf(firings[f].server)][NameOf(f)] = f
    BY <2>1 DEF LockHeld, Executing
  <2>3. firings[f].server \in Servers /\ Redis \notin Servers
    BY FiringFacts DEF SchedulerAssumption
  <2>4. CASE firings[f].server # s
    BY <1>2, <1>3, <2>2, <2>3, <2>4 DEF DriverOf
  <2>5. CASE firings[f].server = s
    <3>1. f \in HoldersOn(s)
      BY <2>2, <2>5 DEF HoldersOn
    <3>2. same
      BY <1>1, <3>1
    <3>. QED
      BY <1>2, <1>3, <2>2, <2>3, <2>5, <3>2 DEF DriverOf
  <2>. QED
    BY <2>4, <2>5
<1>6. switches' \in 0 .. MaxSwitches
  BY <1>1, SchedulerFacts DEF SchedulerTypeOK
<1>7. lockEnabled' \in [Servers -> BOOLEAN]
  BY <1>1 DEF SchedulerTypeOK
<1>8. /\ firings' \in Seq(Firing) /\ Len(firings') <= MaxFirings
      /\ \A f \in DOMAIN firings' : firings'[f].job \in DOMAIN tracked
  BY <1>1 DEF SchedulerTypeOK, Referring
<1>. QED
  BY <1>1, <1>2, <1>3, <1>4, <1>5, <1>6, <1>7, <1>8, LockStep

\* A lease ends: its holder is over, or looks for its lock elsewhere.
LEMMA LeaseEndsStep ==
    ASSUME SchedulerAssumption, SchedulerInv, NEW n \in JobNames, leaseEnds(n)
    PROVE  SchedulerInv'
<1>. SchedulerTypeOK /\ Referring /\ LockHeld
  BY DEF SchedulerInv
<1> DEFINE g == holders[Redis][n]
<1>1. /\ ~ Executing(g) \/ lockDriver[firings[g].server] # "redis"
      /\ holders' = [holders EXCEPT ![Redis][n] = NoHolder]
      /\ UNCHANGED <<tracked, jobs, crons, firings, lockEnabled, lockDriver, switches, halted,
                     forgotten>>
  BY DEF leaseEnds, lockConfig
<1>2. /\ holders' \in [Servers \cup {Redis} -> [JobNames -> 0 .. MaxFirings]]
      /\ \A e \in Servers \cup {Redis}, m \in JobNames :
            holders'[e][m] = IF e = Redis /\ m = n THEN NoHolder ELSE holders[e][m]
  <2>1. Redis \in Servers \cup {Redis} /\ NoHolder \in 0 .. MaxFirings
    BY SchedulerFacts DEF NoHolder
  <2>2. SchedulerTypeOK /\ holders' = [holders EXCEPT ![Redis][n] = NoHolder]
    BY <1>1
  <2>. QED
    BY <2>1, <2>2, OneLock
<1>3. LockHeld'
  <2>. SUFFICES ASSUME NEW f \in DOMAIN firings, firings[f].pc = "executing",
                       firings[f].guarded, f \notin forgotten
                PROVE  holders'[DriverOf(firings[f].server)][NameOf(f)] = f
    BY <1>1, LockHeldNext DEF NameOf, DriverOf
  <2>1. holders[DriverOf(firings[f].server)][NameOf(f)] = f
    BY DEF LockHeld, Executing
  <2>2. ~ (DriverOf(firings[f].server) = Redis /\ NameOf(f) = n)
    BY <1>1, <2>1, FiringFacts DEF Executing
  <2>. QED
    BY <1>2, <2>1, <2>2, FiringFacts
<1>4. /\ firings' \in Seq(Firing) /\ Len(firings') <= MaxFirings
      /\ \A f \in DOMAIN firings' : firings'[f].job \in DOMAIN tracked
      /\ lockEnabled' \in [Servers -> BOOLEAN]
      /\ lockDriver' \in [Servers -> {"memory", "redis"}]
      /\ switches' \in 0 .. MaxSwitches
      /\ forgotten' \subseteq 1 .. MaxFirings
  BY <1>1 DEF SchedulerTypeOK, Referring
<1>. QED
  BY <1>1, <1>2, <1>3, <1>4, LockStep

\* A live timer finds a job of its own server and name.
LEMMA JobOfFacts ==
    ASSUME SchedulerAssumption, SchedulerInv, NEW c \in DOMAIN crons, JobOf(c) # 0
    PROVE  /\ JobOf(c) \in DOMAIN tracked
           /\ tracked[JobOf(c)].server = crons[c].server
           /\ tracked[JobOf(c)].name = crons[c].name
           /\ crons[c].server \in Servers /\ crons[c].name \in JobNames
<1>. SchedulerTypeOK /\ Referring
  BY DEF SchedulerInv
<1>1. crons[c].server \in Servers /\ crons[c].name \in JobNames
  BY SchedulerFacts DEF Cron
<1>. QED
  BY <1>1 DEF JobOf, Referring

\* A cron callback begins: under the memory driver it holds its lock at once, and
\* nobody else did.
LEMMA FiresStep ==
    ASSUME SchedulerAssumption, SchedulerInv, NEW c \in DOMAIN crons, fires(c)
    PROVE  SchedulerInv'
<1>. SchedulerTypeOK /\ Referring /\ LockHeld
  BY DEF SchedulerInv
<1> DEFINE s == crons[c].server
           n == crons[c].name
           j == JobOf(c)
           pc == IF ~ lockEnabled[s] THEN "executing"
                 ELSE IF lockDriver[s] = "redis" THEN "acquiring"
                 ELSE IF Free(s, n) THEN "executing" ELSE "over"
           k == Len(firings) + 1
           new == [server |-> s, job |-> j, guarded |-> lockEnabled[s], pc |-> pc]
           takes == lockEnabled[s] /\ pc = "executing"
<1>1. /\ Len(firings) < MaxFirings /\ j # 0
      /\ firings' = Append(firings, new)
      /\ holders' = IF takes THEN [holders EXCEPT ![s][n] = k] ELSE holders
      /\ UNCHANGED <<tracked, jobs, crons, lockEnabled, lockDriver, switches, halted, forgotten>>
  BY DEF fires, lockConfig
<1>2. /\ j \in DOMAIN tracked /\ s \in Servers /\ n \in JobNames /\ tracked[j].name = n
  BY <1>1, JobOfFacts
<1>3. new \in Firing /\ new.server = s /\ new.job = j /\ new.pc = pc
      /\ (new.guarded <=> lockEnabled[s])
  <2>1. pc \in {"acquiring", "executing", "over"}
    OBVIOUS
  <2>2. j \in 1 .. MaxTracked
    BY <1>2, SchedulerFacts DEF Referring
  <2>3. lockEnabled[s] \in BOOLEAN
    BY <1>2 DEF SchedulerTypeOK
  <2>. HIDE DEF pc, j, s
  <2>. QED
    BY <1>2, <2>1, <2>2, <2>3 DEF Firing
<1>4. takes => lockDriver[s] = "memory" /\ holders[s][n] = NoHolder
  BY <1>2, FiringFacts DEF Free
<1>5. k \in 1 .. MaxFirings /\ k \notin DOMAIN firings
  BY <1>1, SchedulerFacts
<1>. HIDE DEF pc, new
<1>6. /\ firings' \in Seq(Firing) /\ Len(firings') = k /\ DOMAIN firings' = 1 .. k
      /\ \A f \in DOMAIN firings : firings'[f] = firings[f]
      /\ firings'[k] = new
      /\ \A f \in DOMAIN firings' : f = k \/ f \in DOMAIN firings
  <2>1. firings \in Seq(Firing)
    BY DEF SchedulerTypeOK
  <2>. QED
    BY <1>1, <1>3, <2>1, AppendFacts, SchedulerFacts
<1>7. /\ holders' \in [Servers \cup {Redis} -> [JobNames -> 0 .. MaxFirings]]
      /\ \A e \in Servers \cup {Redis}, m \in JobNames :
            holders'[e][m] = IF takes /\ e = s /\ m = n THEN k ELSE holders[e][m]
  <2>1. k \in 0 .. MaxFirings
    BY <1>5
  <2>. HIDE DEF takes, s, n, k
  <2>2. CASE takes
    <3>1. s \in Servers \cup {Redis} /\ n \in JobNames
      BY <1>2
    <3>2. holders' = [holders EXCEPT ![s][n] = k]
      BY <1>1, <2>2
    <3>. QED
      BY ZenonT(40), <2>1, <2>2, <3>1, <3>2, OneLock
  <2>3. CASE ~ takes
    BY <1>1, <2>3 DEF SchedulerTypeOK
  <2>. QED
    BY <2>2, <2>3
<1>8. ASSUME NEW f \in DOMAIN firings', firings'[f].pc = "executing",
             firings'[f].guarded, f \notin forgotten
      PROVE  holders'[DriverOf(firings'[f].server)][tracked[firings'[f].job].name] = f
  <2>1. CASE f = k
    <3>1. pc = "executing" /\ lockEnabled[s]
      BY <1>3, <1>6, <1>8, <2>1
    <3>2. takes /\ firings'[f].server = s /\ firings'[f].job = j
      BY <1>3, <1>6, <2>1, <3>1
    <3>3. DriverOf(s) = s
      BY <1>2, <1>4, <3>2, FiringFacts
    <3>. QED
      BY <1>2, <1>7, <2>1, <3>2, <3>3
  <2>2. CASE f \in DOMAIN firings
    <3>1. firings'[f] = firings[f] /\ firings[f].server \in Servers /\ NameOf(f) \in JobNames
          /\ DriverOf(firings[f].server) \in Servers \cup {Redis}
      BY <1>6, <2>2, FiringFacts
    <3>2. holders[DriverOf(firings[f].server)][NameOf(f)] = f
      BY <1>8, <2>2, <3>1 DEF LockHeld, Executing
    <3>3. f # NoHolder
      BY <2>2, FiringFacts
    <3>4. ~ (takes /\ DriverOf(firings[f].server) = s /\ NameOf(f) = n)
      BY <1>4, <3>2, <3>3
    <3>. QED
      BY <1>7, <3>1, <3>2, <3>4 DEF NameOf
  <2>. QED
    BY <1>6, <2>1, <2>2
<1>9. LockHeld'
  BY <1>1, <1>8, LockHeldNext DEF DriverOf
<1>10. Len(firings') <= MaxFirings /\ \A f \in DOMAIN firings' : firings'[f].job \in DOMAIN tracked
  BY <1>2, <1>3, <1>5, <1>6 DEF Referring
<1>11. /\ UNCHANGED <<tracked, jobs, crons, halted>>
       /\ lockEnabled' \in [Servers -> BOOLEAN]
       /\ lockDriver' \in [Servers -> {"memory", "redis"}]
       /\ switches' \in 0 .. MaxSwitches
       /\ forgotten' \subseteq 1 .. MaxFirings
  BY <1>1 DEF SchedulerTypeOK
<1>. QED
  BY <1>6, <1>7, <1>9, <1>10, <1>11, LockStep

\* A firing changes only in how far it is.
LEMMA FiringMoves ==
    ASSUME SchedulerAssumption, SchedulerInv, NEW g \in DOMAIN firings,
           NEW pc \in {"acquiring", "executing", "over"},
           firings' = [firings EXCEPT ![g].pc = pc]
    PROVE  /\ firings' \in Seq(Firing) /\ Len(firings') <= MaxFirings
           /\ DOMAIN firings' = DOMAIN firings
           /\ \A f \in DOMAIN firings' : firings'[f].job \in DOMAIN tracked
           /\ \A f \in DOMAIN firings : /\ firings'[f].server = firings[f].server
                                        /\ firings'[f].job = firings[f].job
                                        /\ firings'[f].guarded <=> firings[f].guarded
                                        /\ f # g => firings'[f].pc = firings[f].pc
           /\ firings'[g].pc = pc
<1>. SchedulerTypeOK /\ Referring
  BY DEF SchedulerInv
<1>1. firings \in Seq(Firing) /\ firings[g] \in Firing
  BY SchedulerFacts DEF SchedulerTypeOK
<1> DEFINE new == [firings[g] EXCEPT !.pc = pc]
<1>2. /\ new \in Firing /\ new.server = firings[g].server /\ new.job = firings[g].job
      /\ new.guarded = firings[g].guarded /\ new.pc = pc
  BY <1>1 DEF Firing
<1>3. firings' = [firings EXCEPT ![g] = new]
  OBVIOUS
<1>. HIDE DEF new
<1>4. /\ firings' \in Seq(Firing) /\ Len(firings') = Len(firings)
      /\ DOMAIN firings' = DOMAIN firings
      /\ \A f \in DOMAIN firings : firings'[f] = IF f = g THEN new ELSE firings[f]
  BY <1>1, <1>2, <1>3, SchedulerFacts
<1>. QED
  BY SMTT(30), <1>2, <1>4 DEF Referring

\* The answer of Redis: a run that got the lock is its holder there, and if the
\* driver was switched meanwhile it is forgotten from the start.
LEMMA AnsweredStep ==
    ASSUME SchedulerAssumption, SchedulerInv, NEW g \in DOMAIN firings, answered(g)
    PROVE  SchedulerInv'
<1>. SchedulerTypeOK /\ Referring /\ LockHeld
  BY DEF SchedulerInv
<1> DEFINE free == holders[Redis][NameOf(g)] = NoHolder
           pc == IF free THEN "executing" ELSE "over"
<1>1. /\ firings' = [firings EXCEPT ![g].pc = pc]
      /\ holders' = IF free THEN [holders EXCEPT ![Redis][NameOf(g)] = g] ELSE holders
      /\ forgotten' = IF free /\ lockDriver[firings[g].server] # "redis"
                      THEN forgotten \cup {g} ELSE forgotten
      /\ UNCHANGED <<tracked, jobs, crons, lockEnabled, lockDriver, switches, halted>>
  BY DEF answered, lockConfig
<1>2. pc \in {"acquiring", "executing", "over"} /\ (pc = "executing" => free)
  OBVIOUS
<1>3. Redis \in Servers \cup {Redis} /\ NameOf(g) \in JobNames /\ g \in 0 .. MaxFirings
      /\ g \in 1 .. MaxFirings
  BY FiringFacts
<1>. HIDE DEF free, pc
<1>4. /\ firings' \in Seq(Firing) /\ Len(firings') <= MaxFirings
      /\ DOMAIN firings' = DOMAIN firings
      /\ \A f \in DOMAIN firings' : firings'[f].job \in DOMAIN tracked
      /\ \A f \in DOMAIN firings : /\ firings'[f].server = firings[f].server
                                   /\ firings'[f].job = firings[f].job
                                   /\ firings'[f].guarded <=> firings[f].guarded
                                   /\ f # g => firings'[f].pc = firings[f].pc
      /\ firings'[g].pc = pc
  BY <1>1, <1>2, FiringMoves
<1>5. /\ holders' \in [Servers \cup {Redis} -> [JobNames -> 0 .. MaxFirings]]
      /\ \A e \in Servers \cup {Redis}, m \in JobNames :
            holders'[e][m] = IF free /\ e = Redis /\ m = NameOf(g) THEN g ELSE holders[e][m]
  <2>1. CASE free
    BY <1>1, <1>3, <2>1, OneLock
  <2>2. CASE ~ free
    BY <1>1, <2>2 DEF SchedulerTypeOK
  <2>. QED
    BY <2>1, <2>2
<1>6. ASSUME NEW f \in DOMAIN firings, firings'[f].pc = "executing",
             firings'[f].guarded, f \notin forgotten'
      PROVE  holders'[DriverOf(firings[f].server)][NameOf(f)] = f
  <2>1. /\ firings[f].server \in Servers /\ NameOf(f) \in JobNames
        /\ DriverOf(firings[f].server) \in Servers \cup {Redis} /\ f # NoHolder
    BY FiringFacts
  <2>2. CASE f = g
    <3>1. free
      BY <1>2, <1>4, <1>6, <2>2
    <3>2. lockDriver[firings[g].server] = "redis"
      BY <1>1, <1>6, <2>2, <3>1
    <3>3. DriverOf(firings[g].server) = Redis
      BY <2>1, <2>2, <3>2, FiringFacts
    <3>. QED
      BY <1>5, <2>1, <2>2, <3>1, <3>3
  <2>3. CASE f # g
    <3>1. firings[f].pc = "executing" /\ firings[f].guarded /\ f \notin forgotten
      BY <1>1, <1>4, <1>6, <2>3
    <3>2. holders[DriverOf(firings[f].server)][NameOf(f)] = f
      BY <3>1 DEF LockHeld, Executing
    <3>3. ~ (free /\ DriverOf(firings[f].server) = Redis /\ NameOf(f) = NameOf(g))
      BY <2>1, <3>2 DEF free
    <3>. QED
      BY <1>5, <2>1, <3>2, <3>3
  <2>. QED
    BY <2>2, <2>3
<1>7. LockHeld'
  <2>. SUFFICES ASSUME NEW f \in DOMAIN firings, firings'[f].pc = "executing",
                       firings'[f].guarded, f \notin forgotten'
                PROVE  holders'[IF lockDriver'[firings'[f].server] = "redis" THEN Redis
                                ELSE firings'[f].server][tracked'[firings'[f].job].name] = f
    BY <1>4, LockHeldNext
  <2>. QED
    BY <1>1, <1>4, <1>6 DEF DriverOf, NameOf
<1>8. forgotten' \subseteq 1 .. MaxFirings
  BY <1>1, <1>3 DEF SchedulerTypeOK
<1>9. /\ UNCHANGED <<tracked, jobs, crons, halted>>
      /\ lockEnabled' \in [Servers -> BOOLEAN]
      /\ lockDriver' \in [Servers -> {"memory", "redis"}]
      /\ switches' \in 0 .. MaxSwitches
  BY <1>1 DEF SchedulerTypeOK
<1>. QED
  BY <1>4, <1>5, <1>7, <1>8, <1>9, LockStep

\* A run ends and releases its own lock, or none.
LEMMA ExecutedStep ==
    ASSUME SchedulerAssumption, SchedulerInv, NEW g \in DOMAIN firings, executed(g)
    PROVE  SchedulerInv'
<1>. SchedulerTypeOK /\ Referring /\ LockHeld
  BY DEF SchedulerInv
<1> DEFINE d == DriverOf(firings[g].server)
           frees == firings[g].guarded /\ holders[d][NameOf(g)] = g
<1>1. /\ firings' = [firings EXCEPT ![g].pc = "over"]
      /\ holders' = IF frees THEN [holders EXCEPT ![d][NameOf(g)] = NoHolder] ELSE holders
      /\ UNCHANGED <<tracked, jobs, crons, lockEnabled, lockDriver, switches, halted, forgotten>>
  BY DEF executed, Released, lockConfig
<1>2. /\ d \in Servers \cup {Redis} /\ NameOf(g) \in JobNames /\ NoHolder \in 0 .. MaxFirings
  BY FiringFacts, SchedulerFacts DEF NoHolder
<1>. HIDE DEF d, frees
<1>3. /\ firings' \in Seq(Firing) /\ Len(firings') <= MaxFirings
      /\ DOMAIN firings' = DOMAIN firings
      /\ \A f \in DOMAIN firings' : firings'[f].job \in DOMAIN tracked
      /\ \A f \in DOMAIN firings : /\ firings'[f].server = firings[f].server
                                   /\ firings'[f].job = firings[f].job
                                   /\ firings'[f].guarded <=> firings[f].guarded
                                   /\ f # g => firings'[f].pc = firings[f].pc
      /\ firings'[g].pc = "over"
  BY <1>1, FiringMoves
<1>4. /\ holders' \in [Servers \cup {Redis} -> [JobNames -> 0 .. MaxFirings]]
      /\ \A e \in Servers \cup {Redis}, m \in JobNames :
            holders'[e][m] = IF frees /\ e = d /\ m = NameOf(g) THEN NoHolder ELSE holders[e][m]
  <2>1. CASE frees
    <3> DEFINE n == NameOf(g)
    <3>1. n \in JobNames
      BY <1>2
    <3>2. holders' = [holders EXCEPT ![d][n] = NoHolder]
      BY <1>1, <2>1
    <3>. HIDE DEF n
    <3>. QED
      BY ZenonT(40), <1>2, <2>1, <3>1, <3>2, OneLock DEF n
  <2>2. CASE ~ frees
    BY <1>1, <2>2 DEF SchedulerTypeOK
  <2>. QED
    BY <2>1, <2>2
<1>5. ASSUME NEW f \in DOMAIN firings, firings'[f].pc = "executing",
             firings'[f].guarded, f \notin forgotten
      PROVE  holders'[DriverOf(firings[f].server)][NameOf(f)] = f
  <2>1. /\ firings[f].server \in Servers /\ NameOf(f) \in JobNames
        /\ DriverOf(firings[f].server) \in Servers \cup {Redis}
    BY FiringFacts
  <2>2. f # g
    BY <1>3, <1>5
  <2>3. firings[f].pc = "executing" /\ firings[f].guarded
    BY <1>3, <1>5, <2>2
  <2>4. holders[DriverOf(firings[f].server)][NameOf(f)] = f
    BY <1>5, <2>3 DEF LockHeld, Executing
  <2>5. ~ (frees /\ DriverOf(firings[f].server) = d /\ NameOf(f) = NameOf(g))
    BY <2>2, <2>4 DEF frees
  <2>. QED
    BY <1>4, <2>1, <2>4, <2>5
<1>6. LockHeld'
  <2>. SUFFICES ASSUME NEW f \in DOMAIN firings, firings'[f].pc = "executing",
                       firings'[f].guarded, f \notin forgotten'
                PROVE  holders'[IF lockDriver'[firings'[f].server] = "redis" THEN Redis
                                ELSE firings'[f].server][tracked'[firings'[f].job].name] = f
    BY <1>3, LockHeldNext
  <2>. QED
    BY <1>1, <1>3, <1>5 DEF DriverOf, NameOf
<1>7. /\ UNCHANGED <<tracked, jobs, crons, halted>>
      /\ lockEnabled' \in [Servers -> BOOLEAN]
      /\ lockDriver' \in [Servers -> {"memory", "redis"}]
      /\ switches' \in 0 .. MaxSwitches
      /\ forgotten' \subseteq 1 .. MaxFirings
  BY <1>1 DEF SchedulerTypeOK
<1>. QED
  BY <1>3, <1>4, <1>6, <1>7, LockStep

-----------------------------------------------------------------------------
(* Scheduler: theorems.                                                    *)

\* The invariant holds before anything was scheduled.
LEMMA SchedulerInvInit == ASSUME SchedulerAssumption, SchedulerInit PROVE SchedulerInv
<1>1. MaxTracked \in Nat /\ MaxCrons \in Nat /\ MaxFirings \in Nat /\ MaxSwitches \in Nat
  BY DEF SchedulerAssumption
<1>2. SchedulerTypeOK
  BY <1>1, EmptySeq DEF SchedulerInit, SchedulerTypeOK, NoHolder
<1>3. Referring /\ NoStaleHandle /\ LockHeld
  BY <1>1, EmptySeq DEF SchedulerInit, Referring, NoStaleHandle, LockHeld
<1>4. OneTimerPerJob
  BY DEF SchedulerInit, OneTimerPerJob, LiveCrons
<1>. QED
  BY <1>2, <1>3, <1>4 DEF SchedulerInv

\* Every call, callback and answer keeps it.
LEMMA SchedulerInvStep ==
    ASSUME SchedulerAssumption, SchedulerInv, [SchedulerNext]_schedulerVars PROVE SchedulerInv'
<1>1. CASE UNCHANGED schedulerVars
  BY <1>1 DEF SchedulerInv, SchedulerTypeOK, Referring, NoStaleHandle, OneTimerPerJob, LiveCrons,
              LockHeld, Executing, DriverOf, NameOf, schedulerVars, lockVars, lockConfig
<1>2. ASSUME NEW s \in Servers, NEW n \in JobNames,
             \/ \E enabled \in BOOLEAN : add(s, n, enabled)
             \/ remove(s, n)
             \/ enable(s, n)
             \/ disable(s, n)
      PROVE  SchedulerInv'
  BY <1>2, AddStep, RemoveStep, EnableStep, DisableStep
<1>3. ASSUME NEW s \in Servers,
             \/ startAll(s)
             \/ stopAll(s)
             \/ \E driver \in {"memory", "redis"} : enableDistributedLock(s, driver)
             \/ disableDistributedLock(s)
      PROVE  SchedulerInv'
  BY <1>3, StartAllStep, StopAllStep, EnableLockStep, DisableLockStep
<1>4. ASSUME NEW c \in DOMAIN crons, fires(c)
      PROVE  SchedulerInv'
  BY <1>4, FiresStep
<1>5. ASSUME NEW f \in DOMAIN firings, answered(f) \/ executed(f)
      PROVE  SchedulerInv'
  BY <1>5, AnsweredStep, ExecutedStep
<1>6. ASSUME NEW n \in JobNames, leaseEnds(n)
      PROVE  SchedulerInv'
  BY <1>6, LeaseEndsStep
<1>. QED
  BY <1>1, <1>2, <1>3, <1>4, <1>5, <1>6 DEF SchedulerNext

\* add(), remove(), enable(), disable(), startAll(), stopAll(), runScheduled(): in
\* every order of them, on every server, indices refer to what was made, no job
\* keeps a handle that is another's, and a run under the lock is the lock's holder.
THEOREM SchedulerInvariant == ASSUME SchedulerAssumption PROVE SchedulerSpec => []SchedulerInv
<1>1. SchedulerInit => SchedulerInv
  BY SchedulerInvInit
<1>2. SchedulerInv /\ [SchedulerNext]_schedulerVars => SchedulerInv'
  BY SchedulerInvStep
<1>. QED
  BY <1>1, <1>2, PTL DEF SchedulerSpec

\* Two runs that took one lock would both be its holder.
LEMMA OneHolder == ASSUME SchedulerAssumption, SchedulerInv PROVE OneRunPerLock
<1>. SUFFICES ASSUME NEW f \in DOMAIN firings, NEW g \in DOMAIN firings,
                     NameOf(f) = NameOf(g), Executing(f), Executing(g),
                     firings[f].guarded, firings[g].guarded,
                     \/ firings[f].server = firings[g].server
                     \/ /\ lockDriver[firings[f].server] = "redis"
                        /\ lockDriver[firings[g].server] = "redis",
                     f \notin forgotten, g \notin forgotten
              PROVE  f = g
  BY DEF OneRunPerLock
<1>1. /\ holders[DriverOf(firings[f].server)][NameOf(f)] = f
      /\ holders[DriverOf(firings[g].server)][NameOf(g)] = g
  BY DEF SchedulerInv, LockHeld
<1>2. DriverOf(firings[f].server) = DriverOf(firings[g].server)
  BY DEF DriverOf
<1>. QED
  BY <1>1, <1>2

\* Scheduler and runScheduled(): whatever is called in whatever order on however
\* many servers, an enabled job has one timer, a job that is off or gone has none,
\* and its runs under the lock do not overlap.
THEOREM ScheduledOnceHolds == ASSUME SchedulerAssumption PROVE SchedulerSpec => []ScheduledOnce
<1>1. SchedulerInv => ScheduledOnce
  BY OneHolder DEF ScheduledOnce, SchedulerInv
<1>. QED
  BY <1>1, SchedulerInvariant, PTL

-----------------------------------------------------------------------------
(* Migrations: the table, the files and the commands.                      *)

\* The files, the rows and the commands, with the types the code gives them.
LEMMA MigrationFacts ==
    ASSUME MigrationsAssumption, MigrationsTypeOK
    PROVE  /\ Len(Files) \in Nat /\ DOMAIN Files = 1 .. Len(Files)
           /\ \A i \in DOMAIN Files : Files[i] \in Names
           /\ \A i, j \in DOMAIN Files : Files[i] = Files[j] => i = j
           /\ IsFiniteSet(Names)
           /\ \A f \in DOMAIN rows : f \in Names /\ rows[f] \in Nat /\ rows[f] > 0
           /\ \A p \in Runners : runner[p] = IdleRunner \/ runner[p] \in Command
           /\ \A p \in Runners : Running(p) => runner[p] \in Command
           /\ runs \in Nat /\ MaxRuns \in Nat /\ MaxEdits \in Nat /\ MaxFailures \in Nat
<1>1. Files \in Seq(Names)
  BY DEF MigrationsAssumption, Names
<1>2. Len(Files) \in Nat /\ DOMAIN Files = 1 .. Len(Files) /\ \A i \in DOMAIN Files : Files[i] \in Names
  BY <1>1, LenProperties, ElementOfSeq
<1>3. \A i, j \in DOMAIN Files : Files[i] = Files[j] => i = j
  BY DEF MigrationsAssumption, IsInjective
<1>4. IsFiniteSet(Names)
  <2>1. Files \in [1 .. Len(Files) -> Names]
    BY <1>1, <1>2
  <2>2. \A f \in Names : \E i \in 1 .. Len(Files) : Files[i] = f
    BY <1>2 DEF Names, Range
  <2>3. Files \in Surjection(1 .. Len(Files), Names)
    BY <2>1, <2>2 DEF Surjection
  <2>4. IsFiniteSet(1 .. Len(Files))
    BY <1>2, FS_Interval
  <2>. QED
    BY <2>3, <2>4, FS_Surjection
<1>5. \A f \in DOMAIN rows : f \in Names /\ rows[f] \in Nat /\ rows[f] > 0
  BY DEF MigrationsTypeOK
<1>6. \A p \in Runners : runner[p] = IdleRunner \/ runner[p] \in Command
  BY DEF MigrationsTypeOK
<1>7. \A p \in Runners : Running(p) => runner[p] \in Command
  BY <1>6 DEF Running, Doing, IdleRunner
<1>8. runs \in Nat /\ MaxRuns \in Nat /\ MaxEdits \in Nat /\ MaxFailures \in Nat
  BY DEF MigrationsAssumption, MigrationsTypeOK
<1>. QED
  BY <1>2, <1>3, <1>4, <1>5, <1>6, <1>7, <1>8

\* A table that is not empty has a row.
LEMMA RowsFacts == ASSUME MigrationsTypeOK, rows # <<>> PROVE DOMAIN rows # {}
<1>. SUFFICES ASSUME DOMAIN rows = {} PROVE FALSE
  OBVIOUS
<1>1. rows \in [1 .. 0 -> Nat \ {0}]
  BY DEF MigrationsTypeOK
<1>2. rows \in Seq(Nat \ {0}) /\ Len(rows) = 0
  BY <1>1
<1>. QED
  BY <1>2, EmptySeq

\* SELECT MAX(batch) is the batch of a row, or 0.
LEMMA MaxBatchLemma ==
    ASSUME MigrationsAssumption, MigrationsTypeOK, BatchesBounded
    PROVE  MaxBatch \in 0 .. runs
<1>1. CASE rows = <<>>
  BY <1>1, MigrationFacts DEF MaxBatch
<1>2. CASE rows # <<>>
  <2>1. Range(rows) \subseteq 0 .. runs
    BY MigrationFacts DEF BatchesBounded, Range
  <2>2. DOMAIN rows # {}
    BY <1>2, RowsFacts
  <2>3. Range(rows) # {}
    BY <2>2 DEF Range
  <2>4. Max(Range(rows)) \in Range(rows)
    BY <2>1, <2>3, MigrationFacts, MaxLemma
  <2>. QED
    BY <1>2, <2>1, <2>4 DEF MaxBatch
<1>. QED
  BY <1>1, <1>2

\* INSERT adds one row.
LEMMA Recorded ==
    ASSUME NEW f, NEW b, rows' = WithRow(f, b)
    PROVE  /\ DOMAIN rows' = DOMAIN rows \cup {f}
           /\ rows'[f] = b
           /\ \A g \in DOMAIN rows : g # f => rows'[g] = rows[g]
           /\ rows' = [g \in DOMAIN rows \cup {f} |-> rows'[g]]
  BY DEF WithRow

\* DELETE takes one away.
LEMMA Unrecorded ==
    ASSUME NEW f, rows' = Restrict(rows, DOMAIN rows \ {f})
    PROVE  /\ DOMAIN rows' = DOMAIN rows \ {f}
           /\ \A g \in DOMAIN rows \ {f} : rows'[g] = rows[g]
           /\ rows' = [g \in DOMAIN rows \ {f} |-> rows'[g]]
  BY DEF Restrict

\* The rows a rollback selects: each once, none but those, and a later batch
\* before an earlier one.
LEMMA SelectionsLemma ==
    ASSUME MigrationsAssumption, MigrationsTypeOK, NEW lowest \in Nat,
           NEW todo \in Selections(lowest)
    PROVE  /\ todo \in Seq(Names) /\ IsInjective(todo) /\ Range(todo) \subseteq DOMAIN rows
           /\ \A f \in DOMAIN rows : rows[f] > lowest => todo # <<>>
           /\ \A f \in DOMAIN rows, i \in DOMAIN todo : rows[f] > rows[todo[i]] =>
                 \E k \in 1 .. i - 1 : f = todo[k]
<1> DEFINE chosen == {f \in DOMAIN rows : rows[f] > lowest}
<1>1. todo \in SetToSeqs(chosen)
      /\ \A i, j \in DOMAIN todo : i < j => rows[todo[i]] >= rows[todo[j]]
  BY DEF Selections
<1>2. chosen \subseteq Names /\ IsFiniteSet(chosen)
  <2>1. chosen \subseteq Names
    BY MigrationFacts
  <2>. HIDE DEF chosen
  <2>. QED
    BY <2>1, MigrationFacts, FS_Subset
<1>3. /\ todo \in Seq(chosen) /\ Len(todo) \in Nat /\ DOMAIN todo = 1 .. Len(todo)
      /\ \A i, j \in DOMAIN todo : todo[i] = todo[j] => i = j
      /\ \A x \in chosen : \E i \in DOMAIN todo : todo[i] = x
  <2>. HIDE DEF chosen
  <2>. QED
    BY <1>1, <1>2, SetToSeqsLemma
<1>4. \A i \in DOMAIN todo : todo[i] \in chosen
  BY <1>3, ElementOfSeq
<1>5. todo \in Seq(Names)
  BY <1>2, <1>3, <1>4
<1>6. Range(todo) \subseteq DOMAIN rows /\ IsInjective(todo)
  BY <1>3, <1>4 DEF Range, IsInjective
<1>7. ASSUME NEW f \in DOMAIN rows, rows[f] > lowest
      PROVE  todo # <<>>
  BY <1>3, <1>7, EmptySeq
<1>8. ASSUME NEW f \in DOMAIN rows, NEW i \in DOMAIN todo, rows[f] > rows[todo[i]]
      PROVE  \E k \in 1 .. i - 1 : f = todo[k]
  <2>1. todo[i] \in DOMAIN rows /\ rows[todo[i]] > lowest /\ rows[todo[i]] \in Nat /\ rows[f] \in Nat
    BY <1>4, MigrationFacts
  <2>2. f \in chosen
    BY <1>8, <2>1
  <2>3. PICK k \in DOMAIN todo : todo[k] = f
    BY <1>3, <2>2
  <2>4. ~ (i < k) /\ i # k
    BY <1>1, <1>8, <2>1, <2>3
  <2>5. k \in 1 .. i - 1
    BY <1>3, <2>4
  <2>. QED
    BY <2>3, <2>5
<1>. QED
  BY <1>5, <1>6, <1>7, <1>8

\* The files a migrate finds that are not recorded: each once, in their order.
LEMMA PendingLemma ==
    ASSUME MigrationsAssumption, MigrationsTypeOK, NEW todo \in Pending
    PROVE  /\ todo \in Seq(Names)
           /\ \A i, j \in DOMAIN todo : i < j => Before(todo[i], todo[j])
           /\ present \subseteq DOMAIN rows \cup Range(todo)
<1> DEFINE left == present \ DOMAIN rows
<1>1. todo \in SetToSeqs(left)
      /\ \A i, j \in DOMAIN todo : i < j => Before(todo[i], todo[j])
  BY DEF Pending
<1>2. left \subseteq Names /\ IsFiniteSet(left)
  <2>1. left \subseteq Names
    BY DEF MigrationsTypeOK
  <2>. HIDE DEF left
  <2>. QED
    BY <2>1, MigrationFacts, FS_Subset
<1>3. /\ todo \in Seq(left) /\ Len(todo) \in Nat /\ DOMAIN todo = 1 .. Len(todo)
      /\ \A x \in left : \E i \in DOMAIN todo : todo[i] = x
  <2>. HIDE DEF left
  <2>. QED
    BY <1>1, <1>2, SetToSeqsLemma
<1>4. todo \in Seq(Names)
  BY <1>2, <1>3
<1>5. left \subseteq Range(todo)
  BY <1>3 DEF Range
<1>. QED
  BY <1>1, <1>4, <1>5

\* The parts of the invariant that one process's step has to keep when it runs a
\* command: the others run none, unless commands overlapped.
LEMMA OneRunnerSteps ==
    ASSUME MigrationsAssumption, MigrationsInv, NEW p \in Runners, Running(p),
           overlaid' = overlaid, runs' = runs, edits' = edits, present' = present,
           failures' \in 0 .. MaxFailures,
           runner' \in [Runners -> {IdleRunner} \cup Command],
           \A q \in Runners : q # p => runner'[q] = runner[q],
           DOMAIN rows' \subseteq Names, rows' \in [DOMAIN rows' -> Nat \ {0}],
           \A f \in DOMAIN rows' : rows'[f] <= runs,
           applied' \subseteq Names \ WithoutUp, adrift' \subseteq Names,
           Running(p)' => runner'[p].base < runs,
           runner'[p].pc \in {"up", "insert", "down", "delete"} => runner'[p].todo # <<>>,
           ~ overlaid =>
              /\ \A f \in Names : f \notin adrift' =>
                    \/ runner'[p].pc \in {"insert", "delete"} /\ Head(runner'[p].todo) = f
                    \/ (f \in applied' <=> f \in DOMAIN rows')
              /\ InStep(p)'
    PROVE  MigrationsInv'
<1>. MigrationsTypeOK /\ BatchesBounded /\ HasNext
  BY DEF MigrationsInv
<1>1. MigrationsTypeOK'
  BY DEF MigrationsTypeOK
<1>2. BatchesBounded'
  <2>1. ASSUME NEW q \in Runners, Running(q)'
        PROVE  runner'[q].base < runs
    BY <2>1 DEF BatchesBounded, Running, Doing
  <2>. QED
    BY <2>1 DEF BatchesBounded
<1>3. HasNext'
  BY DEF HasNext, Doing
<1>4. ASSUME ~ overlaid
      PROVE  Alone' /\ SchemaMatchesTable' /\ \A q \in Runners : InStep(q)'
  <2>1. \A q \in Runners : q # p => ~ Running(q)
    BY <1>4 DEF MigrationsInv, Alone
  <2>2. \A q \in Runners : q # p => Doing(q)' = "idle"
    BY <2>1 DEF Running, Doing
  <2>3. Alone'
    BY <2>2 DEF Alone, Running
  <2>4. \A q \in Runners : InStep(q)'
    BY <1>4, <2>2 DEF InStep
  <2>5. SchemaMatchesTable'
    BY <1>4 DEF SchemaMatchesTable, InHand, Doing, Next1
  <2>. QED
    BY <2>3, <2>4, <2>5
<1>. QED
  BY <1>1, <1>2, <1>3, <1>4 DEF MigrationsInv

\* What the process that runs a command is at.
LEMMA RunnerFacts ==
    ASSUME MigrationsAssumption, MigrationsInv, NEW p \in Runners, Running(p)
    PROVE  /\ runner[p] \in Command /\ runner[p].base < runs
           /\ runner[p].todo \in Seq(Names) /\ runner[p].listed \subseteq Names
           /\ runner[p].base \in Nat
           /\ Doing(p) \in {"up", "insert", "down", "delete"} =>
                 runner[p].todo # <<>> /\ Next1(p) \in Names
           /\ ~ overlaid => /\ InStep(p)
                            /\ \A f \in Names : f \notin adrift =>
                                  \/ Doing(p) \in {"insert", "delete"} /\ Next1(p) = f
                                  \/ (f \in applied <=> f \in DOMAIN rows)
<1>. MigrationsTypeOK /\ BatchesBounded /\ HasNext
  BY DEF MigrationsInv
<1>1. runner[p] \in Command /\ runner[p].base < runs
  BY MigrationFacts DEF BatchesBounded
<1>2. runner[p].todo \in Seq(Names) /\ runner[p].listed \subseteq Names /\ runner[p].base \in Nat
  BY <1>1 DEF Command
<1>3. Doing(p) \in {"up", "insert", "down", "delete"} => runner[p].todo # <<>> /\ Next1(p) \in Names
  BY <1>2, TailFacts DEF HasNext, Next1
<1>4. ASSUME ~ overlaid
      PROVE  /\ InStep(p)
             /\ \A f \in Names : f \notin adrift =>
                   \/ Doing(p) \in {"insert", "delete"} /\ Next1(p) = f
                   \/ (f \in applied <=> f \in DOMAIN rows)
  <2>1. \A q \in Runners : Doing(q) # "idle" => q = p
    BY <1>4 DEF MigrationsInv, Alone, Running
  <2>2. \A f : InHand(f) => Doing(p) \in {"insert", "delete"} /\ Next1(p) = f
    BY <2>1 DEF InHand
  <2>. QED
    BY <1>4, <2>2 DEF MigrationsInv, SchemaMatchesTable
<1>. QED
  BY <1>1, <1>2, <1>3, <1>4

\* A command ends.
LEMMA EndedLemma ==
    ASSUME MigrationsTypeOK, NEW p \in Runners, runner' = Ended(p)
    PROVE  /\ runner' \in [Runners -> {IdleRunner} \cup Command]
           /\ \A q \in Runners : q # p => runner'[q] = runner[q]
           /\ runner'[p].pc = "idle" /\ ~ Running(p)' /\ InStep(p)'
<1>1. /\ runner' \in [Runners -> {IdleRunner} \cup Command]
      /\ \A q \in Runners : q # p => runner'[q] = runner[q]
      /\ runner'[p] = IdleRunner
  BY DEF Ended, MigrationsTypeOK
<1>2. runner'[p].pc = "idle"
  BY <1>1 DEF IdleRunner
<1>. QED
  BY <1>1, <1>2 DEF Running, Doing, InStep

\* A command goes on to its second statement.
LEMMA GoesOn ==
    ASSUME MigrationsTypeOK, NEW p \in Runners, runner[p] \in Command,
           NEW pc \in {"up", "insert", "down", "delete"},
           runner' = [runner EXCEPT ![p].pc = pc]
    PROVE  /\ runner' \in [Runners -> {IdleRunner} \cup Command]
           /\ \A q \in Runners : q # p => runner'[q] = runner[q]
           /\ runner'[p].pc = pc
           /\ runner'[p].todo = runner[p].todo /\ runner'[p].base = runner[p].base
           /\ runner'[p].listed = runner[p].listed
<1> DEFINE r == [runner[p] EXCEPT !.pc = pc]
<1>1. /\ r \in Command /\ r.pc = pc /\ r.todo = runner[p].todo /\ r.base = runner[p].base
      /\ r.listed = runner[p].listed
  BY DEF Command
<1>2. runner' = [runner EXCEPT ![p] = r]
  OBVIOUS
<1>. HIDE DEF r
<1>3. /\ runner' \in [Runners -> {IdleRunner} \cup Command]
      /\ \A q \in Runners : q # p => runner'[q] = runner[q]
      /\ runner'[p] = r
  BY <1>1, <1>2 DEF MigrationsTypeOK
<1>. QED
  BY <1>1, <1>3

\* A command goes on with the next file, or ends.
LEMMA OnwardLemma ==
    ASSUME MigrationsTypeOK, NEW p \in Runners, runner[p] \in Command,
           runner[p].todo # <<>>, NEW pc \in {"up", "down"}, runner' = Onward(p, pc)
    PROVE  /\ runner' \in [Runners -> {IdleRunner} \cup Command]
           /\ \A q \in Runners : q # p => runner'[q] = runner[q]
           /\ \/ runner'[p].pc = "idle" /\ ~ Running(p)' /\ InStep(p)'
              \/ /\ runner'[p].pc = pc
                 /\ runner'[p].todo = Tail(runner[p].todo) /\ runner'[p].todo # <<>>
                 /\ runner'[p].base = runner[p].base
                 /\ runner'[p].listed = runner[p].listed
<1>1. CASE Len(runner[p].todo) = 1
  BY <1>1, EndedLemma DEF Onward
<1>2. CASE Len(runner[p].todo) # 1
  <2> DEFINE todo == runner[p].todo
             r == [runner[p] EXCEPT !.pc = pc, !.todo = Tail(todo)]
  <2>1. todo \in Seq(Names)
    BY DEF Command
  <2>2. Tail(todo) \in Seq(Names) /\ Tail(todo) # <<>>
    <3>1. todo # <<>> /\ Len(todo) # 1
      BY <1>2
    <3>. HIDE DEF todo
    <3>2. Tail(todo) \in Seq(Names) /\ Len(todo) \in Nat /\ Len(todo) > 0
          /\ Len(Tail(todo)) = Len(todo) - 1
      BY <2>1, <3>1, TailFacts
    <3>3. Len(Tail(todo)) # 0
      BY <3>1, <3>2
    <3>. QED
      BY <3>2, <3>3, EmptySeq
  <2>3. r \in Command /\ r.pc = pc /\ r.todo = Tail(todo) /\ r.base = runner[p].base
        /\ r.listed = runner[p].listed
    BY <2>2 DEF Command
  <2>4. runner' = [runner EXCEPT ![p] = r]
    BY <1>2 DEF Onward
  <2>. HIDE DEF r
  <2>5. /\ runner' \in [Runners -> {IdleRunner} \cup Command]
        /\ \A q \in Runners : q # p => runner'[q] = runner[q]
        /\ runner'[p] = r
    BY <2>3, <2>4 DEF MigrationsTypeOK
  <2>. QED
    BY <2>2, <2>3, <2>5
<1>. QED
  BY <1>1, <1>2

\* Nothing but the commands changes: what the table, the files and what is in
\* effect have to be, they are.
LEMMA TablesStay ==
    ASSUME MigrationsAssumption, MigrationsInv, UNCHANGED <<rows, applied, adrift>>
    PROVE  /\ DOMAIN rows' \subseteq Names /\ rows' \in [DOMAIN rows' -> Nat \ {0}]
           /\ \A f \in DOMAIN rows' : rows'[f] <= runs
           /\ applied' \subseteq Names \ WithoutUp /\ adrift' \subseteq Names
  BY DEF MigrationsInv, MigrationsTypeOK, BatchesBounded

\* A command begins.
LEMMA LaunchedStep ==
    ASSUME MigrationsAssumption, MigrationsInv, NEW p \in Runners,
           NEW pc \in {"migrate", "select", "down"}, NEW steps \in Nat, NEW todo \in Seq(Names),
           Launched(p, pc, steps, todo),
           pc = "down" =>
              /\ todo # <<>> /\ IsInjective(todo) /\ Range(todo) \subseteq DOMAIN rows
              /\ \A f \in DOMAIN rows, i \in DOMAIN todo : rows[f] > rows[todo[i]] =>
                    \E k \in 1 .. i - 1 : f = todo[k]
    PROVE  MigrationsInv'
<1>. MigrationsTypeOK /\ BatchesBounded /\ HasNext
  BY DEF MigrationsInv
<1> DEFINE r == [pc |-> pc, base |-> MaxBatch, steps |-> steps, todo |-> todo, listed |-> present]
<1>1. /\ Doing(p) = "idle" /\ runs < MaxRuns /\ runs' = runs + 1
      /\ overlaid' = (overlaid \/ \E q \in Runners : Doing(q) # "idle")
      /\ runner' = [runner EXCEPT ![p] = r]
      /\ UNCHANGED <<rows, applied, present, edits, failures, adrift>>
  BY DEF Launched
<1>2. MaxBatch \in Nat /\ MaxBatch < runs' /\ runs \in Nat /\ runs' \in 0 .. MaxRuns
  BY <1>1, MaxBatchLemma, MigrationFacts
<1>3. /\ r \in Command /\ r.pc = pc /\ r.base = MaxBatch /\ r.todo = todo /\ r.listed = present
  BY <1>2 DEF Command, MigrationsTypeOK
<1>. HIDE DEF r
<1>4. /\ runner' \in [Runners -> {IdleRunner} \cup Command]
      /\ \A q \in Runners : q # p => runner'[q] = runner[q]
      /\ runner'[p] = r
  BY <1>1, <1>3 DEF MigrationsTypeOK
<1>5. MigrationsTypeOK'
  <2>1. overlaid' \in BOOLEAN
    BY <1>1
  <2>2. /\ DOMAIN rows' \subseteq Names /\ rows' \in [DOMAIN rows' -> Nat \ {0}]
        /\ applied' \subseteq Names \ WithoutUp /\ present' \subseteq Names
        /\ edits' \in 0 .. MaxEdits /\ failures' \in 0 .. MaxFailures /\ adrift' \subseteq Names
    BY <1>1 DEF MigrationsTypeOK
  <2>. QED
    BY <1>2, <1>4, <2>1, <2>2 DEF MigrationsTypeOK
<1>6. BatchesBounded'
  <2>1. \A f \in DOMAIN rows' : rows'[f] <= runs'
    BY <1>1, <1>2, MigrationFacts DEF BatchesBounded
  <2>2. ASSUME NEW q \in Runners, Running(q)'
        PROVE  runner'[q].base < runs'
    <3>1. CASE q = p
      BY <1>2, <1>3, <1>4, <3>1
    <3>2. CASE q # p
      <4>1. Running(q) /\ runner'[q] = runner[q]
        BY <1>4, <2>2, <3>2 DEF Running, Doing
      <4>2. runner[q].base \in Nat /\ runner[q].base < runs
        BY <4>1, MigrationFacts DEF BatchesBounded, Command
      <4>. QED
        BY <1>1, <1>2, <4>1, <4>2
    <3>. QED
      BY <3>1, <3>2
  <2>. QED
    BY <2>1, <2>2 DEF BatchesBounded
<1>7. HasNext'
  <2>. SUFFICES ASSUME NEW q \in Runners, runner'[q].pc \in {"up", "insert", "down", "delete"}
                PROVE  runner'[q].todo # <<>>
    BY DEF HasNext, Doing
  <2>1. CASE q = p
    BY <1>3, <1>4, <2>1
  <2>2. CASE q # p
    BY <1>4, <2>2 DEF HasNext, Doing
  <2>. QED
    BY <2>1, <2>2
<1>8. ASSUME ~ overlaid'
      PROVE  Alone' /\ SchemaMatchesTable' /\ \A q \in Runners : InStep(q)'
  <2>1. ~ overlaid /\ \A q \in Runners : Doing(q) = "idle"
    BY <1>1, <1>8
  <2>2. \A q \in Runners : q # p => Doing(q)' = "idle"
    BY <1>4, <2>1 DEF Doing
  <2>3. Alone'
    BY <2>2 DEF Alone, Running
  <2>4. \A f \in Names \ adrift : f \in applied <=> f \in DOMAIN rows
    BY <2>1 DEF MigrationsInv, SchemaMatchesTable, InHand
  <2>5. SchemaMatchesTable'
    BY <1>1, <2>4 DEF SchemaMatchesTable
  <2>6. Doing(p)' = pc
    BY <1>3, <1>4 DEF Doing
  <2>7. pc = "down" => RollbackRest(p)'
    BY <1>1, <1>3, <1>4 DEF RollbackRest
  <2>8. InStep(p)'
    BY <2>6, <2>7 DEF InStep
  <2>9. \A q \in Runners : InStep(q)'
    BY <2>2, <2>8 DEF InStep
  <2>. QED
    BY <2>3, <2>5, <2>9
<1>. QED
  BY <1>5, <1>6, <1>7, <1>8 DEF MigrationsInv

\* migrate, migrate:rollback and migrate:rollback --all.
LEMMA CommandsBegin ==
    ASSUME MigrationsAssumption, MigrationsInv, NEW p \in Runners,
           \/ migrate(p)
           \/ rollbackAll(p)
           \/ \E steps \in Steps : rollback(p, steps)
    PROVE  MigrationsInv'
<1>. MigrationsTypeOK
  BY DEF MigrationsInv
<1>0. <<>> \in Seq(Names)
  OBVIOUS
<1>1. CASE migrate(p)
  <2>1. Launched(p, "migrate", 1, <<>>)
    BY <1>1 DEF migrate
  <2>. QED
    BY <1>0, <2>1, LaunchedStep
<1>2. ASSUME NEW steps \in Steps, rollback(p, steps)
      PROVE  MigrationsInv'
  <2>1. Launched(p, "select", steps, <<>>) /\ steps \in Nat
    BY <1>2 DEF rollback, MigrationsAssumption
  <2>. QED
    BY <1>0, <2>1, LaunchedStep
<1>3. CASE rollbackAll(p)
  <2>1. rows # <<>> /\ \E todo \in Selections(0) : Launched(p, "down", 0, todo)
    BY <1>3 DEF rollbackAll
  <2>2. PICK todo \in Selections(0) : Launched(p, "down", 0, todo)
    BY <2>1
  <2>3. /\ todo \in Seq(Names) /\ IsInjective(todo) /\ Range(todo) \subseteq DOMAIN rows
        /\ \A f \in DOMAIN rows : rows[f] > 0 => todo # <<>>
        /\ \A f \in DOMAIN rows, i \in DOMAIN todo : rows[f] > rows[todo[i]] =>
              \E k \in 1 .. i - 1 : f = todo[k]
    BY SelectionsLemma
  <2>4. DOMAIN rows # {}
    BY <2>1, RowsFacts
  <2>5. todo # <<>>
    BY <2>3, <2>4, MigrationFacts
  <2>. QED
    BY <2>2, <2>3, <2>5, LaunchedStep
<1>. QED
  BY <1>1, <1>2, <1>3

\* The pending files are listed.
LEMMA ListPendingStep ==
    ASSUME MigrationsAssumption, MigrationsInv, NEW p \in Runners, listPending(p)
    PROVE  MigrationsInv'
<1>. MigrationsTypeOK
  BY DEF MigrationsInv
<1>1. PICK todo \in Pending :
         runner' = IF todo = <<>> THEN Ended(p)
                   ELSE [runner EXCEPT ![p].pc = "up", ![p].todo = todo, ![p].listed = present]
  BY DEF listPending
<1>2. /\ Running(p) /\ UNCHANGED <<rows, applied, adrift, present, edits, failures, runs, overlaid>>
      /\ Doing(p) = "migrate"
  BY DEF listPending, others, Running
<1>3. /\ todo \in Seq(Names)
      /\ \A i, j \in DOMAIN todo : i < j => Before(todo[i], todo[j])
      /\ present \subseteq DOMAIN rows \cup Range(todo)
  BY PendingLemma
<1>4. /\ runner' \in [Runners -> {IdleRunner} \cup Command]
      /\ \A q \in Runners : q # p => runner'[q] = runner[q]
      /\ \/ runner'[p].pc = "idle" /\ ~ Running(p)' /\ InStep(p)'
         \/ /\ runner'[p].pc = "up" /\ runner'[p].todo = todo /\ todo # <<>>
            /\ runner'[p].base = runner[p].base /\ runner'[p].listed = present
  <2>1. CASE todo = <<>>
    BY <1>1, <2>1, EndedLemma
  <2>2. CASE todo # <<>>
    <3> DEFINE r == [runner[p] EXCEPT !.pc = "up", !.todo = todo, !.listed = present]
    <3>1. /\ r \in Command /\ r.pc = "up" /\ r.todo = todo /\ r.base = runner[p].base
          /\ r.listed = present
      BY <1>2, <1>3, MigrationFacts DEF Command, MigrationsTypeOK
    <3>2. runner' = [runner EXCEPT ![p] = r]
      BY <1>1, <2>2
    <3>. HIDE DEF r
    <3>3. /\ runner' \in [Runners -> {IdleRunner} \cup Command]
          /\ \A q \in Runners : q # p => runner'[q] = runner[q]
          /\ runner'[p] = r
      BY <3>1, <3>2 DEF MigrationsTypeOK
    <3>. QED
      BY <2>2, <3>1, <3>3
  <2>. QED
    BY <2>1, <2>2
<1>5. InStep(p)'
  <2>. SUFFICES ASSUME runner'[p].pc = "up", runner'[p].todo = todo, runner'[p].listed = present
                PROVE  InStep(p)'
    BY <1>4
  <2>1. MigrateRest(p)'
    BY <1>2, <1>3 DEF MigrateRest
  <2>. QED
    BY <2>1 DEF InStep, Doing
<1>6. ASSUME ~ overlaid, NEW f \in Names, f \notin adrift'
      PROVE  f \in applied' <=> f \in DOMAIN rows'
  BY <1>2, <1>6, RunnerFacts
<1>7. /\ Running(p)' => runner'[p].base < runs
      /\ runner'[p].pc \in {"up", "insert", "down", "delete"} => runner'[p].todo # <<>>
  BY <1>2, <1>4, RunnerFacts
<1>8. failures' \in 0 .. MaxFailures
  BY <1>2 DEF MigrationsTypeOK
<1>. QED
  BY <1>2, <1>4, <1>5, <1>6, <1>7, <1>8, TablesStay, OneRunnerSteps

\* The rows are selected.
LEMMA SelectRowsStep ==
    ASSUME MigrationsAssumption, MigrationsInv, NEW p \in Runners, selectRows(p)
    PROVE  MigrationsInv'
<1>. MigrationsTypeOK
  BY DEF MigrationsInv
<1> DEFINE r == runner[p]
           lowest == IF r.base > r.steps THEN r.base - r.steps ELSE 0
<1>1. PICK todo \in Selections(lowest) :
         runner' = IF todo = <<>> THEN Ended(p)
                   ELSE [runner EXCEPT ![p].pc = "down", ![p].todo = todo, ![p].listed = present]
  BY DEF selectRows
<1>2. /\ Running(p) /\ UNCHANGED <<rows, applied, adrift, present, edits, failures, runs, overlaid>>
      /\ Doing(p) = "select"
  BY DEF selectRows, others, Running
<1>3. lowest \in Nat
  BY <1>2, MigrationFacts DEF Command
<1>. HIDE DEF lowest
<1>4. /\ todo \in Seq(Names) /\ IsInjective(todo) /\ Range(todo) \subseteq DOMAIN rows
      /\ \A f \in DOMAIN rows, i \in DOMAIN todo : rows[f] > rows[todo[i]] =>
            \E k \in 1 .. i - 1 : f = todo[k]
  BY <1>3, SelectionsLemma
<1>5. /\ runner' \in [Runners -> {IdleRunner} \cup Command]
      /\ \A q \in Runners : q # p => runner'[q] = runner[q]
      /\ \/ runner'[p].pc = "idle" /\ ~ Running(p)' /\ InStep(p)'
         \/ /\ runner'[p].pc = "down" /\ runner'[p].todo = todo /\ todo # <<>>
            /\ runner'[p].base = runner[p].base
  <2>1. CASE todo = <<>>
    BY <1>1, <2>1, EndedLemma
  <2>2. CASE todo # <<>>
    <3> DEFINE new == [runner[p] EXCEPT !.pc = "down", !.todo = todo, !.listed = present]
    <3>1. /\ new \in Command /\ new.pc = "down" /\ new.todo = todo /\ new.base = runner[p].base
      BY <1>2, <1>4, MigrationFacts DEF Command, MigrationsTypeOK
    <3>2. runner' = [runner EXCEPT ![p] = new]
      BY <1>1, <2>2
    <3>. HIDE DEF new
    <3>3. /\ runner' \in [Runners -> {IdleRunner} \cup Command]
          /\ \A q \in Runners : q # p => runner'[q] = runner[q]
          /\ runner'[p] = new
      BY <3>1, <3>2 DEF MigrationsTypeOK
    <3>. QED
      BY <2>2, <3>1, <3>3
  <2>. QED
    BY <2>1, <2>2
<1>6. InStep(p)'
  <2>. SUFFICES ASSUME runner'[p].pc = "down", runner'[p].todo = todo
                PROVE  InStep(p)'
    BY <1>5
  <2>1. RollbackRest(p)'
    BY <1>2, <1>4 DEF RollbackRest
  <2>. QED
    BY <2>1 DEF InStep, Doing
<1>7. ASSUME ~ overlaid, NEW f \in Names, f \notin adrift'
      PROVE  f \in applied' <=> f \in DOMAIN rows'
  BY <1>2, <1>7, RunnerFacts
<1>8. /\ Running(p)' => runner'[p].base < runs
      /\ runner'[p].pc \in {"up", "insert", "down", "delete"} => runner'[p].todo # <<>>
  BY <1>2, <1>5, RunnerFacts
<1>9. failures' \in 0 .. MaxFailures
  BY <1>2 DEF MigrationsTypeOK
<1>. QED
  BY <1>2, <1>5, <1>6, <1>7, <1>8, <1>9, TablesStay, OneRunnerSteps

\* The files after the first stay as they were for a migrate that goes on.
LEMMA MigrateOnward ==
    ASSUME MigrationsAssumption, NEW p \in Runners, runner[p] \in Command,
           runner[p].todo # <<>>, MigrateRest(p),
           runner'[p].todo = Tail(runner[p].todo), runner'[p].listed = runner[p].listed,
           DOMAIN rows \subseteq DOMAIN rows',
           Next1(p) \in WithoutUp \cup DOMAIN rows'
    PROVE  MigrateRest(p)'
<1> DEFINE todo == runner[p].todo
<1>1. todo \in Seq(Names) /\ todo # <<>>
  BY DEF Command
<1>2. /\ \A i, j \in DOMAIN todo : i < j => Before(todo[i], todo[j])
      /\ runner[p].listed \ WithoutUp \subseteq DOMAIN rows \cup Range(todo)
      /\ runner'[p].todo = Tail(todo) /\ Next1(p) = Head(todo)
  BY DEF MigrateRest, Next1
<1>. HIDE DEF todo
<1>3. /\ Len(todo) \in Nat /\ DOMAIN todo = 1 .. Len(todo) /\ DOMAIN Tail(todo) = 1 .. Len(todo) - 1
      /\ \A i \in 1 .. Len(todo) - 1 : Tail(todo)[i] = todo[i + 1]
      /\ Range(todo) = Range(Tail(todo)) \cup {Head(todo)}
  BY <1>1, TailFacts
<1>4. ASSUME NEW i \in DOMAIN Tail(todo), NEW j \in DOMAIN Tail(todo), i < j
      PROVE  Before(Tail(todo)[i], Tail(todo)[j])
  <2>1. i + 1 \in DOMAIN todo /\ j + 1 \in DOMAIN todo /\ i + 1 < j + 1
    BY <1>3, <1>4
  <2>. QED
    BY <1>2, <1>3, <2>1
<1>5. runner'[p].listed \ WithoutUp \subseteq DOMAIN rows' \cup Range(Tail(todo))
  BY <1>2, <1>3
<1>6. \A i, j \in DOMAIN runner'[p].todo : i < j => Before(runner'[p].todo[i], runner'[p].todo[j])
  BY <1>2, <1>4
<1>. QED
  BY <1>2, <1>5, <1>6 DEF MigrateRest

\* up() takes effect, or the file is passed over, or the run ends.
LEMMA UpStep ==
    ASSUME MigrationsAssumption, MigrationsInv, NEW p \in Runners, up(p)
    PROVE  MigrationsInv'
<1>. MigrationsTypeOK
  BY DEF MigrationsInv
<1>1. /\ Running(p) /\ Doing(p) = "up"
      /\ UNCHANGED <<rows, adrift, present, edits, failures, runs, overlaid>>
  BY DEF up, others, Running
<1>2. /\ runner[p] \in Command /\ runner[p].base < runs /\ runner[p].todo # <<>>
      /\ Next1(p) \in Names
  BY <1>1, RunnerFacts
<1>3. failures' \in 0 .. MaxFailures
  BY <1>1 DEF MigrationsTypeOK
<1>4. /\ DOMAIN rows' \subseteq Names /\ rows' \in [DOMAIN rows' -> Nat \ {0}]
      /\ \A f \in DOMAIN rows' : rows'[f] <= runs
      /\ adrift' \subseteq Names /\ applied \subseteq Names \ WithoutUp
  BY <1>1 DEF MigrationsInv, MigrationsTypeOK, BatchesBounded
<1>5. ~ overlaid => /\ MigrateRest(p)
                    /\ \A f \in Names : f \notin adrift => (f \in applied <=> f \in DOMAIN rows)
  BY <1>1, RunnerFacts DEF InStep
<1>6. CASE Next1(p) \notin present
  <2>1. runner' = Ended(p) /\ UNCHANGED applied
    BY <1>6 DEF up
  <2>2. /\ runner' \in [Runners -> {IdleRunner} \cup Command]
        /\ \A q \in Runners : q # p => runner'[q] = runner[q]
        /\ runner'[p].pc = "idle" /\ ~ Running(p)' /\ InStep(p)'
    BY <2>1, EndedLemma
  <2>. QED
    BY <1>1, <1>3, <1>4, <1>5, <2>1, <2>2, OneRunnerSteps
<1>7. CASE Next1(p) \in present /\ Next1(p) \in WithoutUp
  <2>1. runner' = Onward(p, "up") /\ UNCHANGED applied
    BY <1>7 DEF up
  <2>2. /\ runner' \in [Runners -> {IdleRunner} \cup Command]
        /\ \A q \in Runners : q # p => runner'[q] = runner[q]
        /\ \/ runner'[p].pc = "idle" /\ ~ Running(p)' /\ InStep(p)'
           \/ /\ runner'[p].pc = "up"
              /\ runner'[p].todo = Tail(runner[p].todo) /\ runner'[p].todo # <<>>
              /\ runner'[p].base = runner[p].base
              /\ runner'[p].listed = runner[p].listed
    BY <1>2, <2>1, OnwardLemma
  <2>3. ~ overlaid => InStep(p)'
    <3>. SUFFICES ASSUME ~ overlaid, runner'[p].pc = "up",
                         runner'[p].todo = Tail(runner[p].todo),
                         runner'[p].listed = runner[p].listed
                  PROVE  InStep(p)'
      BY <2>2
    <3>1. MigrateRest(p)'
      BY <1>1, <1>2, <1>5, <1>7, MigrateOnward
    <3>. QED
      BY <3>1 DEF InStep, Doing
  <2>. QED
    BY <1>1, <1>2, <1>3, <1>4, <1>5, <2>1, <2>2, <2>3, OneRunnerSteps
<1>8. CASE Next1(p) \in present /\ Next1(p) \notin WithoutUp
  <2>1. runner' = [runner EXCEPT ![p].pc = "insert"] /\ applied' = applied \cup {Next1(p)}
    BY <1>8 DEF up
  <2>2. /\ runner' \in [Runners -> {IdleRunner} \cup Command]
        /\ \A q \in Runners : q # p => runner'[q] = runner[q]
        /\ runner'[p].pc = "insert"
        /\ runner'[p].todo = runner[p].todo /\ runner'[p].base = runner[p].base
        /\ runner'[p].listed = runner[p].listed
    BY <1>2, <2>1, GoesOn
  <2>3. Next1(p)' = Next1(p)
    BY <2>2 DEF Next1
  <2>4. ~ overlaid => InStep(p)'
    <3>1. MigrateRest(p) => MigrateRest(p)'
      BY <1>1, <2>2 DEF MigrateRest
    <3>. QED
      BY <1>5, <2>1, <2>2, <2>3, <3>1 DEF InStep, Doing
  <2>5. ~ overlaid => \A f \in Names : f \notin adrift' =>
           \/ Head(runner'[p].todo) = f
           \/ (f \in applied' <=> f \in DOMAIN rows')
    BY <1>1, <1>5, <2>1, <2>2 DEF Next1
  <2>6. applied' \subseteq Names \ WithoutUp
    BY <1>2, <1>4, <1>8, <2>1
  <2>. QED
    BY <1>1, <1>2, <1>3, <1>4, <2>2, <2>4, <2>5, <2>6, OneRunnerSteps
<1>. QED
  BY <1>6, <1>7, <1>8

\* The migration is recorded, or was already.
LEMMA InsertStep ==
    ASSUME MigrationsAssumption, MigrationsInv, NEW p \in Runners, insert(p)
    PROVE  MigrationsInv'
<1>. MigrationsTypeOK
  BY DEF MigrationsInv
<1>1. /\ Running(p) /\ Doing(p) = "insert"
      /\ UNCHANGED <<applied, present, edits, failures, runs, overlaid>>
  BY DEF insert, others, Running
<1>2. /\ runner[p] \in Command /\ runner[p].base \in Nat /\ runner[p].base < runs
      /\ runner[p].todo # <<>> /\ Next1(p) \in Names /\ runs \in Nat
  BY <1>1, RunnerFacts, MigrationFacts
<1>3. failures' \in 0 .. MaxFailures
  BY <1>1 DEF MigrationsTypeOK
<1>4. /\ DOMAIN rows \subseteq Names /\ rows \in [DOMAIN rows -> Nat \ {0}]
      /\ \A f \in DOMAIN rows : rows[f] <= runs
      /\ adrift \subseteq Names /\ applied' \subseteq Names \ WithoutUp
  BY <1>1 DEF MigrationsInv, MigrationsTypeOK, BatchesBounded
<1>5. ~ overlaid => /\ MigrateRest(p) /\ Next1(p) \in applied
                    /\ \A f \in Names : f \notin adrift =>
                          Next1(p) = f \/ (f \in applied <=> f \in DOMAIN rows)
  BY <1>1, RunnerFacts DEF InStep
<1>6. CASE Next1(p) \in DOMAIN rows
  <2>1. runner' = Ended(p) /\ UNCHANGED <<rows, adrift>>
    BY <1>6 DEF insert
  <2>2. /\ runner' \in [Runners -> {IdleRunner} \cup Command]
        /\ \A q \in Runners : q # p => runner'[q] = runner[q]
        /\ runner'[p].pc = "idle" /\ ~ Running(p)' /\ InStep(p)'
    BY <2>1, EndedLemma
  <2>3. ~ overlaid => \A f \in Names : f \notin adrift' => (f \in applied' <=> f \in DOMAIN rows')
    BY <1>1, <1>5, <1>6, <2>1
  <2>. QED
    BY <1>1, <1>3, <1>4, <2>1, <2>2, <2>3, OneRunnerSteps
<1>7. CASE Next1(p) \notin DOMAIN rows
  <2> DEFINE f == Next1(p)
             b == runner[p].base + 1
  <2>1. /\ runner' = Onward(p, "up") /\ rows' = WithRow(f, b) /\ adrift' = adrift \ {f}
    BY <1>7 DEF insert
  <2>2. b \in Nat \ {0} /\ b <= runs /\ f \in Names
    BY <1>2
  <2>. HIDE DEF f, b
  <2>3. /\ DOMAIN rows' = DOMAIN rows \cup {f} /\ rows'[f] = b
        /\ \A g \in DOMAIN rows : g # f => rows'[g] = rows[g]
        /\ rows' = [g \in DOMAIN rows \cup {f} |-> rows'[g]]
    BY <2>1, Recorded
  <2>4. /\ DOMAIN rows' \subseteq Names /\ rows' \in [DOMAIN rows' -> Nat \ {0}]
        /\ \A g \in DOMAIN rows' : rows'[g] <= runs
        /\ adrift' \subseteq Names
    BY <1>4, <2>1, <2>2, <2>3
  <2>5. /\ runner' \in [Runners -> {IdleRunner} \cup Command]
        /\ \A q \in Runners : q # p => runner'[q] = runner[q]
        /\ \/ runner'[p].pc = "idle" /\ ~ Running(p)' /\ InStep(p)'
           \/ /\ runner'[p].pc = "up"
              /\ runner'[p].todo = Tail(runner[p].todo) /\ runner'[p].todo # <<>>
              /\ runner'[p].base = runner[p].base
              /\ runner'[p].listed = runner[p].listed
    BY <1>2, <2>1, OnwardLemma
  <2>6. ~ overlaid => InStep(p)'
    <3>. SUFFICES ASSUME ~ overlaid, runner'[p].pc = "up",
                         runner'[p].todo = Tail(runner[p].todo),
                         runner'[p].listed = runner[p].listed
                  PROVE  InStep(p)'
      BY <2>5
    <3>1. MigrateRest(p)'
      BY <1>2, <1>5, <2>3, MigrateOnward DEF f
    <3>. QED
      BY <3>1 DEF InStep, Doing
  <2>7. ~ overlaid => \A g \in Names : g \notin adrift' => (g \in applied' <=> g \in DOMAIN rows')
    BY <1>1, <1>5, <2>1, <2>3 DEF f
  <2>. QED
    BY <1>1, <1>2, <1>3, <1>4, <2>4, <2>5, <2>6, <2>7, OneRunnerSteps
<1>. QED
  BY <1>6, <1>7

\* A rollback goes on: the row of the first file is gone, or the file has no
\* down().
LEMMA RollbackOnward ==
    ASSUME MigrationsAssumption, NEW p \in Runners, runner[p] \in Command,
           runner[p].todo # <<>>, RollbackRest(p),
           runner'[p].todo = Tail(runner[p].todo),
           DOMAIN rows' \subseteq DOMAIN rows, DOMAIN rows \ {Next1(p)} \subseteq DOMAIN rows',
           \A f \in DOMAIN rows' : rows'[f] = rows[f],
           Next1(p) \in DOMAIN rows' => Next1(p) \in WithoutDown
    PROVE  RollbackRest(p)'
<1> DEFINE todo == runner[p].todo
           rest == Tail(todo)
<1>1. todo \in Seq(Names) /\ todo # <<>>
  BY DEF Command
<1>2. /\ IsInjective(todo)
      /\ Range(todo) \subseteq DOMAIN rows
      /\ \A f \in DOMAIN rows, i \in DOMAIN todo : rows[f] > rows[todo[i]] =>
            f \in WithoutDown \/ \E k \in 1 .. i - 1 : f = todo[k]
      /\ runner'[p].todo = rest /\ Next1(p) = Head(todo)
  BY DEF RollbackRest, Next1
<1>3. /\ Len(todo) \in Nat /\ Len(todo) > 0 /\ DOMAIN todo = 1 .. Len(todo)
      /\ DOMAIN rest = 1 .. Len(todo) - 1 /\ Head(todo) = todo[1]
      /\ \A i \in 1 .. Len(todo) - 1 : rest[i] = todo[i + 1]
  <2>. HIDE DEF todo
  <2>. QED
    BY <1>1, TailFacts
<1>. HIDE DEF todo, rest
<1>4. \A i \in DOMAIN rest : i + 1 \in DOMAIN todo /\ rest[i] = todo[i + 1]
  BY <1>3
<1>5. IsInjective(rest)
  <2>. SUFFICES ASSUME NEW i \in DOMAIN rest, NEW j \in DOMAIN rest, rest[i] = rest[j]
                PROVE  i = j
    BY DEF IsInjective
  <2>1. i + 1 = j + 1
    BY <1>2, <1>4 DEF IsInjective
  <2>. QED
    BY <1>3, <2>1
<1>6. \A i \in DOMAIN rest : rest[i] # Head(todo)
  <2>. SUFFICES ASSUME NEW i \in DOMAIN rest, todo[i + 1] = todo[1]
                PROVE  FALSE
    BY <1>3, <1>4
  <2>1. i + 1 = 1
    BY <1>2, <1>3, <1>4 DEF IsInjective
  <2>. QED
    BY <1>3, <2>1
<1>7. \A i \in DOMAIN rest : rest[i] \in DOMAIN rows'
  BY <1>2, <1>4, <1>6 DEF Range
<1>8. ASSUME NEW f \in DOMAIN rows', NEW i \in DOMAIN rest, rows'[f] > rows'[rest[i]]
      PROVE  f \in WithoutDown \/ \E k \in 1 .. i - 1 : f = rest[k]
  <2>1. f \in DOMAIN rows /\ rows[f] > rows[todo[i + 1]] /\ i + 1 \in DOMAIN todo
    BY <1>4, <1>7, <1>8
  <2>2. CASE f \in WithoutDown
    BY <2>2
  <2>3. CASE \E k \in 1 .. (i + 1) - 1 : f = todo[k]
    <3>1. PICK k \in 1 .. (i + 1) - 1 : f = todo[k]
      BY <2>3
    <3>2. CASE k = 1
      BY <1>2, <1>3, <3>1, <3>2
    <3>3. CASE k # 1
      <4>1. k - 1 \in 1 .. i - 1 /\ k - 1 \in DOMAIN rest /\ (k - 1) + 1 = k
        BY <1>3, <3>3
      <4>2. rest[k - 1] = f
        BY <1>4, <3>1, <4>1
      <4>. QED
        BY <4>1, <4>2
    <3>. QED
      BY <3>2, <3>3
  <2>. QED
    BY <1>2, <2>1, <2>2, <2>3
<1>9. Range(rest) \subseteq DOMAIN rows'
  BY <1>7 DEF Range
<1>. QED
  BY <1>2, <1>5, <1>8, <1>9 DEF RollbackRest

\* A row is deleted and the rollback goes on.
LEMMA RowGone ==
    ASSUME MigrationsAssumption, MigrationsInv, NEW p \in Runners,
           Doing(p) \in {"down", "delete"},
           rows' = Restrict(rows, DOMAIN rows \ {Next1(p)}), runner' = Onward(p, "down")
    PROVE  /\ DOMAIN rows' = DOMAIN rows \ {Next1(p)}
           /\ DOMAIN rows' \subseteq Names /\ rows' \in [DOMAIN rows' -> Nat \ {0}]
           /\ \A f \in DOMAIN rows' : rows'[f] <= runs
           /\ runner' \in [Runners -> {IdleRunner} \cup Command]
           /\ \A q \in Runners : q # p => runner'[q] = runner[q]
           /\ runner'[p].pc \in {"idle", "down"}
           /\ Running(p)' => runner'[p].base < runs
           /\ runner'[p].pc = "down" => runner'[p].todo # <<>>
           /\ ~ overlaid => InStep(p)'
<1>. MigrationsTypeOK
  BY DEF MigrationsInv
<1>1. Running(p)
  BY DEF Running
<1>2. /\ runner[p] \in Command /\ runner[p].base < runs
      /\ runner[p].todo # <<>> /\ Next1(p) \in Names
  BY <1>1, RunnerFacts
<1>3. ~ overlaid => RollbackRest(p)
  BY <1>1, RunnerFacts DEF InStep
<1> DEFINE f == Next1(p)
<1>. HIDE DEF f
<1>4. rows' = Restrict(rows, DOMAIN rows \ {f})
  BY DEF f
<1>5. /\ DOMAIN rows' = DOMAIN rows \ {f}
      /\ \A g \in DOMAIN rows \ {f} : rows'[g] = rows[g]
      /\ rows' = [g \in DOMAIN rows \ {f} |-> rows'[g]]
  BY <1>4, Unrecorded
<1>6. /\ DOMAIN rows \subseteq Names /\ \A g \in DOMAIN rows : rows[g] \in Nat \ {0}
      /\ \A g \in DOMAIN rows : rows[g] <= runs
  BY DEF MigrationsInv, MigrationsTypeOK, BatchesBounded
<1>7. /\ DOMAIN rows' \subseteq Names /\ rows' \in [DOMAIN rows' -> Nat \ {0}]
      /\ \A g \in DOMAIN rows' : rows'[g] <= runs
  BY <1>5, <1>6
<1>8. /\ runner' \in [Runners -> {IdleRunner} \cup Command]
      /\ \A q \in Runners : q # p => runner'[q] = runner[q]
      /\ \/ runner'[p].pc = "idle" /\ ~ Running(p)' /\ InStep(p)'
         \/ /\ runner'[p].pc = "down"
            /\ runner'[p].todo = Tail(runner[p].todo) /\ runner'[p].todo # <<>>
            /\ runner'[p].base = runner[p].base
            /\ runner'[p].listed = runner[p].listed
  BY <1>2, OnwardLemma
<1>9. ~ overlaid => InStep(p)'
  <2>. SUFFICES ASSUME ~ overlaid, runner'[p].pc = "down",
                       runner'[p].todo = Tail(runner[p].todo)
                PROVE  InStep(p)'
    BY <1>8
  <2>1. /\ DOMAIN rows' \subseteq DOMAIN rows /\ DOMAIN rows \ {Next1(p)} \subseteq DOMAIN rows'
        /\ \A g \in DOMAIN rows' : rows'[g] = rows[g]
        /\ Next1(p) \notin DOMAIN rows'
    BY <1>5 DEF f
  <2>2. RollbackRest(p)'
    BY <1>2, <1>3, <2>1, RollbackOnward
  <2>. QED
    BY <2>2 DEF InStep, Doing
<1>10. DOMAIN rows' = DOMAIN rows \ {Next1(p)}
  BY <1>5 DEF f
<1>. QED
  BY <1>2, <1>7, <1>8, <1>9, <1>10

\* The row of a file that is missing goes without its down().
LEMMA ForgetMissingStep ==
    ASSUME MigrationsAssumption, MigrationsInv, NEW p \in Runners, forgetMissing(p)
    PROVE  MigrationsInv'
<1>. MigrationsTypeOK
  BY DEF MigrationsInv
<1>1. /\ Running(p) /\ Doing(p) = "down"
      /\ UNCHANGED <<applied, present, edits, failures, runs, overlaid>>
      /\ rows' = Restrict(rows, DOMAIN rows \ {Next1(p)}) /\ runner' = Onward(p, "down")
      /\ adrift' = adrift \cup {Next1(p)}
  BY DEF forgetMissing, others, Running
<1>2. Next1(p) \in Names
  BY <1>1, RunnerFacts
<1>3. failures' \in 0 .. MaxFailures
  BY <1>1 DEF MigrationsTypeOK
<1>4. adrift' \subseteq Names /\ applied' \subseteq Names \ WithoutUp
  BY <1>1, <1>2 DEF MigrationsTypeOK
<1>5. ~ overlaid => \A f \in Names : f \notin adrift => (f \in applied <=> f \in DOMAIN rows)
  BY <1>1, RunnerFacts
<1>6. /\ DOMAIN rows' = DOMAIN rows \ {Next1(p)}
      /\ DOMAIN rows' \subseteq Names /\ rows' \in [DOMAIN rows' -> Nat \ {0}]
      /\ \A f \in DOMAIN rows' : rows'[f] <= runs
      /\ runner' \in [Runners -> {IdleRunner} \cup Command]
      /\ \A q \in Runners : q # p => runner'[q] = runner[q]
      /\ runner'[p].pc \in {"idle", "down"}
      /\ Running(p)' => runner'[p].base < runs
      /\ runner'[p].pc = "down" => runner'[p].todo # <<>>
      /\ ~ overlaid => InStep(p)'
  BY <1>1, RowGone
<1>7. ~ overlaid => \A f \in Names : f \notin adrift' => (f \in applied' <=> f \in DOMAIN rows')
  BY <1>1, <1>5, <1>6
<1>. QED
  BY <1>1, <1>3, <1>4, <1>6, <1>7, OneRunnerSteps

\* The row of a migration that was rolled back goes.
LEMMA DeleteStep ==
    ASSUME MigrationsAssumption, MigrationsInv, NEW p \in Runners, delete(p)
    PROVE  MigrationsInv'
<1>. MigrationsTypeOK
  BY DEF MigrationsInv
<1>1. /\ Running(p) /\ Doing(p) = "delete"
      /\ UNCHANGED <<applied, present, edits, failures, runs, overlaid>>
      /\ rows' = Restrict(rows, DOMAIN rows \ {Next1(p)}) /\ runner' = Onward(p, "down")
      /\ adrift' = adrift \ {Next1(p)}
  BY DEF delete, others, Running
<1>2. failures' \in 0 .. MaxFailures
  BY <1>1 DEF MigrationsTypeOK
<1>3. adrift' \subseteq Names /\ applied' \subseteq Names \ WithoutUp
  BY <1>1 DEF MigrationsTypeOK
<1>4. ~ overlaid => /\ Next1(p) \notin applied
                    /\ \A f \in Names : f \notin adrift =>
                          Next1(p) = f \/ (f \in applied <=> f \in DOMAIN rows)
  BY <1>1, RunnerFacts DEF InStep
<1>5. /\ DOMAIN rows' = DOMAIN rows \ {Next1(p)}
      /\ DOMAIN rows' \subseteq Names /\ rows' \in [DOMAIN rows' -> Nat \ {0}]
      /\ \A f \in DOMAIN rows' : rows'[f] <= runs
      /\ runner' \in [Runners -> {IdleRunner} \cup Command]
      /\ \A q \in Runners : q # p => runner'[q] = runner[q]
      /\ runner'[p].pc \in {"idle", "down"}
      /\ Running(p)' => runner'[p].base < runs
      /\ runner'[p].pc = "down" => runner'[p].todo # <<>>
      /\ ~ overlaid => InStep(p)'
  BY <1>1, RowGone
<1>6. ~ overlaid => \A f \in Names : f \notin adrift' => (f \in applied' <=> f \in DOMAIN rows')
  <2>1. ASSUME ~ overlaid, NEW f \in Names, f \notin adrift'
        PROVE  f \in applied' <=> f \in DOMAIN rows'
    <3>1. CASE f = Next1(p)
      BY <1>1, <1>4, <1>5, <2>1, <3>1
    <3>2. CASE f # Next1(p)
      BY <1>1, <1>4, <1>5, <2>1, <3>2
    <3>. QED
      BY <3>1, <3>2
  <2>. QED
    BY <2>1
<1>. QED
  BY <1>1, <1>2, <1>3, <1>5, <1>6, OneRunnerSteps

\* down() takes effect, or the file is passed over, or the run ends.
LEMMA DownStep ==
    ASSUME MigrationsAssumption, MigrationsInv, NEW p \in Runners, down(p)
    PROVE  MigrationsInv'
<1>. MigrationsTypeOK
  BY DEF MigrationsInv
<1>1. /\ Running(p) /\ Doing(p) = "down"
      /\ UNCHANGED <<rows, adrift, present, edits, failures, runs, overlaid>>
  BY DEF down, others, Running
<1>2. /\ runner[p] \in Command /\ runner[p].base < runs /\ runner[p].todo # <<>>
      /\ Next1(p) \in Names
  BY <1>1, RunnerFacts
<1>3. failures' \in 0 .. MaxFailures
  BY <1>1 DEF MigrationsTypeOK
<1>4. /\ DOMAIN rows' \subseteq Names /\ rows' \in [DOMAIN rows' -> Nat \ {0}]
      /\ \A f \in DOMAIN rows' : rows'[f] <= runs
      /\ adrift' \subseteq Names /\ applied \subseteq Names \ WithoutUp
  BY <1>1 DEF MigrationsInv, MigrationsTypeOK, BatchesBounded
<1>5. ~ overlaid => /\ RollbackRest(p)
                    /\ \A f \in Names : f \notin adrift => (f \in applied <=> f \in DOMAIN rows)
  BY <1>1, RunnerFacts DEF InStep
<1>6. CASE Next1(p) \notin present
  <2>1. runner' = Ended(p) /\ UNCHANGED applied
    BY <1>6 DEF down
  <2>2. /\ runner' \in [Runners -> {IdleRunner} \cup Command]
        /\ \A q \in Runners : q # p => runner'[q] = runner[q]
        /\ runner'[p].pc = "idle" /\ ~ Running(p)' /\ InStep(p)'
    BY <2>1, EndedLemma
  <2>. QED
    BY <1>1, <1>3, <1>4, <1>5, <2>1, <2>2, OneRunnerSteps
<1>7. CASE Next1(p) \in present /\ Next1(p) \in WithoutDown
  <2>1. runner' = Onward(p, "down") /\ UNCHANGED applied
    BY <1>7 DEF down
  <2>2. /\ runner' \in [Runners -> {IdleRunner} \cup Command]
        /\ \A q \in Runners : q # p => runner'[q] = runner[q]
        /\ \/ runner'[p].pc = "idle" /\ ~ Running(p)' /\ InStep(p)'
           \/ /\ runner'[p].pc = "down"
              /\ runner'[p].todo = Tail(runner[p].todo) /\ runner'[p].todo # <<>>
              /\ runner'[p].base = runner[p].base
              /\ runner'[p].listed = runner[p].listed
    BY <1>2, <2>1, OnwardLemma
  <2>3. ~ overlaid => InStep(p)'
    <3>. SUFFICES ASSUME ~ overlaid, runner'[p].pc = "down",
                         runner'[p].todo = Tail(runner[p].todo)
                  PROVE  InStep(p)'
      BY <2>2
    <3>1. RollbackRest(p)'
      BY <1>1, <1>2, <1>5, <1>7, RollbackOnward
    <3>. QED
      BY <3>1 DEF InStep, Doing
  <2>. QED
    BY <1>1, <1>2, <1>3, <1>4, <1>5, <2>1, <2>2, <2>3, OneRunnerSteps
<1>8. CASE Next1(p) \in present /\ Next1(p) \notin WithoutDown
  <2>1. runner' = [runner EXCEPT ![p].pc = "delete"] /\ applied' = applied \ {Next1(p)}
    BY <1>8 DEF down
  <2>2. /\ runner' \in [Runners -> {IdleRunner} \cup Command]
        /\ \A q \in Runners : q # p => runner'[q] = runner[q]
        /\ runner'[p].pc = "delete"
        /\ runner'[p].todo = runner[p].todo /\ runner'[p].base = runner[p].base
        /\ runner'[p].listed = runner[p].listed
    BY <1>2, <2>1, GoesOn
  <2>3. Next1(p)' = Next1(p)
    BY <2>2 DEF Next1
  <2>4. ~ overlaid => InStep(p)'
    <3>1. RollbackRest(p) => RollbackRest(p)'
      BY <1>1, <2>2 DEF RollbackRest
    <3>. QED
      BY <1>5, <2>1, <2>2, <2>3, <3>1 DEF InStep, Doing
  <2>5. ~ overlaid => \A f \in Names : f \notin adrift' =>
           \/ Head(runner'[p].todo) = f
           \/ (f \in applied' <=> f \in DOMAIN rows')
    BY <1>1, <1>5, <2>1, <2>2 DEF Next1
  <2>6. applied' \subseteq Names \ WithoutUp
    BY <1>4, <2>1
  <2>. QED
    BY <1>1, <1>2, <1>3, <1>4, <2>2, <2>4, <2>5, <2>6, OneRunnerSteps
<1>. QED
  BY <1>6, <1>7, <1>8

\* A statement fails, or the process is killed: the migration it was at is adrift.
LEMMA FailsStep ==
    ASSUME MigrationsAssumption, MigrationsInv, NEW p \in Runners, fails(p)
    PROVE  MigrationsInv'
<1>. MigrationsTypeOK
  BY DEF MigrationsInv
<1>1. /\ Running(p) /\ UNCHANGED <<rows, applied, present, edits, runs, overlaid>>
      /\ failures < MaxFailures /\ failures' = failures + 1 /\ runner' = Ended(p)
      /\ adrift' = IF Doing(p) \in {"insert", "delete"} THEN adrift \cup {Next1(p)} ELSE adrift
  BY DEF fails, Running
<1>2. Doing(p) \in {"insert", "delete"} => Next1(p) \in Names
  BY <1>1, RunnerFacts
<1>3. failures' \in 0 .. MaxFailures
  <2>1. failures \in 0 .. MaxFailures /\ MaxFailures \in Nat
    BY DEF MigrationsTypeOK, MigrationsAssumption
  <2>. QED
    BY <1>1, <2>1
<1>4. /\ DOMAIN rows' \subseteq Names /\ rows' \in [DOMAIN rows' -> Nat \ {0}]
      /\ \A f \in DOMAIN rows' : rows'[f] <= runs
      /\ applied' \subseteq Names \ WithoutUp
  BY <1>1 DEF MigrationsInv, MigrationsTypeOK, BatchesBounded
<1>5. adrift' \subseteq Names
  BY <1>1, <1>2 DEF MigrationsTypeOK
<1>6. ~ overlaid => \A f \in Names : f \notin adrift =>
           \/ Doing(p) \in {"insert", "delete"} /\ Next1(p) = f
           \/ (f \in applied <=> f \in DOMAIN rows)
  BY <1>1, RunnerFacts
<1>7. ~ overlaid => \A f \in Names : f \notin adrift' => (f \in applied' <=> f \in DOMAIN rows')
  BY <1>1, <1>6
<1>8. /\ runner' \in [Runners -> {IdleRunner} \cup Command]
      /\ \A q \in Runners : q # p => runner'[q] = runner[q]
      /\ runner'[p].pc = "idle" /\ ~ Running(p)' /\ InStep(p)'
  BY <1>1, EndedLemma
<1>. QED
  BY <1>1, <1>3, <1>4, <1>5, <1>7, <1>8, OneRunnerSteps

\* A file comes or goes: the invariant says nothing of the files that are there.
LEMMA EditStep ==
    ASSUME MigrationsAssumption, MigrationsInv, NEW f \in Names, edit(f)
    PROVE  MigrationsInv'
<1>1. /\ UNCHANGED <<rows, applied, runner, failures, runs, adrift, overlaid>>
      /\ edits < MaxEdits /\ edits' = edits + 1
      /\ present' = IF f \in present THEN present \ {f} ELSE present \cup {f}
  BY DEF edit
<1>2. MigrationsTypeOK /\ edits \in 0 .. MaxEdits /\ MaxEdits \in Nat
  BY DEF MigrationsInv, MigrationsTypeOK, MigrationsAssumption
<1>3. edits' \in 0 .. MaxEdits
  BY <1>1, <1>2
<1>4. MigrationsTypeOK'
  BY <1>1, <1>2, <1>3 DEF MigrationsTypeOK
<1>5. BatchesBounded' /\ HasNext'
  BY <1>1 DEF MigrationsInv, BatchesBounded, HasNext, Running, Doing
<1>6. ASSUME ~ overlaid'
      PROVE  Alone' /\ SchemaMatchesTable' /\ \A p \in Runners : InStep(p)'
  <2>1. ~ overlaid /\ Alone /\ SchemaMatchesTable /\ \A p \in Runners : InStep(p)
    BY <1>1, <1>6 DEF MigrationsInv
  <2>2. Alone'
    BY <1>1, <2>1 DEF Alone, Running, Doing
  <2>3. SchemaMatchesTable'
    BY <1>1, <2>1 DEF SchemaMatchesTable, InHand, Doing, Next1
  <2>4. \A p \in Runners : InStep(p)'
    BY <1>1, <2>1 DEF InStep, MigrateRest, RollbackRest, Doing, Next1
  <2>. QED
    BY <2>2, <2>3, <2>4
<1>. QED
  BY <1>4, <1>5, <1>6 DEF MigrationsInv

-----------------------------------------------------------------------------
(* Migrations: theorems.                                                   *)

\* An empty database, no command running.
LEMMA MigrationsInvInit == ASSUME MigrationsAssumption, MigrationsInit PROVE MigrationsInv
<1>1. rows = <<>> /\ DOMAIN rows = {}
  BY DEF MigrationsInit
<1>2. \A p \in Runners : runner[p] = IdleRunner /\ Doing(p) = "idle"
  BY DEF MigrationsInit, Doing, IdleRunner
<1>3. MigrationsTypeOK
  <2>1. rows \in [DOMAIN rows -> Nat \ {0}]
    BY <1>1
  <2>2. runner \in [Runners -> {IdleRunner} \cup Command]
    BY DEF MigrationsInit
  <2>3. /\ applied = {} /\ present = Names /\ adrift = {} /\ overlaid = FALSE
        /\ edits \in 0 .. MaxEdits /\ failures \in 0 .. MaxFailures /\ runs \in 0 .. MaxRuns
    BY DEF MigrationsInit, MigrationsAssumption
  <2>. QED
    BY <1>1, <2>1, <2>2, <2>3 DEF MigrationsTypeOK
<1>4. BatchesBounded /\ HasNext /\ Alone /\ \A p \in Runners : InStep(p)
  BY <1>1, <1>2 DEF BatchesBounded, HasNext, Alone, Running, InStep
<1>5. SchemaMatchesTable
  BY <1>1 DEF SchemaMatchesTable, MigrationsInit
<1>. QED
  BY <1>3, <1>4, <1>5 DEF MigrationsInv

\* Every step keeps the invariant.
LEMMA MigrationsInvStep ==
    ASSUME MigrationsAssumption, MigrationsInv, [MigrationsNext]_migrationVars
    PROVE  MigrationsInv'
<1>1. CASE UNCHANGED migrationVars
  <2>1. UNCHANGED <<rows, applied, present, runner, edits, failures, runs, adrift, overlaid>>
    BY <1>1 DEF migrationVars
  <2>2. MigrationsTypeOK'
    BY <2>1 DEF MigrationsInv, MigrationsTypeOK
  <2>3. BatchesBounded' /\ HasNext' /\ (Alone => Alone')
    BY <2>1 DEF MigrationsInv, BatchesBounded, HasNext, Alone, Running, Doing
  <2>4. SchemaMatchesTable => SchemaMatchesTable'
    BY <2>1 DEF SchemaMatchesTable, InHand, Doing, Next1
  <2>5. \A p \in Runners : InStep(p) => InStep(p)'
    BY <2>1 DEF InStep, MigrateRest, RollbackRest, Doing, Next1
  <2>. QED
    BY <2>1, <2>2, <2>3, <2>4, <2>5 DEF MigrationsInv
<1>2. ASSUME NEW p \in Runners, migrate(p) \/ rollbackAll(p) \/ \E steps \in Steps : rollback(p, steps)
      PROVE  MigrationsInv'
  BY <1>2, CommandsBegin
<1>3. ASSUME NEW p \in Runners, listPending(p) PROVE MigrationsInv'
  BY <1>3, ListPendingStep
<1>4. ASSUME NEW p \in Runners, up(p) PROVE MigrationsInv'
  BY <1>4, UpStep
<1>5. ASSUME NEW p \in Runners, insert(p) PROVE MigrationsInv'
  BY <1>5, InsertStep
<1>6. ASSUME NEW p \in Runners, selectRows(p) PROVE MigrationsInv'
  BY <1>6, SelectRowsStep
<1>7. ASSUME NEW p \in Runners, forgetMissing(p) PROVE MigrationsInv'
  BY <1>7, ForgetMissingStep
<1>8. ASSUME NEW p \in Runners, down(p) PROVE MigrationsInv'
  BY <1>8, DownStep
<1>9. ASSUME NEW p \in Runners, delete(p) PROVE MigrationsInv'
  BY <1>9, DeleteStep
<1>10. ASSUME NEW p \in Runners, fails(p) PROVE MigrationsInv'
  BY <1>10, FailsStep
<1>11. ASSUME NEW f \in Names, edit(f) PROVE MigrationsInv'
  BY <1>11, EditStep
<1>. QED
  BY <1>1, <1>2, <1>3, <1>4, <1>5, <1>6, <1>7, <1>8, <1>9, <1>10, <1>11 DEF MigrationsNext

\* migrate, migrate:rollback: the batches never pass the number of commands, a
\* command that runs alone has left to do what its listing says, in the order of
\* the files or of the batches.
THEOREM MigrationsInvariant == ASSUME MigrationsAssumption PROVE MigrationsSpec => []MigrationsInv
<1>1. MigrationsInit => MigrationsInv
  BY MigrationsInvInit
<1>2. MigrationsInv /\ [MigrationsNext]_migrationVars => MigrationsInv'
  BY MigrationsInvStep
<1>. QED
  BY <1>1, <1>2, PTL DEF MigrationsSpec

\* What a migrate has left is in the order of the files, so that none before its
\* next one is left.
LEMMA NextInOrder == ASSUME MigrationsAssumption, MigrationsInv PROVE UpInOrder
<1>. SUFFICES ASSUME NEW p \in Runners, Doing(p) = "up", ~ overlaid,
                     NEW i \in DOMAIN Files, NEW j \in DOMAIN Files,
                     Files[j] = Next1(p), i < j, Files[i] \in runner[p].listed \ WithoutUp
              PROVE  Files[i] \in DOMAIN rows
  BY DEF UpInOrder
<1> DEFINE todo == runner[p].todo
<1>1. Running(p) /\ MigrationsTypeOK
  BY DEF Running, MigrationsInv
<1>2. /\ todo \in Seq(Names) /\ todo # <<>> /\ InStep(p)
  BY <1>1, RunnerFacts
<1>3. /\ \A k, l \in DOMAIN todo : k < l => Before(todo[k], todo[l])
      /\ runner[p].listed \ WithoutUp \subseteq DOMAIN rows \cup Range(todo)
      /\ Next1(p) = Head(todo)
  BY <1>2 DEF InStep, MigrateRest, Next1
<1>4. DOMAIN todo = 1 .. Len(todo) /\ Len(todo) \in Nat /\ Len(todo) > 0 /\ Head(todo) = todo[1]
  <2>. HIDE DEF todo
  <2>. QED
    BY <1>2, TailFacts
<1>5. /\ DOMAIN Files = 1 .. Len(Files) /\ Len(Files) \in Nat
      /\ \A k, l \in DOMAIN Files : Files[k] = Files[l] => k = l
  BY <1>1, MigrationFacts
<1>. HIDE DEF todo
<1>6. ASSUME Files[i] \in Range(todo) PROVE FALSE
  <2>1. PICK k \in DOMAIN todo : todo[k] = Files[i]
    BY <1>6 DEF Range
  <2>2. k # 1
    BY <1>3, <1>4, <1>5, <2>1
  <2>3. Before(Files[j], Files[i])
    BY <1>3, <1>4, <2>1, <2>2
  <2>4. PICK a, b \in DOMAIN Files : a < b /\ Files[a] = Files[j] /\ Files[b] = Files[i]
    BY <2>3 DEF Before
  <2>. QED
    BY <1>5, <2>4
<1>. QED
  BY <1>3, <1>6

\* Nothing a rollback has left is of a later batch than its next one.
LEMMA NextIsNewest == ASSUME MigrationsAssumption, MigrationsInv PROVE NewestFirst
<1>. SUFFICES ASSUME NEW p \in Runners, Doing(p) = "down", ~ overlaid,
                     NEW f \in DOMAIN rows, rows[f] > rows[Next1(p)]
              PROVE  f \in WithoutDown
  BY DEF NewestFirst
<1> DEFINE todo == runner[p].todo
<1>1. Running(p)
  BY DEF Running
<1>2. /\ todo \in Seq(Names) /\ todo # <<>> /\ InStep(p)
  BY <1>1, RunnerFacts
<1>3. /\ \A g \in DOMAIN rows, i \in DOMAIN todo : rows[g] > rows[todo[i]] =>
            g \in WithoutDown \/ \E k \in 1 .. i - 1 : g = todo[k]
      /\ Next1(p) = Head(todo)
  BY <1>2 DEF InStep, RollbackRest, Next1
<1>4. 1 \in DOMAIN todo /\ Head(todo) = todo[1]
  <2>. HIDE DEF todo
  <2>. QED
    BY <1>2, TailFacts
<1>. HIDE DEF todo
<1>5. f \in WithoutDown \/ \E k \in 1 .. 1 - 1 : f = todo[k]
  BY <1>3, <1>4
<1>. QED
  BY <1>5

\* migrate, migrate:rollback: the table tells what is in effect, and nothing is
\* applied or rolled back before what it builds on.
THEOREM MigrationsRecordedHolds ==
    ASSUME MigrationsAssumption PROVE MigrationsSpec => []MigrationsRecorded
<1>1. MigrationsInv => MigrationsRecorded
  <2>1. MigrationsInv => SchemaMatchesTable
    BY DEF MigrationsInv, SchemaMatchesTable
  <2>. QED
    BY <2>1, NextInOrder, NextIsNewest DEF MigrationsRecorded
<1>. QED
  BY <1>1, MigrationsInvariant, PTL

-----------------------------------------------------------------------------
(* Broadcast queue: connections.                                           *)

\* The channels a process listens on are the queues and __control__, each once.
LEMMA ChannelFacts ==
    ASSUME BroadcastAssumption
    PROVE  /\ ListenChannels \in Seq(Range(ListenChannels))
           /\ Len(ListenChannels) \in Nat /\ Len(ListenChannels) > 0
           /\ DOMAIN ListenChannels = 1 .. Len(ListenChannels)
           /\ \A i, j \in DOMAIN ListenChannels : ListenChannels[i] = ListenChannels[j] => i = j
           /\ Control \in Range(ListenChannels)
           /\ Range(Queues) \subseteq Range(ListenChannels)
           /\ Queues \in Seq(Range(ListenChannels)) /\ IsInjective(Queues)
<1> DEFINE S == Range(Queues) \cup {Control}
<1>. Queues \in Seq(Range(Queues)) /\ Control \notin Range(Queues) /\ IsInjective(Queues)
  BY DEF BroadcastAssumption
<1>1. \A i \in DOMAIN Queues : Queues[i] \in Range(Queues)
  BY DEF Range
<1>. HIDE DEF S
<1>2. Queues \in Seq(S) /\ Control \in S
  BY DEF S
<1>3. /\ ListenChannels \in Seq(S) /\ Len(Queues) \in Nat
      /\ Len(ListenChannels) = Len(Queues) + 1
      /\ DOMAIN ListenChannels = 1 .. Len(Queues) + 1 /\ DOMAIN Queues = 1 .. Len(Queues)
      /\ \A i \in 1 .. Len(Queues) : ListenChannels[i] = Queues[i]
      /\ ListenChannels[Len(Queues) + 1] = Control
      /\ Range(ListenChannels) = Range(Queues) \cup {Control}
  BY <1>2, AppendFacts DEF ListenChannels
<1>4. \A i, j \in DOMAIN ListenChannels : ListenChannels[i] = ListenChannels[j] => i = j
  BY <1>1, <1>3 DEF IsInjective
<1>. QED
  BY <1>2, <1>3, <1>4 DEF S

\* Clients, calls, broadcasts and messages, with the types the code gives them.
LEMMA BroadcastFacts ==
    ASSUME BroadcastTypeOK
    PROVE  /\ Len(pairs) \in Nat /\ DOMAIN pairs = 1 .. Len(pairs)
           /\ DOMAIN outgoing = DOMAIN pairs /\ DOMAIN incoming = DOMAIN pairs
           /\ \A c \in DOMAIN pairs :
                 /\ pairs[c] \in Client
                 /\ outgoing[c] \in Seq(1 .. MaxBroadcasts) /\ incoming[c] \in Seq(Messages)
           /\ Len(broadcasts) \in Nat /\ DOMAIN broadcasts = 1 .. Len(broadcasts)
           /\ \A k \in DOMAIN broadcasts : broadcasts[k] \in Broadcast
           /\ \A k \in DOMAIN connecting : k \in DOMAIN pairs /\ connecting[k] \in Connecting
           /\ \A p \in Procs : current[p] \in 0 .. Len(pairs) /\ handled[p] \in Seq(Messages)
  BY DEF BroadcastTypeOK

\* The answer to a SUBSCRIBE changes one listener.
LEMMA ListenerAdded ==
    ASSUME BroadcastTypeOK, NEW c \in DOMAIN pairs, NEW ch \in Range(ListenChannels),
           pairs' = [pairs EXCEPT ![c].listeners[ch] = @ + 1]
    PROVE  /\ pairs' \in Seq(Client) /\ Len(pairs') = Len(pairs) /\ DOMAIN pairs' = DOMAIN pairs
           /\ \A d \in DOMAIN pairs :
                 pairs'[d].proc = pairs[d].proc /\ pairs'[d].open = pairs[d].open
           /\ \A d \in DOMAIN pairs : d # c => pairs'[d] = pairs[d]
           /\ \A x \in Range(ListenChannels) : pairs'[c].listeners[x] =
                 IF x = ch THEN pairs[c].listeners[x] + 1 ELSE pairs[c].listeners[x]
<1> DEFINE old == pairs[c].listeners
           l == [old EXCEPT ![ch] = old[ch] + 1]
           r == [pairs[c] EXCEPT !.listeners = l]
<1>1. pairs[c] \in Client /\ old \in [Range(ListenChannels) -> Nat]
  BY BroadcastFacts DEF Client
<1>2. /\ l \in [Range(ListenChannels) -> Nat]
      /\ \A x \in Range(ListenChannels) : l[x] = IF x = ch THEN old[x] + 1 ELSE old[x]
  <2>. HIDE DEF old
  <2>. QED
    BY <1>1
<1>3. pairs' = [pairs EXCEPT ![c] = r]
  OBVIOUS
<1>. HIDE DEF l
<1>4. r \in Client /\ r.proc = pairs[c].proc /\ r.open = pairs[c].open /\ r.listeners = l
  BY <1>1, <1>2 DEF Client
<1>. HIDE DEF r
<1>5. pairs \in Seq(Client)
  BY DEF BroadcastTypeOK
<1>6. /\ pairs' \in Seq(Client) /\ Len(pairs') = Len(pairs) /\ DOMAIN pairs' = DOMAIN pairs
      /\ pairs'[c] = r /\ \A d \in DOMAIN pairs : d # c => pairs'[d] = pairs[d]
  BY <1>3, <1>4, <1>5
<1>. QED
  BY <1>2, <1>4, <1>6

\* A call of connect() waits for its next answer.
LEMMA AwaitingFacts ==
    ASSUME NEW k, NEW client, NEW pos, connecting' = Awaiting(k, client, pos)
    PROVE  /\ DOMAIN connecting' = DOMAIN connecting \cup {k}
           /\ connecting'[k].client = client /\ connecting'[k].pos = pos
           /\ \A j \in DOMAIN connecting : j # k => connecting'[j] = connecting[j]
           /\ connecting' = [j \in DOMAIN connecting \cup {k} |-> connecting'[j]]
  BY DEF Awaiting

\* Calls of connect() end.
LEMMA CallsEnded ==
    ASSUME NEW S, connecting' = Restrict(connecting, DOMAIN connecting \ S)
    PROVE  /\ DOMAIN connecting' = DOMAIN connecting \ S
           /\ \A j \in DOMAIN connecting' : connecting'[j] = connecting[j]
           /\ connecting' = [j \in DOMAIN connecting \ S |-> connecting'[j]]
  BY DEF Restrict

\* A step of one process leaves what another one has connected.
LEMMA ConnectedStays ==
    ASSUME BroadcastTypeOK, NEW q \in Procs, Connected(q),
           pairs' \in Seq(Client), DOMAIN pairs \subseteq DOMAIN pairs',
           \A d \in DOMAIN pairs' : pairs'[d].proc = q => d \in DOMAIN pairs /\ pairs[d].proc = q,
           \A d \in Own(q) : pairs'[d].proc = q /\ pairs'[d].listeners = pairs[d].listeners
                             /\ (pairs'[d].open <=> pairs[d].open),
           current'[q] = current[q], current[q] # 0 => current[q] \in Own(q),
           online'[q] <=> online[q],
           \A k \in Own(q) : k \in DOMAIN connecting' <=> k \in DOMAIN connecting,
           \A k \in Calls(q) : connecting'[k] = connecting[k]
    PROVE  Connected(q)'
<1>1. Own(q)' = Own(q)
  BY DEF Own
<1>2. Calls(q)' = Calls(q)
  BY <1>1 DEF Calls
<1>. QED
  BY <1>1, <1>2 DEF Connected

\* Nothing is connected or disconnected.
LEMMA ConnectionsStay ==
    ASSUME ConnectionsInv, UNCHANGED connection
    PROVE  ConnectionsInv'
<1>. UNCHANGED <<pairs, current, online, connecting, doubled>>
  BY DEF connection
<1>1. \A p \in Procs : Connected(p) => Connected(p)'
  BY DEF Connected, Own, Calls
<1>. QED
  BY <1>1 DEF ConnectionsInv, Owned

\* A process connects: all its clients were closed, unless a call of connect()
\* already waits.
LEMMA ConnectConnections ==
    ASSUME BroadcastAssumption, BroadcastInv, NEW p \in Procs, connect(p)
    PROVE  ConnectionsInv'
<1> DEFINE c == Len(pairs) + 1
           new == [proc |-> p, open |-> TRUE, listeners |-> [ch \in Range(ListenChannels) |-> 0]]
<1>. BroadcastTypeOK /\ ConnectionsInv
  BY DEF BroadcastInv
<1>1. /\ ~ online[p] /\ online' = online
      /\ pairs' = Append(pairs, new) /\ current' = [current EXCEPT ![p] = c]
      /\ connecting' = Awaiting(c, c, 1)
      /\ doubled' = IF Calls(p) # {} THEN doubled \cup {p} ELSE doubled
  BY DEF connect
<1>2. new \in Client /\ new.proc = p /\ new.open = TRUE
      /\ \A ch \in Range(ListenChannels) : new.listeners[ch] = 0
  BY DEF Client
<1>3. pairs \in Seq(Client)
  BY DEF BroadcastTypeOK
<1>. HIDE DEF new
<1>4. /\ pairs' \in Seq(Client) /\ Len(pairs) \in Nat /\ DOMAIN pairs = 1 .. Len(pairs)
      /\ DOMAIN pairs' = 1 .. Len(pairs) + 1
      /\ \A d \in DOMAIN pairs : pairs'[d] = pairs[d]
      /\ pairs'[c] = new
  BY <1>1, <1>2, <1>3, AppendFacts, BroadcastFacts
<1>5. c \notin DOMAIN pairs /\ c # 0 /\ DOMAIN pairs' = DOMAIN pairs \cup {c}
  BY <1>4
<1>. HIDE DEF c
<1>6. /\ DOMAIN connecting' = DOMAIN connecting \cup {c}
      /\ connecting'[c].client = c /\ connecting'[c].pos = 1
      /\ \A j \in DOMAIN connecting : j # c => connecting'[j] = connecting[j]
  BY <1>1, AwaitingFacts
<1>7. DOMAIN connecting \subseteq DOMAIN pairs
      /\ \A k \in DOMAIN connecting : connecting[k].client \in DOMAIN pairs
  BY DEF BroadcastTypeOK, Connecting
<1>8. /\ current'[p] = c /\ \A q \in Procs : q # p => current'[q] = current[q]
      /\ \A q \in Procs : current[q] # 0 => current[q] \in DOMAIN pairs
  BY <1>1, <1>4 DEF BroadcastTypeOK
<1>9. Owned'
  <2>1. \A q \in Procs : current'[q] # 0 => pairs'[current'[q]].proc = q
    BY <1>2, <1>4, <1>8 DEF ConnectionsInv, Owned
  <2>2. \A k \in DOMAIN connecting : pairs'[connecting'[k].client].proc = pairs'[k].proc
    BY <1>4, <1>5, <1>6, <1>7 DEF ConnectionsInv, Owned
  <2>3. pairs'[connecting'[c].client].proc = pairs'[c].proc
    BY <1>6
  <2>. QED
    BY <1>6, <2>1, <2>2, <2>3 DEF Owned
<1>10. ASSUME NEW q \in Procs, q \notin doubled', q # p
       PROVE  Connected(q)'
  <2>1. q \notin doubled /\ Connected(q)
    BY <1>1, <1>10 DEF ConnectionsInv
  <2>2. \A d \in DOMAIN pairs' : pairs'[d].proc = q => d \in DOMAIN pairs /\ pairs[d].proc = q
    BY <1>2, <1>4, <1>5, <1>10
  <2>3. current[q] # 0 => current[q] \in Own(q)
    BY <1>8 DEF ConnectionsInv, Owned, Own
  <2>4. \A k \in Own(q) : k \in DOMAIN pairs /\ k # c /\ pairs'[k] = pairs[k] /\ pairs[k].proc = q
    BY <1>4, <1>5 DEF Own
  <2>5. \A k \in Own(q) : k \in DOMAIN connecting' <=> k \in DOMAIN connecting
    BY <1>6, <2>4
  <2>6. \A k \in Calls(q) : connecting'[k] = connecting[k]
    BY <1>6, <2>4 DEF Calls
  <2>. QED
    BY <1>1, <1>4, <1>5, <1>8, <1>10, <2>1, <2>2, <2>3, <2>4, <2>5, <2>6, ConnectedStays
<1>11. ASSUME p \notin doubled'
       PROVE  Connected(p)'
  <2>1. Calls(p) = {} /\ p \notin doubled /\ Connected(p)
    BY <1>1, <1>11 DEF ConnectionsInv
  <2>2. current[p] = 0
    BY <1>1, <2>1 DEF Connected
  <2>3. \A d \in Own(p) : ~ pairs[d].open
    BY <1>4, <2>1, <2>2 DEF Connected, Own
  <2>4. Own(p)' = Own(p) \cup {c}
    BY <1>2, <1>4, <1>5 DEF Own
  <2>5. \A d \in Own(p)' : pairs'[d].open => d = c
    BY <1>4, <2>3, <2>4 DEF Own
  <2>6. Calls(p)' = {c}
    BY <1>5, <1>6, <2>1, <2>4 DEF Calls, Own
  <2>7. \A i \in DOMAIN ListenChannels :
           pairs'[c].listeners[ListenChannels[i]] = IF i < 1 THEN 1 ELSE 0
    BY <1>2, <1>4, ChannelFacts DEF Range
  <2>. QED
    BY <1>1, <1>5, <1>6, <1>8, <2>5, <2>6, <2>7 DEF Connected
<1>. QED
  BY <1>9, <1>10, <1>11 DEF ConnectionsInv

\* A SUBSCRIBE is answered: the channel after it is next, or the process is
\* connected.
LEMMA SubscribedConnections ==
    ASSUME BroadcastAssumption, BroadcastInv, NEW k \in DOMAIN connecting, subscribed(k)
    PROVE  ConnectionsInv'
<1> DEFINE c == connecting[k].client
           i == connecting[k].pos
           ch == ListenChannels[i]
<1>. BroadcastTypeOK /\ ConnectionsInv
  BY DEF BroadcastInv
<1>0. PICK p \in Procs : p = pairs[k].proc
  BY BroadcastFacts DEF Client
<1>1. /\ pairs' = [pairs EXCEPT ![c].listeners[ch] = @ + 1]
      /\ connecting' = Continued(k)
      /\ online' = IF i = Len(ListenChannels) THEN [online EXCEPT ![p] = TRUE] ELSE online
      /\ current' = current /\ doubled' = doubled
  BY <1>0 DEF subscribed
<1>2. /\ k \in DOMAIN pairs /\ c \in DOMAIN pairs /\ i \in DOMAIN ListenChannels
      /\ ch \in Range(ListenChannels) /\ pairs[c].proc = p
  BY <1>0, BroadcastFacts DEF Connecting, Range, ConnectionsInv, Owned
<1>. HIDE DEF c, ch
<1>3. /\ pairs' \in Seq(Client) /\ DOMAIN pairs' = DOMAIN pairs
      /\ \A d \in DOMAIN pairs :
            pairs'[d].proc = pairs[d].proc /\ pairs'[d].open = pairs[d].open
      /\ \A d \in DOMAIN pairs : d # c => pairs'[d] = pairs[d]
      /\ \A x \in Range(ListenChannels) : pairs'[c].listeners[x] =
            IF x = ch THEN pairs[c].listeners[x] + 1 ELSE pairs[c].listeners[x]
  BY <1>1, <1>2, ListenerAdded
<1>. HIDE DEF i
<1>4. \/ /\ i = Len(ListenChannels) \/ current[p] = 0
         /\ DOMAIN connecting' = DOMAIN connecting \ {k}
         /\ \A j \in DOMAIN connecting' : connecting'[j] = connecting[j]
      \/ /\ i # Len(ListenChannels) /\ current[p] # 0
         /\ DOMAIN connecting' = DOMAIN connecting
         /\ connecting'[k].client = current[p] /\ connecting'[k].pos = i + 1
         /\ \A j \in DOMAIN connecting : j # k => connecting'[j] = connecting[j]
  <2>1. CASE i = Len(ListenChannels) \/ current[p] = 0
    <3>1. connecting' = Restrict(connecting, DOMAIN connecting \ {k})
      BY <1>0, <1>1, <2>1 DEF Continued, i
    <3>. QED
      BY <2>1, <3>1, CallsEnded
  <2>2. CASE i # Len(ListenChannels) /\ current[p] # 0
    <3>1. connecting' = Awaiting(k, current[p], i + 1)
      BY <1>0, <1>1, <2>2 DEF Continued, i
    <3>. QED
      BY <2>2, <3>1, AwaitingFacts
  <2>. QED
    BY <2>1, <2>2
<1>5. /\ \A q \in Procs : current[q] # 0 => current[q] \in DOMAIN pairs /\ pairs[current[q]].proc = q
      /\ \A j \in DOMAIN connecting : j \in DOMAIN pairs /\ connecting[j].client \in DOMAIN pairs
                                      /\ pairs[connecting[j].client].proc = pairs[j].proc
  BY BroadcastFacts DEF Connecting, ConnectionsInv, Owned
<1>6. Owned'
  <2>1. \A q \in Procs : current'[q] # 0 => pairs'[current'[q]].proc = q
    BY <1>1, <1>3, <1>5
  <2>2. \A j \in DOMAIN connecting' : pairs'[connecting'[j].client].proc = pairs'[j].proc
    <3>1. ASSUME NEW j \in DOMAIN connecting', j # k
          PROVE  pairs'[connecting'[j].client].proc = pairs'[j].proc
      <4>1. j \in DOMAIN connecting /\ connecting'[j] = connecting[j]
        BY <1>4, <3>1
      <4>. QED
        BY <1>3, <1>5, <4>1
    <3>2. k \in DOMAIN connecting' => pairs'[connecting'[k].client].proc = pairs'[k].proc
      BY <1>0, <1>2, <1>3, <1>4, <1>5
    <3>. QED
      BY <3>1, <3>2
  <2>. QED
    BY <2>1, <2>2 DEF Owned
<1>7. ASSUME NEW q \in Procs, q \notin doubled', q # p
      PROVE  Connected(q)'
  <2>1. Connected(q)
    BY <1>1, <1>7 DEF ConnectionsInv
  <2>2. \A d \in Own(q) : d \in DOMAIN pairs /\ d # c /\ d # k /\ pairs'[d] = pairs[d] /\ pairs'[d].proc = q
    BY <1>0, <1>2, <1>3, <1>7 DEF Own
  <2>3. \A j \in Own(q) : j \in DOMAIN connecting' <=> j \in DOMAIN connecting
    BY <1>4, <2>2
  <2>4. \A j \in Calls(q) : connecting'[j] = connecting[j]
    BY <1>4, <2>2 DEF Calls
  <2>5. online'[q] <=> online[q]
    BY <1>1, <1>7 DEF BroadcastTypeOK
  <2>6. current[q] # 0 => current[q] \in Own(q)
    BY <1>5 DEF Own
  <2>. QED
    BY <1>1, <1>3, <2>1, <2>2, <2>3, <2>4, <2>5, <2>6, ConnectedStays
<1>8. ASSUME p \notin doubled'
      PROVE  Connected(p)'
  <2>1. Connected(p) /\ k \in Calls(p)
    BY <1>0, <1>1, <1>2, <1>8 DEF ConnectionsInv, Calls, Own
  <2>2. /\ current[p] = k /\ c = k /\ current[p] # 0 /\ ~ online[p] /\ Calls(p) = {k}
        /\ \A j \in DOMAIN ListenChannels :
              pairs[k].listeners[ListenChannels[j]] = IF j < i THEN 1 ELSE 0
    BY <1>2, <2>1 DEF Connected, c, i
  <2>3. \A j \in DOMAIN ListenChannels :
           pairs'[k].listeners[ListenChannels[j]] = IF j < i + 1 THEN 1 ELSE 0
    <3>. SUFFICES ASSUME NEW j \in DOMAIN ListenChannels
                  PROVE  pairs'[k].listeners[ListenChannels[j]] = IF j < i + 1 THEN 1 ELSE 0
      OBVIOUS
    <3>1. ListenChannels[j] = ch <=> j = i
      BY <1>2, ChannelFacts DEF ch
    <3>2. ListenChannels[j] \in Range(ListenChannels) /\ j \in Nat /\ i \in Nat
      BY <1>2, ChannelFacts DEF Range
    <3>. QED
      <4>1. CASE j = i
        BY <1>3, <2>2, <3>1, <3>2, <4>1
      <4>2. CASE j # i
        BY <1>3, <2>2, <3>1, <3>2, <4>2
      <4>. QED
        BY <4>1, <4>2
  <2>4. Own(p)' = Own(p) /\ \A d \in Own(p) : pairs'[d].open <=> pairs[d].open
    BY <1>3 DEF Own
  <2>5. \A d \in Own(p)' : pairs'[d].open => d = k
    BY <2>1, <2>2, <2>4 DEF Connected
  <2>6. CASE i = Len(ListenChannels)
    <3>1. online'[p] /\ Calls(p)' = {}
      BY <1>1, <1>2, <1>4, <2>2, <2>4, <2>6 DEF Calls, BroadcastTypeOK
    <3>. QED
      BY <1>1, <2>2, <2>3, <2>5, <2>6, <3>1 DEF Connected
  <2>7. CASE i # Len(ListenChannels)
    <3>1. online' = online /\ Calls(p)' = {k} /\ connecting'[k].client = k /\ connecting'[k].pos = i + 1
      BY <1>1, <1>4, <2>2, <2>4, <2>7 DEF Calls
    <3>. QED
      BY <1>1, <2>2, <2>3, <2>5, <3>1 DEF Connected
  <2>. QED
    BY <2>6, <2>7
<1>. QED
  BY <1>6, <1>7, <1>8 DEF ConnectionsInv

\* A process disconnects: its client is closed and its calls of connect() end.
LEMMA DisconnectConnections ==
    ASSUME BroadcastAssumption, BroadcastInv, NEW p \in Procs, disconnect(p)
    PROVE  ConnectionsInv'
<1> DEFINE c == current[p]
           r == [pairs[c] EXCEPT !.open = FALSE]
<1>. BroadcastTypeOK /\ ConnectionsInv
  BY DEF BroadcastInv
<1>1. /\ c # 0 /\ pairs' = [pairs EXCEPT ![c] = r]
      /\ connecting' = Restrict(connecting, DOMAIN connecting \ Waiting(c))
      /\ current' = [current EXCEPT ![p] = 0] /\ online' = [online EXCEPT ![p] = FALSE]
      /\ doubled' = doubled
  BY DEF disconnect
<1>2. c \in DOMAIN pairs /\ pairs[c] \in Client /\ pairs[c].proc = p
  BY <1>1, BroadcastFacts DEF ConnectionsInv, Owned
<1>3. r \in Client /\ r.proc = p /\ r.open = FALSE
  BY <1>2 DEF Client
<1>4. pairs \in Seq(Client)
  BY DEF BroadcastTypeOK
<1>. HIDE DEF r
<1>5. /\ pairs' \in Seq(Client) /\ DOMAIN pairs' = DOMAIN pairs /\ pairs'[c] = r
      /\ \A d \in DOMAIN pairs : d # c => pairs'[d] = pairs[d]
      /\ \A d \in DOMAIN pairs : pairs'[d].proc = pairs[d].proc
  BY <1>1, <1>2, <1>3, <1>4
<1>6. /\ DOMAIN connecting' = DOMAIN connecting \ Waiting(c)
      /\ \A j \in DOMAIN connecting' : connecting'[j] = connecting[j]
  BY <1>1, CallsEnded
<1>7. /\ \A q \in Procs : current[q] # 0 => current[q] \in DOMAIN pairs /\ pairs[current[q]].proc = q
      /\ \A j \in DOMAIN connecting : j \in DOMAIN pairs /\ connecting[j].client \in DOMAIN pairs
                                      /\ pairs[connecting[j].client].proc = pairs[j].proc
  BY BroadcastFacts DEF Connecting, ConnectionsInv, Owned
<1>8. /\ current'[p] = 0 /\ ~ online'[p]
      /\ \A q \in Procs : q # p => current'[q] = current[q] /\ (online'[q] <=> online[q])
  BY <1>1 DEF BroadcastTypeOK
<1>9. Owned'
  <2>1. ASSUME NEW q \in Procs, current'[q] # 0 PROVE pairs'[current'[q]].proc = q
    <3>1. q # p /\ current'[q] = current[q]
      BY <1>8, <2>1
    <3>. QED
      BY <1>5, <1>7, <2>1, <3>1
  <2>2. \A j \in DOMAIN connecting' : pairs'[connecting'[j].client].proc = pairs'[j].proc
    BY <1>5, <1>6, <1>7
  <2>. QED
    BY <2>1, <2>2 DEF Owned
<1>10. ASSUME NEW q \in Procs, q \notin doubled', q # p
       PROVE  Connected(q)'
  <2>1. Connected(q)
    BY <1>1, <1>10 DEF ConnectionsInv
  <2>2. \A d \in Own(q) : d \in DOMAIN pairs /\ d # c /\ pairs'[d] = pairs[d] /\ pairs'[d].proc = q
    BY <1>2, <1>5, <1>10 DEF Own
  <2>3. \A j \in Calls(q) : j \notin Waiting(c)
    BY <1>2, <1>7, <1>10 DEF Calls, Own, Waiting
  <2>4. \A j \in Own(q) : j \in DOMAIN connecting' <=> j \in DOMAIN connecting
    BY <1>6, <2>3 DEF Calls
  <2>5. \A j \in Calls(q) : connecting'[j] = connecting[j]
    BY <1>6, <2>3 DEF Calls
  <2>6. current[q] # 0 => current[q] \in Own(q)
    BY <1>7 DEF Own
  <2>7. \A d \in DOMAIN pairs' : pairs'[d].proc = q => d \in DOMAIN pairs /\ pairs[d].proc = q
    BY <1>5
  <2>. QED
    BY <1>5, <1>8, <1>10, <2>1, <2>2, <2>4, <2>5, <2>6, <2>7, ConnectedStays
<1>11. ASSUME p \notin doubled'
       PROVE  Connected(p)'
  <2>1. Connected(p)
    BY <1>1, <1>11 DEF ConnectionsInv
  <2>2. Calls(p) = {} \/ (Calls(p) = {c} /\ connecting[c].client = c)
    BY <1>1, <2>1 DEF Connected
  <2>3. Own(p)' = Own(p)
    BY <1>5 DEF Own
  <2>4. Calls(p)' = {}
    BY <1>6, <2>2, <2>3 DEF Calls, Waiting
  <2>5. \A d \in Own(p)' : ~ pairs'[d].open
    BY <1>3, <1>5, <2>1, <2>3 DEF Connected, Own
  <2>. QED
    BY <1>8, <2>4, <2>5 DEF Connected
<1>. QED
  BY <1>9, <1>10, <1>11 DEF ConnectionsInv

-----------------------------------------------------------------------------
(* Broadcast queue: messages.                                              *)

\* Nothing is sent, received or handled; clients may be made or closed, what waits
\* at a closed one is dropped and what awaits its answer is rejected.
LEMMA MessagesStay ==
    ASSUME BroadcastTypeOK, MessagesInv,
           DOMAIN outgoing' = DOMAIN pairs', DOMAIN incoming' = DOMAIN pairs',
           DOMAIN pairs \subseteq DOMAIN pairs',
           \A c \in DOMAIN pairs :
              /\ outgoing'[c] = outgoing[c] /\ pairs'[c].proc = pairs[c].proc
              /\ \/ incoming'[c] = <<>>
                 \/ incoming'[c] = incoming[c] /\ (pairs'[c].open <=> pairs[c].open),
           \A c \in DOMAIN pairs' \ DOMAIN pairs : outgoing'[c] = <<>> /\ incoming'[c] = <<>>,
           DOMAIN broadcasts' = DOMAIN broadcasts,
           \A k \in DOMAIN broadcasts :
              /\ broadcasts'[k].left = broadcasts[k].left
              /\ broadcasts'[k].payload = broadcasts[k].payload
              /\ \/ broadcasts'[k].state = broadcasts[k].state
                 \/ broadcasts'[k].state = "rejected",
           queued' = queued, handled' = handled, doubled \subseteq doubled'
    PROVE  MessagesInv'
<1>1. DOMAIN outgoing = DOMAIN pairs /\ DOMAIN incoming = DOMAIN pairs
  BY BroadcastFacts
<1>2. Range(<<>>) = {} /\ IsInjective(<<>>)
  BY DEF Range, IsInjective
<1>3. \A k : Underway(k)' <=> Underway(k)
  BY <1>1, <1>2 DEF Underway
<1>4. SentOnce'
  <2>1. \A c \in DOMAIN outgoing' : c \in DOMAIN outgoing \/ Range(outgoing'[c]) = {}
    BY <1>1, <1>2
  <2>2. \A c \in DOMAIN outgoing' : IsInjective(outgoing'[c])
    BY <1>1, <1>2 DEF MessagesInv, SentOnce
  <2>3. ASSUME NEW c \in DOMAIN outgoing', NEW d \in DOMAIN outgoing', c # d
        PROVE  Range(outgoing'[c]) \cap Range(outgoing'[d]) = {}
    <3>1. CASE c \in DOMAIN outgoing /\ d \in DOMAIN outgoing
      BY <1>1, <2>3, <3>1 DEF MessagesInv, SentOnce
    <3>. QED
      BY <2>1, <3>1
  <2>. QED
    BY <2>2, <2>3 DEF SentOnce
<1>5. \A c \in DOMAIN outgoing' : Range(outgoing'[c]) \subseteq DOMAIN broadcasts'
  BY <1>1, <1>2 DEF MessagesInv
<1>6. \A k \in DOMAIN broadcasts' : InTurn(k)'
  BY <1>3 DEF MessagesInv, InTurn
<1>7. \A msg : Behind(msg) => Behind(msg)'
  BY <1>3 DEF Behind
<1>8. ASSUME NEW c \in DOMAIN incoming'
      PROVE  ComesOnce(c)' /\ \A msg \in Range(incoming'[c]) : Behind(msg)'
  <2>1. CASE incoming'[c] = <<>>
    BY <1>2, <2>1 DEF ComesOnce
  <2>2. CASE incoming'[c] # <<>>
    <3>1. /\ c \in DOMAIN pairs /\ incoming'[c] = incoming[c] /\ pairs'[c].proc = pairs[c].proc
          /\ (pairs'[c].open <=> pairs[c].open)
      BY <2>2
    <3>2. ComesOnce(c) /\ \A msg \in Range(incoming[c]) : Behind(msg)
      BY <1>1, <3>1 DEF MessagesInv
    <3>. QED
      BY <1>7, <3>1, <3>2 DEF ComesOnce
  <2>. QED
    BY <2>1, <2>2
<1>9. \A p \in Procs : \A msg \in Range(handled'[p]) : Behind(msg)'
  BY <1>7 DEF MessagesInv
<1>10. HandledOncePerChannel'
  BY DEF MessagesInv, HandledOncePerChannel
<1>. QED
  BY <1>4, <1>5, <1>6, <1>8, <1>9, <1>10 DEF MessagesInv

\* A process connects.
LEMMA ConnectStep ==
    ASSUME BroadcastAssumption, BroadcastInv, NEW p \in Procs, connect(p)
    PROVE  BroadcastInv'
<1> DEFINE c == Len(pairs) + 1
           new == [proc |-> p, open |-> TRUE, listeners |-> [ch \in Range(ListenChannels) |-> 0]]
<1>. BroadcastTypeOK /\ MessagesInv
  BY DEF BroadcastInv
<1>1. /\ pairs' = Append(pairs, new) /\ outgoing' = Append(outgoing, <<>>)
      /\ incoming' = Append(incoming, <<>>)
      /\ current' = [current EXCEPT ![p] = c] /\ connecting' = Awaiting(c, c, 1)
      /\ doubled' = IF Calls(p) # {} THEN doubled \cup {p} ELSE doubled
      /\ UNCHANGED <<online, broadcasts, worker, failed, ticking, queued, handled>>
  BY DEF connect, effects
<1>2. new \in Client
  BY DEF Client
<1>3. /\ pairs \in Seq(Client)
      /\ outgoing \in Seq(Seq(1 .. MaxBroadcasts)) /\ Len(outgoing) = Len(pairs)
      /\ incoming \in Seq(Seq(Messages)) /\ Len(incoming) = Len(pairs)
      /\ <<>> \in Seq(1 .. MaxBroadcasts) /\ <<>> \in Seq(Messages)
  BY DEF BroadcastTypeOK
<1>. HIDE DEF new
<1>4. /\ pairs' \in Seq(Client) /\ Len(pairs) \in Nat /\ DOMAIN pairs = 1 .. Len(pairs)
      /\ Len(pairs') = Len(pairs) + 1 /\ DOMAIN pairs' = 1 .. Len(pairs) + 1
      /\ \A d \in 1 .. Len(pairs) : pairs'[d] = pairs[d]
  BY <1>1, <1>2, <1>3, AppendFacts, BroadcastFacts
<1>5. /\ outgoing' \in Seq(Seq(1 .. MaxBroadcasts)) /\ Len(outgoing') = Len(pairs) + 1
      /\ DOMAIN outgoing' = 1 .. Len(pairs) + 1
      /\ \A d \in 1 .. Len(pairs) : outgoing'[d] = outgoing[d]
      /\ outgoing'[Len(pairs) + 1] = <<>>
  BY <1>1, <1>3, AppendFacts
<1>6. /\ incoming' \in Seq(Seq(Messages)) /\ Len(incoming') = Len(pairs) + 1
      /\ DOMAIN incoming' = 1 .. Len(pairs) + 1
      /\ \A d \in 1 .. Len(pairs) : incoming'[d] = incoming[d]
      /\ incoming'[Len(pairs) + 1] = <<>>
  BY <1>1, <1>3, AppendFacts
<1>7. /\ DOMAIN connecting' \subseteq DOMAIN pairs' /\ connecting' \in [DOMAIN connecting' -> Connecting']
  <2>1. c \in DOMAIN pairs' /\ 1 \in DOMAIN ListenChannels /\ DOMAIN pairs \subseteq DOMAIN pairs'
    BY <1>4, ChannelFacts
  <2>2. DOMAIN connecting \subseteq DOMAIN pairs /\ connecting \in [DOMAIN connecting -> Connecting]
    BY DEF BroadcastTypeOK
  <2>. HIDE DEF c
  <2>3. /\ DOMAIN connecting' = DOMAIN connecting \cup {c}
        /\ connecting' = [j \in DOMAIN connecting \cup {c} |->
                             IF j = c THEN [client |-> c, pos |-> 1] ELSE connecting[j]]
    BY <1>1 DEF Awaiting
  <2>4. [client |-> c, pos |-> 1] \in Connecting' /\ Connecting \subseteq Connecting'
    BY <2>1 DEF Connecting
  <2>. QED
    BY <2>1, <2>2, <2>3, <2>4
<1>8. current' \in [Procs -> 0 .. Len(pairs')]
  BY <1>1, <1>4 DEF BroadcastTypeOK
<1>9. BroadcastTypeOK'
  BY <1>1, <1>4, <1>5, <1>6, <1>7, <1>8 DEF BroadcastTypeOK
<1>10. MessagesInv'
  BY <1>1, <1>4, <1>5, <1>6, MessagesStay
<1>. QED
  BY <1>9, <1>10, ConnectConnections DEF BroadcastInv

\* A SUBSCRIBE is answered.
LEMMA SubscribedStep ==
    ASSUME BroadcastAssumption, BroadcastInv, NEW k \in DOMAIN connecting, subscribed(k)
    PROVE  BroadcastInv'
<1> DEFINE c == connecting[k].client
           pos == connecting[k].pos
           now == current[pairs[k].proc]
<1>. BroadcastTypeOK /\ MessagesInv
  BY DEF BroadcastInv
<1>1. /\ pairs' = [pairs EXCEPT ![c].listeners[ListenChannels[pos]] = @ + 1]
      /\ connecting' = Continued(k)
      /\ online' = IF pos = Len(ListenChannels)
                   THEN [online EXCEPT ![pairs[k].proc] = TRUE] ELSE online
      /\ UNCHANGED <<current, doubled, broadcasts, outgoing, incoming, worker, failed, ticking,
                     queued, handled>>
  BY DEF subscribed, effects
<1>2. /\ k \in DOMAIN pairs /\ c \in DOMAIN pairs /\ pos \in DOMAIN ListenChannels
      /\ ListenChannels[pos] \in Range(ListenChannels) /\ pairs[k].proc \in Procs
  BY BroadcastFacts DEF Connecting, Client, Range
<1>3. now \in 0 .. Len(pairs) /\ DOMAIN pairs = 1 .. Len(pairs) /\ Len(pairs) \in Nat
  BY <1>2, BroadcastFacts
<1>4. /\ pairs' \in Seq(Client) /\ Len(pairs') = Len(pairs) /\ DOMAIN pairs' = DOMAIN pairs
      /\ \A d \in DOMAIN pairs :
            pairs'[d].proc = pairs[d].proc /\ pairs'[d].open = pairs[d].open
  BY <1>1, <1>2, ListenerAdded
<1>5. online' \in [Procs -> BOOLEAN]
  BY <1>1, <1>2 DEF BroadcastTypeOK
<1>6. DOMAIN connecting' \subseteq DOMAIN pairs /\ connecting' \in [DOMAIN connecting' -> Connecting]
  <2>1. DOMAIN connecting \subseteq DOMAIN pairs /\ connecting \in [DOMAIN connecting -> Connecting]
    BY DEF BroadcastTypeOK
  <2>2. CASE pos = Len(ListenChannels) \/ now = 0
    <3>1. connecting' = Restrict(connecting, DOMAIN connecting \ {k})
      BY <1>1, <2>2 DEF Continued
    <3>. QED
      BY <2>1, <3>1, CallsEnded
  <2>3. CASE pos # Len(ListenChannels) /\ now # 0
    <3>1. connecting' = Awaiting(k, now, pos + 1)
      BY <1>1, <2>3 DEF Continued
    <3>2. now \in DOMAIN pairs /\ pos + 1 \in DOMAIN ListenChannels
      BY <1>2, <1>3, <2>3, ChannelFacts
    <3>. HIDE DEF now, pos
    <3>3. connecting' = [j \in DOMAIN connecting |->
                            IF j = k THEN [client |-> now, pos |-> pos + 1] ELSE connecting[j]]
      BY <3>1 DEF Awaiting
    <3>4. [client |-> now, pos |-> pos + 1] \in Connecting
      BY <3>2 DEF Connecting
    <3>. QED
      BY <2>1, <3>3, <3>4
  <2>. QED
    BY <2>2, <2>3
<1>7. Connecting' = Connecting
  BY <1>4 DEF Connecting
<1>. HIDE DEF c, pos, now
<1>8. BroadcastTypeOK'
  BY <1>1, <1>4, <1>5, <1>6, <1>7 DEF BroadcastTypeOK
<1>9. DOMAIN outgoing = DOMAIN pairs /\ DOMAIN incoming = DOMAIN pairs
  BY BroadcastFacts
<1>10. MessagesInv'
  BY <1>1, <1>4, <1>9, MessagesStay
<1>. QED
  BY <1>8, <1>10, SubscribedConnections DEF BroadcastInv

\* A process disconnects.
LEMMA DisconnectStep ==
    ASSUME BroadcastAssumption, BroadcastInv, NEW p \in Procs, disconnect(p)
    PROVE  BroadcastInv'
<1> DEFINE c == current[p]
           r == [pairs[c] EXCEPT !.open = FALSE]
<1>. BroadcastTypeOK /\ MessagesInv
  BY DEF BroadcastInv
<1>1. /\ c # 0 /\ pairs' = [pairs EXCEPT ![c] = r] /\ broadcasts' = RejectedBy(c)
      /\ connecting' = Restrict(connecting, DOMAIN connecting \ Waiting(c))
      /\ incoming' = [incoming EXCEPT ![c] = <<>>]
      /\ current' = [current EXCEPT ![p] = 0] /\ online' = [online EXCEPT ![p] = FALSE]
      /\ UNCHANGED <<doubled, outgoing, worker, failed, ticking, queued, handled>>
  BY DEF disconnect, effects
<1>2. /\ c \in DOMAIN pairs /\ pairs[c] \in Client /\ DOMAIN incoming = DOMAIN pairs
      /\ DOMAIN outgoing = DOMAIN pairs /\ Len(pairs) \in Nat
      /\ Len(broadcasts) \in Nat /\ DOMAIN broadcasts = 1 .. Len(broadcasts)
      /\ \A k \in DOMAIN broadcasts : broadcasts[k] \in Broadcast
  BY <1>1, BroadcastFacts
<1>3. r \in Client /\ r.proc = pairs[c].proc
  BY <1>2 DEF Client
<1>4. /\ pairs \in Seq(Client) /\ incoming \in Seq(Seq(Messages)) /\ <<>> \in Seq(Messages)
      /\ Len(incoming) = Len(pairs)
  BY DEF BroadcastTypeOK
<1>. HIDE DEF r, c
<1>5. /\ pairs' \in Seq(Client) /\ Len(pairs') = Len(pairs) /\ DOMAIN pairs' = DOMAIN pairs
      /\ \A d \in DOMAIN pairs : d # c => pairs'[d] = pairs[d]
      /\ \A d \in DOMAIN pairs : pairs'[d].proc = pairs[d].proc
  BY <1>1, <1>2, <1>3, <1>4
<1>6. /\ incoming' \in Seq(Seq(Messages)) /\ Len(incoming') = Len(pairs)
      /\ DOMAIN incoming' = DOMAIN pairs /\ incoming'[c] = <<>>
      /\ \A d \in DOMAIN pairs : d # c => incoming'[d] = incoming[d]
  BY <1>1, <1>2, <1>4
<1>7. /\ DOMAIN connecting' \subseteq DOMAIN connecting
      /\ connecting' \in [DOMAIN connecting' -> Connecting] /\ Connecting' = Connecting
  <2>1. connecting \in [DOMAIN connecting -> Connecting]
    BY DEF BroadcastTypeOK
  <2> DEFINE S == Waiting(c)
  <2>. HIDE DEF S
  <2>2. /\ DOMAIN connecting' = DOMAIN connecting \ S
        /\ \A j \in DOMAIN connecting' : connecting'[j] = connecting[j]
        /\ connecting' = [j \in DOMAIN connecting \ S |-> connecting'[j]]
    BY <1>1, CallsEnded DEF S
  <2>3. Connecting' = Connecting
    BY <1>5 DEF Connecting
  <2>. QED
    BY <2>1, <2>2, <2>3
<1>8. /\ broadcasts' \in Seq(Broadcast) /\ DOMAIN broadcasts' = DOMAIN broadcasts
      /\ \A k \in DOMAIN broadcasts :
            /\ broadcasts'[k].left = broadcasts[k].left
            /\ broadcasts'[k].payload = broadcasts[k].payload
            /\ broadcasts'[k].state = broadcasts[k].state \/ broadcasts'[k].state = "rejected"
  <2> DEFINE hit(k) == broadcasts[k].state = "sent" /\ k \in Range(outgoing[c])
             b(k) == [broadcasts[k] EXCEPT !.state = "rejected"]
  <2>1. \A k \in DOMAIN broadcasts :
           /\ b(k) \in Broadcast /\ b(k).left = broadcasts[k].left
           /\ b(k).payload = broadcasts[k].payload /\ b(k).state = "rejected"
    BY <1>2 DEF Broadcast
  <2>2. broadcasts' = [k \in DOMAIN broadcasts |-> IF hit(k) THEN b(k) ELSE broadcasts[k]]
    BY <1>1 DEF RejectedBy
  <2>. HIDE DEF b, hit
  <2>3. /\ DOMAIN broadcasts' = 1 .. Len(broadcasts)
        /\ \A k \in 1 .. Len(broadcasts) :
              broadcasts'[k] = IF hit(k) THEN b(k) ELSE broadcasts[k]
    BY <1>2, <2>2
  <2>4. \A k \in 1 .. Len(broadcasts) : broadcasts'[k] \in Broadcast
    BY <1>2, <2>1, <2>3
  <2>5. broadcasts' \in [1 .. Len(broadcasts) -> Broadcast]
    BY <1>2, <2>2, <2>3, <2>4
  <2>6. broadcasts' \in Seq(Broadcast)
    BY <1>2, <2>5
  <2>. QED
    BY <1>2, <2>1, <2>3, <2>6
<1>9. current' \in [Procs -> 0 .. Len(pairs')] /\ online' \in [Procs -> BOOLEAN]
  BY <1>1, <1>2, <1>5 DEF BroadcastTypeOK
<1>10. Len(broadcasts') = Len(broadcasts)
  BY <1>2, <1>8
<1>11. BroadcastTypeOK'
  BY <1>1, <1>5, <1>6, <1>7, <1>8, <1>9, <1>10 DEF BroadcastTypeOK
<1>12. MessagesInv'
  BY <1>1, <1>2, <1>5, <1>6, <1>8, MessagesStay
<1>. QED
  BY <1>11, <1>12, DisconnectConnections DEF BroadcastInv

\* What a broadcast goes to: its queue, all queues or __control__, each once.
LEMMA ChannelsForFacts ==
    ASSUME BroadcastAssumption, NEW payload \in Payloads, NEW q \in Range(Queues)
    PROVE  /\ ChannelsFor(payload, q) \in Seq(Range(ListenChannels))
           /\ IsInjective(ChannelsFor(payload, q))
<1>1. /\ q \in Range(ListenChannels) /\ Control \in Range(ListenChannels)
      /\ Queues \in Seq(Range(ListenChannels)) /\ IsInjective(Queues)
  BY ChannelFacts
<1>2. payload[1] = "job" \/ payload[1] = "event" \/ payload[1] = "command"
  BY DEF Payloads
<1>3. \A x : x \in Range(ListenChannels) =>
         <<x>> \in Seq(Range(ListenChannels)) /\ IsInjective(<<x>>)
  BY DEF IsInjective
<1>4. CASE payload[1] = "job"
  <2>1. ChannelsFor(payload, q) = <<q>>
    BY <1>4 DEF ChannelsFor
  <2>. QED
    BY <1>1, <1>3, <2>1
<1>5. CASE payload[1] = "event"
  <2>1. ChannelsFor(payload, q) = Queues
    BY <1>5 DEF ChannelsFor
  <2>. QED
    BY <1>1, <2>1
<1>6. CASE payload[1] = "command"
  <2>1. ChannelsFor(payload, q) = <<Control>>
    BY <1>6 DEF ChannelsFor
  <2>. QED
    BY <1>1, <1>3, <2>1
<1>. QED
  BY <1>2, <1>4, <1>5, <1>6

\* The parts of the invariant when nothing is received or handled.
LEMMA SendingStep ==
    ASSUME BroadcastInv, BroadcastTypeOK',
           UNCHANGED <<connection, incoming, handled>>,
           DOMAIN broadcasts \subseteq DOMAIN broadcasts',
           SentOnce', \A c \in DOMAIN outgoing' : Range(outgoing'[c]) \subseteq DOMAIN broadcasts',
           \A j \in DOMAIN broadcasts' : InTurn(j)',
           \A msg : Behind(msg) => Behind(msg)'
    PROVE  BroadcastInv'
<1>1. UNCHANGED <<pairs, doubled>>
  BY DEF connection
<1>2. ConnectionsInv'
  BY ConnectionsStay DEF BroadcastInv
<1>3. \A c \in DOMAIN incoming : ComesOnce(c) => ComesOnce(c)'
  BY <1>1 DEF ComesOnce
<1>4. \A c \in DOMAIN incoming' : ComesOnce(c)' /\ \A msg \in Range(incoming'[c]) : Behind(msg)'
  BY <1>3 DEF BroadcastInv, MessagesInv
<1>5. \A p \in Procs : \A msg \in Range(handled'[p]) : Behind(msg)'
  BY DEF BroadcastInv, MessagesInv
<1>6. HandledOncePerChannel'
  BY <1>1 DEF BroadcastInv, MessagesInv, HandledOncePerChannel
<1>. QED
  BY <1>2, <1>4, <1>5, <1>6 DEF BroadcastInv, MessagesInv

\* A broadcast goes on: its next channel is one it has not been published to.
LEMMA ProceedsStep ==
    ASSUME BroadcastAssumption, BroadcastInv, NEW k \in 1 .. MaxBroadcasts, NEW sender \in Procs,
           NEW payload \in Payloads, NEW left \in Seq(Range(ListenChannels)),
           NEW calls \in Seq(Broadcast),
           IsInjective(left), DOMAIN calls = DOMAIN broadcasts \cup {k},
           \A j \in DOMAIN broadcasts : j # k => calls[j] = broadcasts[j],
           ~ Underway(k), \A msg : Behind(msg) /\ msg[1] = k => msg[2] \notin Range(left),
           Proceeds(k, sender, payload, left, calls),
           UNCHANGED <<connection, incoming, effects, handled>>
    PROVE  BroadcastInv'
<1> DEFINE sends == left # <<>> /\ CanPublish(sender)
           call == [sender |-> sender, payload |-> payload, left |-> left,
                    state |-> IF sends THEN "sent"
                              ELSE IF payload[1] = "job" THEN "pushing" ELSE "done"]
           d == current[sender]
<1>. BroadcastTypeOK /\ MessagesInv
  BY DEF BroadcastInv
<1>1. /\ broadcasts' = [calls EXCEPT ![k] = call]
      /\ outgoing' = IF sends THEN [outgoing EXCEPT ![d] = Append(@, k)] ELSE outgoing
      /\ queued' = queued
  BY DEF Proceeds
<1>2. /\ call \in Broadcast /\ call.payload = payload /\ call.left = left
      /\ call.state = IF sends THEN "sent" ELSE IF payload[1] = "job" THEN "pushing" ELSE "done"
  BY DEF Broadcast
<1>3. sends => left # <<>> /\ d \in DOMAIN pairs
  BY BroadcastFacts DEF CanPublish
<1>4. /\ outgoing \in Seq(Seq(1 .. MaxBroadcasts)) /\ Len(outgoing) = Len(pairs)
      /\ DOMAIN outgoing = DOMAIN pairs
  BY BroadcastFacts DEF BroadcastTypeOK
<1>. HIDE DEF sends, call, d
<1>5. /\ broadcasts' \in Seq(Broadcast) /\ DOMAIN broadcasts' = DOMAIN broadcasts \cup {k}
      /\ broadcasts'[k] = call /\ \A j \in DOMAIN broadcasts : j # k => broadcasts'[j] = broadcasts[j]
  <2>1. /\ k \in DOMAIN calls /\ calls \in Seq(Broadcast)
        /\ broadcasts' = [calls EXCEPT ![k] = call]
    BY <1>1
  <2>2. /\ broadcasts' \in Seq(Broadcast) /\ DOMAIN broadcasts' = DOMAIN calls
        /\ broadcasts'[k] = call /\ \A j \in DOMAIN calls : j # k => broadcasts'[j] = calls[j]
    <3>1. Len(calls) \in Nat /\ DOMAIN calls = 1 .. Len(calls) /\ calls \in [1 .. Len(calls) -> Broadcast]
      BY <2>1, LenProperties
    <3>2. broadcasts' \in [1 .. Len(calls) -> Broadcast]
      BY <1>2, <2>1, <3>1
    <3>3. broadcasts' \in Seq(Broadcast)
      BY <3>1, <3>2
    <3>. QED
      BY <2>1, <3>3
  <2>. QED
    BY <2>2
<1>6. /\ outgoing' \in Seq(Seq(1 .. MaxBroadcasts)) /\ Len(outgoing') = Len(pairs)
      /\ DOMAIN outgoing' = DOMAIN outgoing
      /\ \A c \in DOMAIN outgoing : c # d \/ ~ sends => outgoing'[c] = outgoing[c]
      /\ sends => /\ IsInjective(outgoing'[d]) /\ Range(outgoing'[d]) = Range(outgoing[d]) \cup {k}
  <2>1. CASE ~ sends
    BY <1>1, <1>4, <2>1
  <2>2. CASE sends
    <3> DEFINE own == outgoing[d]
               more == Append(own, k)
    <3>1. own \in Seq(1 .. MaxBroadcasts) /\ d \in DOMAIN outgoing
      BY <1>3, <1>4, <2>2, BroadcastFacts
    <3>2. IsInjective(own) /\ k \notin Range(own)
      BY <3>1 DEF MessagesInv, SentOnce, Underway
    <3>. HIDE DEF own
    <3>3. more \in Seq(1 .. MaxBroadcasts) /\ Range(more) = Range(own) \cup {k} /\ IsInjective(more)
      BY <3>1, <3>2, AppendFacts, InjectiveFacts
    <3>4. outgoing' = [outgoing EXCEPT ![d] = more]
      BY <1>1, <2>2 DEF own
    <3>. HIDE DEF more
    <3>5. /\ outgoing' \in Seq(Seq(1 .. MaxBroadcasts)) /\ Len(outgoing') = Len(outgoing)
          /\ DOMAIN outgoing' = DOMAIN outgoing /\ outgoing'[d] = more
          /\ \A c \in DOMAIN outgoing : c # d => outgoing'[c] = outgoing[c]
      BY <1>4, <3>1, <3>3, <3>4
    <3>. QED
      BY <1>4, <2>2, <3>3, <3>5 DEF own
  <2>. QED
    BY <2>1, <2>2
<1>7. queued' \subseteq 1 .. MaxBroadcasts
  BY <1>1 DEF BroadcastTypeOK
<1>8. UNCHANGED <<pairs, current, online, connecting, doubled, worker, failed, ticking>>
  BY DEF connection, effects
<1>9. Connecting' = Connecting
  BY <1>8 DEF Connecting
<1>10. BroadcastTypeOK'
  <2>1. Len(broadcasts') <= MaxBroadcasts
    <3>1. Len(broadcasts') \in Nat /\ DOMAIN broadcasts' = 1 .. Len(broadcasts')
      BY <1>5, LenProperties
    <3>2. Len(broadcasts) \in Nat /\ DOMAIN broadcasts = 1 .. Len(broadcasts)
          /\ Len(broadcasts) <= MaxBroadcasts /\ MaxBroadcasts \in Nat
      BY BroadcastFacts DEF BroadcastTypeOK, BroadcastAssumption
    <3>3. DOMAIN broadcasts' \subseteq 1 .. MaxBroadcasts
      BY <1>5, <3>2
    <3>4. CASE Len(broadcasts') = 0
      BY <3>2, <3>4
    <3>5. CASE Len(broadcasts') # 0
      <4>1. Len(broadcasts') \in DOMAIN broadcasts'
        BY <3>1, <3>5
      <4>. QED
        BY <3>2, <3>3, <4>1
    <3>. QED
      BY <3>4, <3>5
  <2>. QED
    BY <1>5, <1>6, <1>7, <1>8, <1>9, <2>1 DEF BroadcastTypeOK
<1>11. /\ \A j : j # k => (Underway(j)' <=> Underway(j))
       /\ Underway(k)' => sends
  <2>1. CASE ~ sends
    BY <1>6, <2>1 DEF Underway
  <2>2. CASE sends
    <3>1. d \in DOMAIN outgoing
      BY <1>3, <1>4, <2>2
    <3>2. \A j, c : j # k /\ c \in DOMAIN outgoing => (j \in Range(outgoing'[c]) <=> j \in Range(outgoing[c]))
      BY <1>6, <2>2, <3>1
    <3>. QED
      BY <1>6, <2>2, <3>2 DEF Underway
  <2>. QED
    BY <2>1, <2>2
<1>12. SentOnce'
  <2>1. \A c \in DOMAIN outgoing : k \notin Range(outgoing[c])
    BY DEF Underway
  <2>2. \A c \in DOMAIN outgoing' : IsInjective(outgoing'[c])
    BY <1>6 DEF MessagesInv, SentOnce
  <2>3. ASSUME NEW a \in DOMAIN outgoing', NEW b \in DOMAIN outgoing', a # b
        PROVE  Range(outgoing'[a]) \cap Range(outgoing'[b]) = {}
    <3>1. Range(outgoing[a]) \cap Range(outgoing[b]) = {}
      BY <1>6, <2>3 DEF MessagesInv, SentOnce
    <3>2. \A c \in DOMAIN outgoing : Range(outgoing'[c]) = Range(outgoing[c]) \/ c = d
      BY <1>6
    <3>3. \A c \in DOMAIN outgoing : Range(outgoing'[c]) \subseteq Range(outgoing[c]) \cup {k}
      BY <1>6, <3>2
    <3>4. a # d \/ b # d
      BY <2>3
    <3>. QED
      BY <1>6, <2>1, <3>1, <3>2, <3>3, <3>4
  <2>. QED
    BY <2>2, <2>3 DEF SentOnce
<1>13. \A c \in DOMAIN outgoing' : Range(outgoing'[c]) \subseteq DOMAIN broadcasts'
  BY <1>5, <1>6 DEF MessagesInv
<1>14. \A j \in DOMAIN broadcasts' : InTurn(j)'
  <2>1. InTurn(k)'
    BY <1>1, <1>2, <1>3, <1>5, <1>11 DEF InTurn
  <2>2. ASSUME NEW j \in DOMAIN broadcasts, j # k
        PROVE  InTurn(j)'
    <3>1. InTurn(j) /\ broadcasts'[j] = broadcasts[j] /\ (Underway(j)' <=> Underway(j))
          /\ queued \subseteq queued'
      BY <1>1, <1>5, <1>11, <2>2 DEF MessagesInv
    <3>. QED
      BY <3>1 DEF InTurn
  <2>. QED
    BY <1>5, <2>1, <2>2
<1>15. ASSUME NEW msg, Behind(msg)
       PROVE  Behind(msg)'
  <2>1. CASE msg[1] = k
    BY <1>2, <1>5, <1>15, <2>1 DEF Behind
  <2>2. CASE msg[1] # k
    <3>1. msg[1] \in DOMAIN broadcasts /\ broadcasts'[msg[1]] = broadcasts[msg[1]]
          /\ (Underway(msg[1])' <=> Underway(msg[1]))
      BY <1>5, <1>11, <1>15, <2>2 DEF Behind
    <3>. QED
      BY <1>5, <1>15, <3>1 DEF Behind
  <2>. QED
    BY <2>1, <2>2
<1>. QED
  BY <1>5, <1>10, <1>12, <1>13, <1>14, <1>15, SendingStep

\* A broadcast begins.
LEMMA BroadcastStep ==
    ASSUME BroadcastAssumption, BroadcastInv, NEW p \in Procs, NEW payload \in Payloads,
           NEW q \in Range(Queues), broadcast(p, payload, q)
    PROVE  BroadcastInv'
<1> DEFINE k == Len(broadcasts) + 1
           none == [sender |-> p, payload |-> payload, left |-> <<>>, state |-> "done"]
           calls == Append(broadcasts, none)
<1>. BroadcastTypeOK /\ MessagesInv
  BY DEF BroadcastInv
<1>1. /\ k <= MaxBroadcasts
      /\ Proceeds(k, p, payload, ChannelsFor(payload, q), calls)
      /\ UNCHANGED <<connection, incoming, effects, handled>>
  BY DEF broadcast
<1>2. none \in Broadcast
  BY DEF Broadcast
<1>3. broadcasts \in Seq(Broadcast) /\ MaxBroadcasts \in Nat
  BY DEF BroadcastTypeOK, BroadcastAssumption
<1>. HIDE DEF none
<1>4. /\ calls \in Seq(Broadcast) /\ Len(broadcasts) \in Nat
      /\ DOMAIN calls = 1 .. Len(broadcasts) + 1 /\ DOMAIN broadcasts = 1 .. Len(broadcasts)
      /\ \A j \in 1 .. Len(broadcasts) : calls[j] = broadcasts[j]
  BY <1>2, <1>3, AppendFacts
<1>5. k \in 1 .. MaxBroadcasts /\ k \notin DOMAIN broadcasts /\ DOMAIN calls = DOMAIN broadcasts \cup {k}
  BY <1>1, <1>3, <1>4
<1>6. ~ Underway(k)
  BY <1>5 DEF MessagesInv, Underway
<1>7. \A msg : Behind(msg) => msg[1] # k
  BY <1>5 DEF Behind
<1>8. ChannelsFor(payload, q) \in Seq(Range(ListenChannels)) /\ IsInjective(ChannelsFor(payload, q))
  BY ChannelsForFacts
<1> DEFINE left == ChannelsFor(payload, q)
<1>. HIDE DEF k, calls, left
<1>9. /\ k \in 1 .. MaxBroadcasts /\ left \in Seq(Range(ListenChannels)) /\ IsInjective(left)
      /\ calls \in Seq(Broadcast) /\ DOMAIN calls = DOMAIN broadcasts \cup {k}
      /\ \A j \in DOMAIN broadcasts : j # k => calls[j] = broadcasts[j]
      /\ Proceeds(k, p, payload, left, calls)
  BY <1>1, <1>4, <1>5, <1>8 DEF left
<1>. QED
  BY <1>1, <1>6, <1>7, <1>9, ProceedsStep

\* A PUBLISH is answered.
LEMMA ResumedStep ==
    ASSUME BroadcastAssumption, BroadcastInv, NEW k \in DOMAIN broadcasts, resumed(k)
    PROVE  BroadcastInv'
<1> DEFINE b == broadcasts[k]
<1>. BroadcastTypeOK /\ MessagesInv
  BY DEF BroadcastInv
<1>1. /\ b.state = "answered" /\ Proceeds(k, b.sender, b.payload, Tail(b.left), broadcasts)
      /\ UNCHANGED <<connection, incoming, effects, handled>>
  BY DEF resumed
<1>2. b \in Broadcast /\ InTurn(k)
  BY BroadcastFacts DEF MessagesInv
<1>3. /\ b.sender \in Procs /\ b.payload \in Payloads /\ b.left \in Seq(Range(ListenChannels))
      /\ IsInjective(b.left) /\ b.left # <<>> /\ ~ Underway(k)
  BY <1>1, <1>2 DEF InTurn, Broadcast
<1> DEFINE all == b.left
           left == Tail(all)
           sender == b.sender
           payload == b.payload
<1>4. \A msg : Behind(msg) /\ msg[1] = k => (msg[2] \in Range(all) => msg[2] = Head(all))
  BY DEF Behind
<1>5. /\ left \in Seq(Range(ListenChannels)) /\ IsInjective(left)
      /\ Head(all) \notin Range(left) /\ Range(left) \subseteq Range(all)
  <2>1. all \in Seq(Range(ListenChannels)) /\ all # <<>> /\ IsInjective(all)
    BY <1>3
  <2>. HIDE DEF all
  <2>. QED
    BY <2>1, TailFacts, InjectiveFacts
<1>6. k \in 1 .. MaxBroadcasts
  <2>1. Len(broadcasts) \in Nat /\ DOMAIN broadcasts = 1 .. Len(broadcasts) /\ MaxBroadcasts \in Nat
    BY BroadcastFacts DEF BroadcastAssumption
  <2>. QED
    BY <2>1 DEF BroadcastTypeOK
<1>7. /\ sender \in Procs /\ payload \in Payloads /\ broadcasts \in Seq(Broadcast)
      /\ Proceeds(k, sender, payload, left, broadcasts)
      /\ DOMAIN broadcasts = DOMAIN broadcasts \cup {k}
  BY <1>1, <1>3 DEF BroadcastTypeOK
<1>. HIDE DEF all, left, sender, payload
<1>8. \A msg : Behind(msg) /\ msg[1] = k => msg[2] \notin Range(left)
  BY <1>4, <1>5
<1>9. \A j \in DOMAIN broadcasts : j # k => broadcasts[j] = broadcasts[j]
  OBVIOUS
<1>. QED
  BY <1>1, <1>3, <1>5, <1>6, <1>7, <1>8, <1>9, ProceedsStep

\* The local queue has taken the job, or the call fails.
LEMMA PushEndsStep ==
    ASSUME BroadcastAssumption, BroadcastInv, NEW k \in DOMAIN broadcasts,
           NEW state \in {"done", "rejected"}, PushEnds(k, state),
           queued' \in {queued, queued \cup {k}}, state = "done" => k \in queued'
    PROVE  BroadcastInv'
<1> DEFINE b == broadcasts[k]
           r == [b EXCEPT !.state = state]
<1>. BroadcastTypeOK /\ MessagesInv
  BY DEF BroadcastInv
<1>1. /\ b.state = "pushing" /\ broadcasts' = [broadcasts EXCEPT ![k] = r]
      /\ UNCHANGED <<connection, outgoing, incoming, worker, failed, ticking, handled>>
  BY DEF PushEnds, effects
<1>2. UNCHANGED <<pairs, current, online, connecting, doubled>>
  BY <1>1 DEF connection
<1>3. /\ b \in Broadcast /\ InTurn(k) /\ broadcasts \in Seq(Broadcast)
      /\ Len(broadcasts) \in Nat /\ DOMAIN broadcasts = 1 .. Len(broadcasts)
      /\ Len(broadcasts) <= MaxBroadcasts /\ MaxBroadcasts \in Nat
  BY BroadcastFacts DEF MessagesInv, BroadcastTypeOK, BroadcastAssumption
<1>4. r \in Broadcast /\ r.left = b.left /\ r.payload = b.payload /\ r.state = state
  BY <1>3 DEF Broadcast
<1>5. ~ Underway(k)
  BY <1>1, <1>3 DEF InTurn
<1>. HIDE DEF r
<1>6. /\ broadcasts' \in Seq(Broadcast) /\ Len(broadcasts') = Len(broadcasts)
      /\ DOMAIN broadcasts' = DOMAIN broadcasts /\ broadcasts'[k] = r
      /\ \A j \in DOMAIN broadcasts : j # k => broadcasts'[j] = broadcasts[j]
  <2>. HIDE DEF b
  <2>. QED
    BY <1>1, <1>3, <1>4
<1>7. \A j : Underway(j)' <=> Underway(j)
  BY <1>1 DEF Underway
<1>8. queued' \subseteq 1 .. MaxBroadcasts /\ queued \subseteq queued'
  BY <1>3 DEF BroadcastTypeOK
<1>9. BroadcastTypeOK'
  <2>1. Connecting' = Connecting
    BY <1>2 DEF Connecting
  <2>. QED
    BY <1>1, <1>2, <1>3, <1>6, <1>8, <2>1 DEF BroadcastTypeOK
<1>10. SentOnce' /\ \A c \in DOMAIN outgoing' : Range(outgoing'[c]) \subseteq DOMAIN broadcasts'
  BY <1>1, <1>6 DEF MessagesInv, SentOnce
<1>11. ASSUME NEW j \in DOMAIN broadcasts'
       PROVE  InTurn(j)'
  <2>1. j \in DOMAIN broadcasts /\ InTurn(j) /\ (Underway(j)' <=> Underway(j))
    BY <1>6, <1>7 DEF MessagesInv
  <2>2. CASE j = k
    BY <1>3, <1>4, <1>5, <1>6, <2>1, <2>2 DEF InTurn
  <2>3. CASE j # k
    BY <1>6, <1>8, <2>1, <2>3 DEF InTurn
  <2>. QED
    BY <2>2, <2>3
<1>12. ASSUME NEW msg, Behind(msg)
       PROVE  Behind(msg)'
  <2>1. msg[1] \in DOMAIN broadcasts /\ broadcasts'[msg[1]].left = broadcasts[msg[1]].left
    BY <1>4, <1>6, <1>12 DEF Behind
  <2>. QED
    BY <1>6, <1>7, <1>12, <2>1 DEF Behind
<1>. QED
  BY <1>1, <1>6, <1>9, <1>10, <1>11, <1>12, SendingStep

\* The oldest PUBLISH of a client leaves it, and was nowhere else.
LEMMA Dequeued ==
    ASSUME BroadcastTypeOK, SentOnce, NEW c \in DOMAIN outgoing, outgoing[c] # <<>>,
           outgoing' = [outgoing EXCEPT ![c] = Tail(@)]
    PROVE  /\ outgoing' \in Seq(Seq(1 .. MaxBroadcasts)) /\ Len(outgoing') = Len(outgoing)
           /\ DOMAIN outgoing' = DOMAIN outgoing
           /\ Head(outgoing[c]) \in Range(outgoing[c])
           /\ \A d \in DOMAIN outgoing' : Range(outgoing'[d]) \subseteq Range(outgoing[d])
           /\ SentOnce'
           /\ \A j : Underway(j)' <=> Underway(j) /\ j # Head(outgoing[c])
<1> DEFINE own == outgoing[c]
           rest == Tail(own)
<1>1. outgoing \in Seq(Seq(1 .. MaxBroadcasts)) /\ own \in Seq(1 .. MaxBroadcasts) /\ own # <<>>
  BY BroadcastFacts DEF BroadcastTypeOK
<1>2. IsInjective(own)
  BY DEF SentOnce
<1>3. outgoing' = [outgoing EXCEPT ![c] = rest]
  OBVIOUS
<1>. HIDE DEF own
<1>4. /\ rest \in Seq(1 .. MaxBroadcasts) /\ IsInjective(rest) /\ Head(own) \in Range(own)
      /\ Range(rest) = Range(own) \ {Head(own)}
  BY <1>1, <1>2, TailFacts, InjectiveFacts
<1>. HIDE DEF rest
<1>5. /\ outgoing' \in Seq(Seq(1 .. MaxBroadcasts)) /\ Len(outgoing') = Len(outgoing)
      /\ DOMAIN outgoing' = DOMAIN outgoing /\ outgoing'[c] = rest
      /\ \A d \in DOMAIN outgoing : d # c => outgoing'[d] = outgoing[d]
  BY <1>1, <1>3, <1>4
<1>6. \A d \in DOMAIN outgoing' : Range(outgoing'[d]) \subseteq Range(outgoing[d])
  BY <1>4, <1>5 DEF own
<1>7. SentOnce'
  <2>1. \A d \in DOMAIN outgoing' : IsInjective(outgoing'[d])
    BY <1>4, <1>5 DEF SentOnce
  <2>2. ASSUME NEW a \in DOMAIN outgoing', NEW b \in DOMAIN outgoing', a # b
        PROVE  Range(outgoing'[a]) \cap Range(outgoing'[b]) = {}
    <3>1. Range(outgoing[a]) \cap Range(outgoing[b]) = {}
      BY <1>5, <2>2 DEF SentOnce
    <3>. QED
      BY <1>6, <3>1
  <2>. QED
    BY <2>1, <2>2 DEF SentOnce
<1>8. ASSUME NEW j
      PROVE  Underway(j)' <=> Underway(j) /\ j # Head(own)
  <2>1. Underway(j)' => Underway(j)
    BY <1>5, <1>6 DEF Underway
  <2>2. \A d \in DOMAIN outgoing : d # c => Head(own) \notin Range(outgoing[d])
    BY <1>4 DEF SentOnce, own
  <2>3. j = Head(own) => ~ Underway(j)'
    BY <1>4, <1>5, <2>2 DEF Underway
  <2>4. ASSUME Underway(j), j # Head(own) PROVE Underway(j)'
    <3>1. PICK d \in DOMAIN outgoing : j \in Range(outgoing[d])
      BY <2>4 DEF Underway
    <3>2. CASE d = c
      <4>1. j \in Range(own)
        BY <3>1, <3>2 DEF own
      <4>2. j \in Range(outgoing'[c])
        BY <1>4, <1>5, <2>4, <4>1
      <4>. QED
        BY <1>5, <4>2 DEF Underway
    <3>3. CASE d # c
      <4>1. j \in Range(outgoing'[d])
        BY <1>5, <3>1, <3>3
      <4>. QED
        BY <1>5, <4>1 DEF Underway
    <3>. QED
      BY <3>2, <3>3
  <2>. QED
    BY <2>1, <2>3, <2>4
<1>. QED
  BY <1>4, <1>5, <1>6, <1>7, <1>8 DEF own

\* Redis passes a message on: it came to nobody before.
LEMMA PublishedStep ==
    ASSUME BroadcastAssumption, BroadcastInv, NEW c \in DOMAIN pairs, published(c)
    PROVE  BroadcastInv'
<1> DEFINE k == Head(outgoing[c])
           b == broadcasts[k]
           ch == Head(b.left)
           hears(d) == pairs[d].open /\ pairs[d].listeners[ch] > 0
           r == [b EXCEPT !.state = "answered"]
<1>. BroadcastTypeOK /\ MessagesInv
  BY DEF BroadcastInv
<1>0. PICK m : m = <<k, ch>>
  OBVIOUS
<1>1. /\ outgoing[c] # <<>> /\ outgoing' = [outgoing EXCEPT ![c] = Tail(@)]
      /\ incoming' = [d \in DOMAIN pairs |->
                        IF hears(d) THEN Append(incoming[d], m) ELSE incoming[d]]
      /\ broadcasts' = IF b.state = "sent" THEN [broadcasts EXCEPT ![k] = r] ELSE broadcasts
      /\ UNCHANGED <<connection, worker, failed, ticking, queued, handled>>
  BY <1>0 DEF published, effects
<1>2. UNCHANGED <<pairs, current, online, connecting, doubled>>
  BY <1>1 DEF connection
<1>3. /\ DOMAIN outgoing = DOMAIN pairs /\ DOMAIN incoming = DOMAIN pairs
      /\ DOMAIN pairs = 1 .. Len(pairs) /\ Len(pairs) \in Nat
      /\ \A d \in DOMAIN pairs : incoming[d] \in Seq(Messages)
      /\ \A j \in DOMAIN broadcasts : broadcasts[j] \in Broadcast
      /\ Len(broadcasts) \in Nat /\ DOMAIN broadcasts = 1 .. Len(broadcasts)
      /\ Len(broadcasts) <= MaxBroadcasts /\ MaxBroadcasts \in Nat
  BY BroadcastFacts DEF BroadcastTypeOK, BroadcastAssumption
<1>4. SentOnce
  BY DEF MessagesInv
<1>5. /\ outgoing' \in Seq(Seq(1 .. MaxBroadcasts)) /\ Len(outgoing') = Len(outgoing)
      /\ DOMAIN outgoing' = DOMAIN outgoing /\ k \in Range(outgoing[c])
      /\ \A d \in DOMAIN outgoing' : Range(outgoing'[d]) \subseteq Range(outgoing[d])
      /\ SentOnce' /\ \A j : Underway(j)' <=> Underway(j) /\ j # k
  BY <1>1, <1>3, <1>4, Dequeued
<1>6. k \in DOMAIN broadcasts /\ Underway(k) /\ b \in Broadcast /\ InTurn(k)
  BY <1>3, <1>5 DEF MessagesInv, Underway
<1>7. /\ b.left # <<>> /\ b.left \in Seq(Range(ListenChannels))
      /\ b.state = "sent" \/ b.state = "rejected"
  BY <1>6 DEF InTurn, Broadcast
<1>8. ch \in Range(ListenChannels) /\ ch \in Range(b.left)
  <2> DEFINE all == b.left
  <2>1. all \in Seq(Range(ListenChannels)) /\ all # <<>>
    BY <1>7
  <2>. HIDE DEF all
  <2>2. Head(all) \in Range(ListenChannels) /\ Head(all) \in Range(all)
    BY <2>1, TailFacts
  <2>. QED
    BY <2>2 DEF all
<1>9. m \in Messages /\ m[1] = k /\ m[2] = ch
  BY <1>0, <1>3, <1>6, <1>8 DEF Messages
<1>10. r \in Broadcast /\ r.left = b.left /\ r.payload = b.payload /\ r.state = "answered"
  BY <1>6 DEF Broadcast
<1>. HIDE DEF hears, r, ch, k
<1>11. /\ broadcasts' \in Seq(Broadcast) /\ Len(broadcasts') = Len(broadcasts)
       /\ DOMAIN broadcasts' = DOMAIN broadcasts
       /\ \A j \in DOMAIN broadcasts : j # k => broadcasts'[j] = broadcasts[j]
       /\ broadcasts'[k].left = b.left /\ broadcasts'[k].payload = b.payload
       /\ broadcasts'[k].state \in {"answered", "rejected"}
  <2>1. broadcasts \in Seq(Broadcast)
    BY DEF BroadcastTypeOK
  <2>2. CASE b.state = "sent"
    <3>1. broadcasts' = [broadcasts EXCEPT ![k] = r]
      BY <1>1, <2>2
    <3>. HIDE DEF b
    <3>. QED
      BY <1>6, <1>10, <2>1, <3>1
  <2>3. CASE b.state # "sent"
    BY <1>1, <1>7, <2>1, <2>3
  <2>. QED
    BY <2>2, <2>3
<1>. HIDE DEF b
<1>12. /\ \A d \in DOMAIN pairs : incoming'[d] = IF hears(d) THEN Append(incoming[d], m) ELSE incoming[d]
       /\ DOMAIN incoming' = DOMAIN pairs
  BY <1>1
<1>13. \A d \in DOMAIN pairs :
          /\ Append(incoming[d], m) \in Seq(Messages)
          /\ Range(Append(incoming[d], m)) = Range(incoming[d]) \cup {m}
          /\ IsInjective(incoming[d]) /\ m \notin Range(incoming[d]) =>
                IsInjective(Append(incoming[d], m))
  BY <1>3, <1>9, AppendFacts, InjectiveFacts
<1>14. incoming' \in Seq(Seq(Messages)) /\ Len(incoming') = Len(pairs)
  <2>1. \A d \in DOMAIN pairs : incoming'[d] \in Seq(Messages)
    BY <1>3, <1>12, <1>13
  <2>2. incoming' = [d \in 1 .. Len(pairs) |-> incoming'[d]]
    BY <1>1, <1>3, <1>12
  <2> DEFINE S == Seq(Messages)
             n == Len(pairs)
  <2>3. incoming' \in [1 .. n -> S] /\ n \in Nat
    BY <1>3, <2>1, <2>2
  <2>. HIDE DEF S, n
  <2>4. incoming' \in Seq(S) /\ Len(incoming') = n
    BY <2>3
  <2>. QED
    BY <2>4 DEF S, n
<1>15. BroadcastTypeOK'
  <2>1. Connecting' = Connecting
    BY <1>2 DEF Connecting
  <2>. QED
    BY <1>1, <1>2, <1>5, <1>11, <1>14, <2>1 DEF BroadcastTypeOK
<1>16. ConnectionsInv'
  BY <1>1, ConnectionsStay DEF BroadcastInv
<1>17. ASSUME NEW j \in DOMAIN broadcasts'
       PROVE  InTurn(j)'
  <2>1. j \in DOMAIN broadcasts /\ InTurn(j)
    BY <1>11 DEF MessagesInv
  <2>2. CASE j = k
    BY <1>5, <1>7, <1>11, <2>1, <2>2 DEF InTurn, b
  <2>3. CASE j # k
    BY <1>1, <1>5, <1>11, <2>1, <2>3 DEF InTurn
  <2>. QED
    BY <2>2, <2>3
<1>18. \A msg : Behind(msg) => Behind(msg)'
  <2>. SUFFICES ASSUME NEW msg, Behind(msg)
                PROVE  Behind(msg)'
    OBVIOUS
  <2>1. CASE msg[1] = k
    BY <1>5, <1>11, <2>1 DEF Behind, b
  <2>2. CASE msg[1] # k
    <3>1. msg[1] \in DOMAIN broadcasts /\ broadcasts'[msg[1]] = broadcasts[msg[1]]
          /\ (Underway(msg[1])' <=> Underway(msg[1]))
      BY <1>5, <1>11, <2>2 DEF Behind
    <3>. QED
      BY <1>11, <3>1 DEF Behind
  <2>. QED
    BY <2>1, <2>2
<1>19. Behind(m)' /\ ~ Behind(m)
  BY <1>5, <1>6, <1>8, <1>9, <1>11 DEF Behind, b, ch
<1>20. ASSUME NEW d \in DOMAIN incoming'
       PROVE  ComesOnce(d)' /\ \A msg \in Range(incoming'[d]) : Behind(msg)'
  <2>1. /\ d \in DOMAIN pairs /\ ComesOnce(d) /\ \A msg \in Range(incoming[d]) : Behind(msg)
        /\ pairs[d].proc \in Procs
    BY <1>3, <1>12, BroadcastFacts DEF MessagesInv, Client
  <2>2. m \notin Range(incoming[d]) /\ m \notin Range(handled[pairs[d].proc])
    BY <1>19, <2>1 DEF MessagesInv
  <2>3. CASE hears(d)
    <3>1. incoming'[d] = Append(incoming[d], m)
      BY <1>12, <2>1, <2>3
    <3>2. Range(incoming'[d]) = Range(incoming[d]) \cup {m} /\ IsInjective(incoming'[d])
      BY <1>13, <2>1, <2>2, <3>1 DEF ComesOnce
    <3>3. pairs[d].open
      BY <2>3 DEF hears
    <3>. QED
      BY <1>1, <1>2, <1>18, <1>19, <2>1, <2>2, <3>2, <3>3 DEF ComesOnce
  <2>4. CASE ~ hears(d)
    <3>1. incoming'[d] = incoming[d]
      BY <1>12, <2>1, <2>4
    <3>. QED
      BY <1>1, <1>2, <1>18, <2>1, <3>1 DEF ComesOnce
  <2>. QED
    BY <2>3, <2>4
<1>21. \A p \in Procs : \A msg \in Range(handled'[p]) : Behind(msg)'
  BY <1>1, <1>18 DEF MessagesInv
<1>22. HandledOncePerChannel'
  BY <1>1, <1>2 DEF MessagesInv, HandledOncePerChannel
<1>23. \A d \in DOMAIN outgoing' : Range(outgoing'[d]) \subseteq DOMAIN broadcasts'
  BY <1>5, <1>11 DEF MessagesInv
<1>24. MessagesInv'
  BY <1>5, <1>17, <1>20, <1>21, <1>22, <1>23 DEF MessagesInv
<1>. QED
  BY <1>15, <1>16, <1>24 DEF BroadcastInv

\* What a closed client had not got to Redis is lost.
LEMMA UndeliveredStep ==
    ASSUME BroadcastAssumption, BroadcastInv, NEW c \in DOMAIN pairs, undelivered(c)
    PROVE  BroadcastInv'
<1>. BroadcastTypeOK /\ MessagesInv
  BY DEF BroadcastInv
<1>1. /\ outgoing[c] # <<>> /\ outgoing' = [outgoing EXCEPT ![c] = Tail(@)]
      /\ UNCHANGED <<connection, broadcasts, incoming, worker, failed, ticking, queued, handled>>
  BY DEF undelivered, effects
<1>2. c \in DOMAIN outgoing /\ SentOnce
  BY BroadcastFacts DEF MessagesInv
<1>3. /\ outgoing' \in Seq(Seq(1 .. MaxBroadcasts)) /\ Len(outgoing') = Len(outgoing)
      /\ DOMAIN outgoing' = DOMAIN outgoing
      /\ \A d \in DOMAIN outgoing' : Range(outgoing'[d]) \subseteq Range(outgoing[d])
      /\ SentOnce' /\ \A j : Underway(j)' => Underway(j)
  BY <1>1, <1>2, Dequeued
<1>4. UNCHANGED <<pairs, current, online, connecting, doubled>>
  BY <1>1 DEF connection
<1>5. BroadcastTypeOK'
  <2>1. Connecting' = Connecting
    BY <1>4 DEF Connecting
  <2>. QED
    BY <1>1, <1>3, <1>4, <2>1 DEF BroadcastTypeOK
<1>6. \A d \in DOMAIN outgoing' : Range(outgoing'[d]) \subseteq DOMAIN broadcasts'
  BY <1>1, <1>3 DEF MessagesInv
<1>7. \A j \in DOMAIN broadcasts' : InTurn(j)'
  BY <1>1, <1>3 DEF MessagesInv, InTurn
<1>8. \A msg : Behind(msg) => Behind(msg)'
  BY <1>1, <1>3 DEF Behind
<1>. QED
  BY <1>1, <1>3, <1>5, <1>6, <1>7, <1>8, SendingStep

\* A command starts or stops the worker or the timers, or empties the failed jobs.
LEMMA CommandTypes ==
    ASSUME BroadcastTypeOK, NEW p \in Procs, NEW command, handleCommand(p, command)
    PROVE  {worker', failed', ticking'} \subseteq [Procs -> BOOLEAN]
<1>1. /\ worker \in [Procs -> BOOLEAN] /\ failed \in [Procs -> BOOLEAN]
      /\ ticking \in [Procs -> BOOLEAN]
  BY DEF BroadcastTypeOK
<1>2. failed' \in [Procs -> BOOLEAN] /\ ticking' \in [Procs -> BOOLEAN]
  BY <1>1 DEF handleCommand
<1>3. CASE command = "worker:stop"
  <2>1. worker' = [worker EXCEPT ![p] = FALSE]
    BY <1>3 DEF handleCommand
  <2>. QED
    BY <1>1, <1>2, <2>1
<1>4. CASE command = "worker:start"
  <2>1. worker' = [worker EXCEPT ![p] = TRUE]
    BY <1>4 DEF handleCommand
  <2>. QED
    BY <1>1, <1>2, <2>1
<1>5. CASE command # "worker:stop" /\ command # "worker:start"
  <2>1. worker' = worker
    BY <1>5 DEF handleCommand
  <2>. QED
    BY <1>1, <1>2, <2>1
<1>. QED
  BY <1>3, <1>4, <1>5

\* The client a connected process is reached through has one listener on each
\* channel at the most.
LEMMA OneListener ==
    ASSUME BroadcastAssumption, BroadcastInv, NEW c \in DOMAIN pairs, NEW p \in Procs,
           pairs[c].proc = p, p \notin doubled, pairs[c].open,
           NEW ch \in Range(ListenChannels)
    PROVE  /\ pairs[c].listeners[ch] = 0 \/ pairs[c].listeners[ch] = 1
           /\ \A d \in DOMAIN pairs : pairs[d].proc = p /\ pairs[d].open => d = c
<1>1. Connected(p)
  BY DEF BroadcastInv, ConnectionsInv
<1>2. c \in Own(p) /\ c # 0
  BY BroadcastFacts DEF Own, BroadcastInv
<1>3. current[p] = c /\ \A d \in DOMAIN pairs : pairs[d].proc = p /\ pairs[d].open => d = c
  BY <1>1, <1>2 DEF Connected, Own
<1>4. PICK i \in DOMAIN ListenChannels : ListenChannels[i] = ch
  BY DEF Range
<1>5. \E n : pairs[c].listeners[ListenChannels[i]] = IF i < n THEN 1 ELSE 0
  <2>1. CASE online[p]
    BY <1>1, <1>2, <1>3, <2>1 DEF Connected
  <2>2. CASE ~ online[p]
    BY <1>1, <1>2, <1>3, <2>2 DEF Connected
  <2>. QED
    BY <2>1, <2>2
<1>. QED
  BY <1>3, <1>4, <1>5

\* A message is handled, for the first time unless calls of connect() overlapped.
LEMMA HandleMessageStep ==
    ASSUME BroadcastAssumption, BroadcastInv, NEW c \in DOMAIN pairs, handleMessage(c)
    PROVE  BroadcastInv'
<1> DEFINE own == incoming[c]
           b == broadcasts[Head(own)[1]]
           rest == Tail(own)
<1>. BroadcastTypeOK /\ MessagesInv
  BY DEF BroadcastInv
<1>0. PICK p \in Procs : p = pairs[c].proc
  BY BroadcastFacts DEF Client
<1>m. PICK m : m = Head(own)
  OBVIOUS
<1> DEFINE times == IF b.sender = p THEN 0 ELSE pairs[c].listeners[m[2]]
           done == handled[p] \o [i \in 1 .. times |-> m]
<1>1. /\ pairs[c].open /\ own # <<>> /\ incoming' = [incoming EXCEPT ![c] = rest]
      /\ handled' = [handled EXCEPT ![p] = done]
      /\ \/ handleCommand(p, b.payload[2])
         \/ UNCHANGED <<worker, failed, ticking>>
      /\ UNCHANGED <<connection, broadcasts, outgoing, queued>>
  BY <1>0, <1>m DEF handleMessage, effects
<1>2. UNCHANGED <<pairs, current, online, connecting, doubled>>
  BY <1>1 DEF connection
<1>3. /\ DOMAIN incoming = DOMAIN pairs /\ own \in Seq(Messages) /\ handled[p] \in Seq(Messages)
      /\ pairs[c] \in Client
      /\ \A q \in Procs : handled[q] \in Seq(Messages)
  BY BroadcastFacts
<1>4. /\ incoming \in Seq(Seq(Messages)) /\ Len(incoming) = Len(pairs)
      /\ handled \in [Procs -> Seq(Messages)]
  BY DEF BroadcastTypeOK
<1>5. /\ ComesOnce(c) /\ \A msg \in Range(own) : Behind(msg)
  BY <1>3 DEF MessagesInv
<1>6. IsInjective(own)
  BY <1>5 DEF ComesOnce
<1>. HIDE DEF own
<1>7. /\ m \in Messages /\ m \in Range(own) /\ rest \in Seq(Messages) /\ IsInjective(rest)
      /\ Range(rest) = Range(own) \ {m}
  BY <1>0, <1>m, <1>1, <1>3, <1>6, TailFacts, InjectiveFacts
<1>. HIDE DEF rest
<1>8. m[2] \in Range(ListenChannels)
  BY <1>7 DEF Messages
<1>9. pairs[c].listeners[m[2]] \in Nat
  BY <1>3, <1>8 DEF Client
<1>10. times \in Nat /\ (times = 0 \/ times = pairs[c].listeners[m[2]])
  BY <1>9
<1>11. p \notin doubled =>
          /\ times = 0 \/ times = 1
          /\ \A d \in DOMAIN pairs : pairs[d].proc = p /\ pairs[d].open => d = c
  BY <1>0, <1>m, <1>1, <1>8, <1>10, OneListener
<1>. HIDE DEF times, b
<1>12. /\ done \in Seq(Messages) /\ Range(done) \subseteq Range(handled[p]) \cup {m}
       /\ times = 0 => done = handled[p]
       /\ times = 1 /\ IsInjective(handled[p]) /\ m \notin Range(handled[p]) => IsInjective(done)
  BY ZenonT(40), <1>3, <1>7, <1>10, CopiesFacts
<1>. HIDE DEF done
<1>13. /\ incoming' \in Seq(Seq(Messages)) /\ Len(incoming') = Len(pairs)
       /\ DOMAIN incoming' = DOMAIN pairs /\ incoming'[c] = rest
       /\ \A d \in DOMAIN pairs : d # c => incoming'[d] = incoming[d]
  BY <1>1, <1>3, <1>4, <1>7
<1>14. /\ handled' \in [Procs -> Seq(Messages)] /\ handled'[p] = done
       /\ \A q \in Procs : q # p => handled'[q] = handled[q]
  BY <1>1, <1>4, <1>12
<1>15. {worker', failed', ticking'} \subseteq [Procs -> BOOLEAN]
  <2>1. CASE handleCommand(p, b.payload[2])
    <3> DEFINE command == b.payload[2]
    <3>1. handleCommand(p, command)
      BY <2>1
    <3>. HIDE DEF command
    <3>. QED
      BY <3>1, CommandTypes
  <2>2. CASE UNCHANGED <<worker, failed, ticking>>
    BY <2>2 DEF BroadcastTypeOK
  <2>. QED
    BY <1>1, <2>1, <2>2
<1>16. BroadcastTypeOK'
  <2>1. Connecting' = Connecting
    BY <1>2 DEF Connecting
  <2>. QED
    BY <1>1, <1>2, <1>13, <1>14, <1>15, <2>1 DEF BroadcastTypeOK
<1>17. ConnectionsInv'
  BY <1>1, ConnectionsStay DEF BroadcastInv
<1>18. /\ \A j : Underway(j)' <=> Underway(j)
       /\ \A msg : Behind(msg) => Behind(msg)'
  BY <1>1 DEF Underway, Behind
<1>19. SentOnce' /\ \A d \in DOMAIN outgoing' : Range(outgoing'[d]) \subseteq DOMAIN broadcasts'
  BY <1>1 DEF MessagesInv, SentOnce
<1>20. \A j \in DOMAIN broadcasts' : InTurn(j)'
  BY <1>1, <1>18 DEF MessagesInv, InTurn
<1>21. p \notin doubled => m \notin Range(handled[p])
  BY <1>0, <1>m, <1>5, <1>7 DEF ComesOnce, own
<1>22. ASSUME NEW d \in DOMAIN incoming'
       PROVE  ComesOnce(d)' /\ \A msg \in Range(incoming'[d]) : Behind(msg)'
  <2>1. d \in DOMAIN pairs /\ ComesOnce(d) /\ \A msg \in Range(incoming[d]) : Behind(msg)
    BY <1>3, <1>13, <1>22 DEF MessagesInv
  <2>2. CASE d = c
    <3>1. p \notin doubled => Range(rest) \cap Range(done) = {}
      <4>1. p \notin doubled => Range(own) \cap Range(handled[p]) = {}
        BY <1>0, <1>m, <1>5 DEF ComesOnce, own
      <4>. QED
        BY <1>7, <1>12, <4>1
    <3>2. ComesOnce(c)'
      BY <1>0, <1>m, <1>1, <1>2, <1>7, <1>13, <1>14, <3>1 DEF ComesOnce
    <3>. QED
      BY <1>5, <1>7, <1>13, <1>18, <2>2, <3>2
  <2>3. CASE d # c
    <3>1. incoming'[d] = incoming[d]
      BY <1>13, <2>1, <2>3
    <3>2. CASE pairs[d].proc # p
      <4>1. handled'[pairs[d].proc] = handled[pairs[d].proc]
        BY <1>14, <2>1, <3>2, BroadcastFacts DEF Client
      <4>. QED
        BY <1>2, <1>18, <2>1, <3>1, <4>1 DEF ComesOnce
    <3>3. CASE pairs[d].proc = p
      <4>1. p \notin doubled => ~ pairs[d].open /\ incoming[d] = <<>>
        BY <1>11, <2>1, <2>3, <3>3 DEF ComesOnce
      <4>2. Range(<<>>) = {}
        BY DEF Range
      <4>. QED
        BY <1>2, <1>18, <2>1, <3>1, <3>3, <4>1, <4>2 DEF ComesOnce
    <3>. QED
      BY <3>2, <3>3
  <2>. QED
    BY <2>2, <2>3
<1>23. ASSUME NEW q \in Procs, NEW msg \in Range(handled'[q])
       PROVE  Behind(msg)'
  <2>1. Behind(m)
    BY <1>5, <1>7
  <2>2. CASE q = p
    BY <1>12, <1>14, <1>18, <1>23, <2>1, <2>2 DEF MessagesInv
  <2>3. CASE q # p
    BY <1>14, <1>18, <1>23, <2>3 DEF MessagesInv
  <2>. QED
    BY <2>2, <2>3
<1>24. HandledOncePerChannel'
  <2>1. ASSUME NEW q \in Procs \ doubled' PROVE IsInjective(handled'[q])
    <3>1. q \notin doubled /\ IsInjective(handled[q])
      BY <1>2, <2>1 DEF MessagesInv, HandledOncePerChannel
    <3>2. CASE q = p
      BY <1>11, <1>12, <1>14, <1>21, <3>1, <3>2
    <3>3. CASE q # p
      BY <1>14, <3>1, <3>3
    <3>. QED
      BY <3>2, <3>3
  <2>. QED
    BY <2>1 DEF HandledOncePerChannel
<1>25. MessagesInv'
  BY <1>19, <1>20, <1>22, <1>23, <1>24 DEF MessagesInv
<1>. QED
  BY <1>16, <1>17, <1>25 DEF BroadcastInv

-----------------------------------------------------------------------------
(* Broadcast queue: theorems.                                              *)

\* Nobody has connected.
LEMMA BroadcastInvInit == ASSUME BroadcastAssumption, BroadcastInit PROVE BroadcastInv
<1>1. /\ pairs = <<>> /\ outgoing = <<>> /\ incoming = <<>> /\ broadcasts = <<>>
      /\ connecting = <<>> /\ doubled = {} /\ queued = {}
      /\ \A p \in Procs : current[p] = 0 /\ ~ online[p] /\ handled[p] = <<>>
      /\ DOMAIN pairs = {} /\ DOMAIN outgoing = {} /\ DOMAIN incoming = {}
      /\ DOMAIN broadcasts = {} /\ DOMAIN connecting = {}
  BY DEF BroadcastInit
<1>2. BroadcastTypeOK
  <2>1. /\ current \in [Procs -> 0 .. Len(pairs)] /\ online \in [Procs -> BOOLEAN]
        /\ handled \in [Procs -> Seq(Messages)]
        /\ {worker, failed, ticking} \subseteq [Procs -> BOOLEAN]
    BY <1>1 DEF BroadcastInit
  <2>2. /\ pairs \in Seq(Client) /\ broadcasts \in Seq(Broadcast)
        /\ outgoing \in Seq(Seq(1 .. MaxBroadcasts)) /\ incoming \in Seq(Seq(Messages))
    BY <1>1
  <2>3. connecting \in [DOMAIN connecting -> Connecting]
    BY <1>1
  <2>4. /\ Len(broadcasts) <= MaxBroadcasts /\ Len(outgoing) = Len(pairs)
        /\ Len(incoming) = Len(pairs)
    BY <1>1 DEF BroadcastAssumption
  <2>. QED
    BY <1>1, <2>1, <2>2, <2>3, <2>4 DEF BroadcastTypeOK
<1>3. ConnectionsInv
  BY <1>1 DEF ConnectionsInv, Owned, Connected, Own, Calls
<1>4. MessagesInv
  <2>1. \A p \in Procs : Range(handled[p]) = {} /\ IsInjective(handled[p])
    BY <1>1 DEF Range, IsInjective
  <2>. QED
    BY <1>1, <2>1 DEF MessagesInv, SentOnce, HandledOncePerChannel
<1>. QED
  BY <1>2, <1>3, <1>4 DEF BroadcastInv

\* Every step keeps the invariant.
LEMMA BroadcastInvStep ==
    ASSUME BroadcastAssumption, BroadcastInv, [BroadcastNext]_broadcastVars
    PROVE  BroadcastInv'
<1>1. CASE UNCHANGED broadcastVars
  <2>1. UNCHANGED <<connection, broadcasts, outgoing, incoming, worker, failed, ticking, queued,
                    handled>>
    BY <1>1 DEF broadcastVars, effects
  <2>2. UNCHANGED <<pairs, current, online, connecting, doubled>>
    BY <2>1 DEF connection
  <2>3. Connecting' = Connecting
    BY <2>2 DEF Connecting
  <2>4. BroadcastTypeOK'
    BY <2>1, <2>2, <2>3 DEF BroadcastInv, BroadcastTypeOK
  <2>5. SentOnce' /\ \A c \in DOMAIN outgoing' : Range(outgoing'[c]) \subseteq DOMAIN broadcasts'
    BY <2>1 DEF BroadcastInv, MessagesInv, SentOnce
  <2>6. \A j \in DOMAIN broadcasts' : InTurn(j)'
    BY <2>1 DEF BroadcastInv, MessagesInv, InTurn, Underway
  <2>7. \A msg : Behind(msg) => Behind(msg)'
    BY <2>1 DEF Behind, Underway
  <2>. QED
    BY <2>1, <2>4, <2>5, <2>6, <2>7, SendingStep
<1>2. ASSUME NEW p \in Procs, connect(p) PROVE BroadcastInv'
  BY <1>2, ConnectStep
<1>3. ASSUME NEW p \in Procs, disconnect(p) PROVE BroadcastInv'
  BY <1>3, DisconnectStep
<1>4. ASSUME NEW p \in Procs, NEW payload \in Payloads, NEW q \in Range(Queues),
             broadcast(p, payload, q)
      PROVE  BroadcastInv'
  BY <1>4, BroadcastStep
<1>5. ASSUME NEW k \in DOMAIN connecting, subscribed(k) PROVE BroadcastInv'
  BY <1>5, SubscribedStep
<1>6. ASSUME NEW c \in DOMAIN pairs, published(c) PROVE BroadcastInv'
  BY <1>6, PublishedStep
<1>7. ASSUME NEW c \in DOMAIN pairs, undelivered(c) PROVE BroadcastInv'
  BY <1>7, UndeliveredStep
<1>8. ASSUME NEW c \in DOMAIN pairs, handleMessage(c) PROVE BroadcastInv'
  BY <1>8, HandleMessageStep
<1>9. ASSUME NEW k \in DOMAIN broadcasts, resumed(k) PROVE BroadcastInv'
  BY <1>9, ResumedStep
<1>10. ASSUME NEW k \in DOMAIN broadcasts, pushed(k) PROVE BroadcastInv'
  BY <1>10, PushEndsStep DEF pushed
<1>11. ASSUME NEW k \in DOMAIN broadcasts, pushRejected(k) PROVE BroadcastInv'
  BY <1>11, PushEndsStep DEF pushRejected
<1>. QED
  BY <1>1, <1>2, <1>3, <1>4, <1>5, <1>6, <1>7, <1>8, <1>9, <1>10, <1>11 DEF BroadcastNext

\* connect(), publish(), handleMessage(): a process whose calls of connect() do not
\* overlap has one client open, and a message comes to it once.
THEOREM BroadcastInvariant == ASSUME BroadcastAssumption PROVE BroadcastSpec => []BroadcastInv
<1>1. BroadcastInit => BroadcastInv
  BY BroadcastInvInit
<1>2. BroadcastInv /\ [BroadcastNext]_broadcastVars => BroadcastInv'
  BY BroadcastInvStep
<1>. QED
  BY <1>1, <1>2, PTL DEF BroadcastSpec

\* What connect(), publish() and broadcastJob() promise to the processes together.
THEOREM BroadcastsHandledHolds ==
    ASSUME BroadcastAssumption PROVE BroadcastSpec => []BroadcastsHandled
<1>1. ASSUME BroadcastInv PROVE BroadcastsHandled
  <2>1. HandledOncePerChannel
    BY <1>1 DEF BroadcastInv, MessagesInv
  <2>2. ASSUME NEW p \in Procs \ doubled, online[p]
        PROVE  /\ current[p] # 0
               /\ \A ch \in Range(ListenChannels) : pairs[current[p]].listeners[ch] = 1
    <3>1. Connected(p)
      BY <1>1 DEF BroadcastInv, ConnectionsInv
    <3>2. current[p] # 0
      BY <2>2, <3>1 DEF Connected
    <3>3. \A i \in DOMAIN ListenChannels :
             pairs[current[p]].listeners[ListenChannels[i]] =
                IF i < Len(ListenChannels) + 1 THEN 1 ELSE 0
      BY <2>2, <3>1, <3>2 DEF Connected
    <3>4. \A i \in DOMAIN ListenChannels : i < Len(ListenChannels) + 1
      BY ChannelFacts
    <3>. QED
      BY <3>2, <3>3, <3>4 DEF Range
  <2>3. \A p \in Procs \ doubled : \A c \in Own(p) : pairs[c].open => c = current[p]
    BY <1>1 DEF BroadcastInv, ConnectionsInv, Connected
  <2>4. AnnouncedJobsQueued
    <3>. SUFFICES ASSUME NEW p \in Procs, NEW msg \in Range(handled[p]),
                         broadcasts[msg[1]].payload[1] = "job",
                         broadcasts[msg[1]].state = "done"
                  PROVE  msg[1] \in queued
      BY DEF AnnouncedJobsQueued
    <3>1. Behind(msg)
      BY <1>1 DEF BroadcastInv, MessagesInv
    <3>2. InTurn(msg[1])
      BY <1>1, <3>1 DEF BroadcastInv, MessagesInv, Behind
    <3>. QED
      BY <3>2 DEF InTurn
  <2>. QED
    BY <2>1, <2>2, <2>3, <2>4 DEF BroadcastsHandled, ListensWhileConnected
<1>. QED
  BY <1>1, BroadcastInvariant, PTL

-----------------------------------------------------------------------------
(* Mail.                                                                   *)

\* The commands end with DATA, the content and the dot, and only the content is
\* not followed by a read.
LEMMA ScriptFacts ==
    ASSUME MailAssumption, NEW m \in MailMessages
    PROVE  /\ Script(m) \in Seq([say : Lines, read : BOOLEAN])
           /\ Len(Script(m)) \in Nat /\ Len(Script(m)) >= 5
           /\ Script(m)[Len(Script(m)) - 2].say = "DATA"
           /\ Script(m)[Len(Script(m)) - 1].say = "content"
           /\ Script(m)[Len(Script(m))].say = "."
           /\ \A k \in 1 .. Len(Script(m)) : Script(m)[k].read <=> k # Len(Script(m)) - 1
<1> DEFINE ask(word) == [say |-> word, read |-> word # "content"]
           Asked == [say : Lines, read : {TRUE}]
           Spoken == [say : Lines, read : BOOLEAN]
           login == IF Login THEN <<ask("AUTH"), ask("user"), ask("password")>> ELSE <<>>
           rcpt == [i \in 1 .. m.recipients |-> ask("RCPT")]
           start == <<ask("EHLO")>>
           from == <<ask("MAIL")>>
           before == ((start \o login) \o from) \o rcpt
           end == <<ask("DATA"), ask("content"), ask(".")>>
<1>1. m.recipients \in Nat
  BY DEF MailAssumption
<1>2. /\ ask("EHLO") \in Asked /\ ask("AUTH") \in Asked /\ ask("user") \in Asked
      /\ ask("password") \in Asked /\ ask("MAIL") \in Asked /\ ask("RCPT") \in Asked
  BY DEF Lines
<1>3. /\ ask("DATA") \in Spoken /\ ask("content") \in Spoken /\ ask(".") \in Spoken
      /\ ask("DATA").say = "DATA" /\ ask("content").say = "content" /\ ask(".").say = "."
      /\ ask("DATA").read = TRUE /\ ask("content").read = FALSE /\ ask(".").read = TRUE
  BY DEF Lines
<1>. HIDE DEF ask, Asked, Spoken
<1>4. start \in Seq(Asked) /\ from \in Seq(Asked) /\ Len(start) = 1 /\ Len(from) = 1
  BY <1>2
<1>5. login \in Seq(Asked)
  BY <1>2
<1>6. rcpt \in Seq(Asked)
  BY <1>1, <1>2
<1>7. /\ end \in Seq(Spoken) /\ Len(end) = 3
      /\ end[1].say = "DATA" /\ end[2].say = "content" /\ end[3].say = "."
      /\ end[1].read = TRUE /\ end[2].read = FALSE /\ end[3].read = TRUE
  BY <1>3
<1>8. Script(m) = before \o end
  BY DEF Script, ask
<1>9. Len(login) \in Nat /\ Len(rcpt) \in Nat
  BY <1>5, <1>6, LenProperties
<1>. HIDE DEF login, rcpt, start, from, end
<1>10. start \o login \in Seq(Asked) /\ Len(start \o login) = 1 + Len(login)
  BY <1>4, <1>5, <1>9, ConcatProperties
<1>11. /\ (start \o login) \o from \in Seq(Asked)
       /\ Len((start \o login) \o from) = 2 + Len(login)
  <2> DEFINE u == start \o login
  <2>1. u \in Seq(Asked) /\ Len(u) = 1 + Len(login)
    BY <1>10
  <2>. HIDE DEF u
  <2>2. u \o from \in Seq(Asked) /\ Len(u \o from) = Len(u) + Len(from)
    BY <1>4, <2>1, ConcatProperties
  <2>3. Len(u \o from) = 2 + Len(login)
    BY <1>4, <1>9, <2>1, <2>2
  <2>. QED
    BY <2>2, <2>3 DEF u
<1>12. /\ before \in Seq(Asked) /\ Len(before) = (2 + Len(login)) + Len(rcpt)
  <2> DEFINE u == (start \o login) \o from
  <2>1. u \in Seq(Asked) /\ Len(u) = 2 + Len(login)
    BY <1>11
  <2>. HIDE DEF u
  <2>2. u \o rcpt \in Seq(Asked) /\ Len(u \o rcpt) = Len(u) + Len(rcpt)
    BY <1>6, <2>1, ConcatProperties
  <2>. QED
    BY <2>1, <2>2 DEF u
<1>. HIDE DEF before
<1>13. /\ Len(before) \in Nat /\ Len(before) >= 2
       /\ \A k \in 1 .. Len(before) : before[k] \in Asked
  <2>1. \A k \in 1 .. Len(before) : before[k] \in Asked
    BY <1>12, ElementOfSeq
  <2>. QED
    BY <1>9, <1>12, <2>1
<1>14. before \in Seq(Spoken)
  <2>1. Asked \subseteq Spoken
    BY DEF Asked, Spoken
  <2>. QED
    BY <1>12, <2>1
<1> DEFINE script == before \o end
           n == Len(before)
<1>15. /\ script \in Seq(Spoken) /\ Len(script) = n + 3
       /\ \A k \in 1 .. n + 3 : script[k] = IF k <= n THEN before[k] ELSE end[k - n]
  <2>1. end \in Seq(Spoken) /\ Len(end) = 3
    BY <1>7
  <2>2. /\ script \in Seq(Spoken) /\ Len(script) = Len(before) + Len(end)
        /\ \A k \in 1 .. Len(before) + Len(end) :
              script[k] = IF k <= Len(before) THEN before[k] ELSE end[k - Len(before)]
    BY <1>14, <2>1, ConcatProperties
  <2>. QED
    BY <2>1, <2>2
<1>. HIDE DEF script, n
<1>16. n \in Nat /\ n >= 2 /\ \A k \in 1 .. n : before[k].read = TRUE
  BY <1>13 DEF Asked, n
<1>17. script[n + 1] = end[1] /\ script[n + 2] = end[2] /\ script[n + 3] = end[3]
  <2>1. n + 1 \in 1 .. n + 3 /\ n + 2 \in 1 .. n + 3 /\ n + 3 \in 1 .. n + 3
    BY <1>16
  <2>2. (n + 1) - n = 1 /\ (n + 2) - n = 2 /\ (n + 3) - n = 3
    BY <1>16
  <2>. QED
    BY <1>15, <1>16, <2>1, <2>2
<1>18. \A k \in 1 .. n : script[k].read = TRUE
  BY <1>15, <1>16
<1>19. /\ Len(script) - 2 = n + 1 /\ Len(script) - 1 = n + 2 /\ Len(script) >= 5
       /\ Len(script) \in Nat
  BY <1>15, <1>16
<1>20. ASSUME NEW k \in 1 .. Len(script)
       PROVE  script[k].read <=> k # n + 2
  <2>1. k \in 1 .. n \/ k = n + 1 \/ k = n + 2 \/ k = n + 3
    BY <1>15, <1>16
  <2>2. CASE k \in 1 .. n
    BY <1>16, <1>18, <2>2
  <2>3. CASE k \in {n + 1, n + 2, n + 3}
    BY <1>7, <1>16, <1>17, <2>3
  <2>. QED
    BY <2>1, <2>2, <2>3
<1>21. /\ script[Len(script) - 2].say = "DATA" /\ script[Len(script) - 1].say = "content"
       /\ script[Len(script)].say = "."
  BY <1>7, <1>15, <1>17, <1>19
<1>22. \A k \in 1 .. Len(script) : script[k].read <=> k # Len(script) - 1
  BY <1>19, <1>20
<1>23. Script(m) = script
  BY <1>8 DEF script
<1>. QED
  BY <1>15, <1>19, <1>21, <1>22, <1>23 DEF Spoken

\* What one call of send() writes after a read: a command, or the content and the dot.
LEMMA WritesFacts ==
    ASSUME MailAssumption, NEW m \in MailMessages, NEW k \in 1 .. Len(Script(m))
    PROVE  LET last == Len(Script(m))
               next == Writes(Script(m), k)
               said == [i \in DOMAIN next |-> next[i].say]
           IN
           /\ k # last - 1 => /\ Len(next) = 1 /\ said = <<Script(m)[k].say>>
                              /\ Script(m)[k].say \in Lines
                              /\ k = last - 2 => Script(m)[k].say = "DATA"
                              /\ k = last => Script(m)[k].say = "."
           /\ k = last - 1 => Len(next) = 2 /\ said = <<"content", ".">>
<1> DEFINE script == Script(m)
           last == Len(script)
           stop(j) == script[j].read /\ \A i \in k .. j - 1 : ~ script[i].read
           upTo == CHOOSE j \in k .. last : stop(j)
           next == Writes(script, k)
           said == [i \in DOMAIN next |-> next[i].say]
<1>1. /\ script \in Seq([say : Lines, read : BOOLEAN]) /\ last \in Nat /\ last >= 5
      /\ script[last - 2].say = "DATA" /\ script[last - 1].say = "content"
      /\ script[last].say = "."
      /\ \A j \in 1 .. last : script[j].read <=> j # last - 1
  BY ScriptFacts
<1>2. next = SubSeq(script, k, upTo)
  BY DEF Writes
<1>3. k \in Nat /\ k >= 1 /\ k <= last
  BY <1>1
<1>. HIDE DEF script, last, next
<1>4. \A j \in 1 .. last : script[j] \in [say : Lines, read : BOOLEAN]
  BY <1>1, ElementOfSeq DEF last
<1>8. ASSUME NEW j \in k .. last
      PROVE  LET part == SubSeq(script, k, j) IN
             /\ Len(part) = j - k + 1 /\ DOMAIN part = 1 .. j - k + 1
             /\ \A i \in 1 .. j - k + 1 : part[i] = script[k + i - 1]
  <2>1. \A i \in k .. j : script[i] \in [say : Lines, read : BOOLEAN]
    BY <1>1, <1>3, <1>4
  <2>2. k \in Int /\ j \in Int /\ k <= j
    BY <1>1, <1>3
  <2>. QED
    BY <2>1, <2>2, SubSeqProperties
<1>5. CASE k # last - 1
  <2>1. stop(k)
    BY <1>1, <1>3, <1>5
  <2>2. \A j \in k .. last : stop(j) => j = k
    <3> SUFFICES ASSUME NEW j \in k .. last, stop(j), j # k
                 PROVE  FALSE
      OBVIOUS
    <3>1. k \in k .. j - 1
      BY <1>1, <1>3
    <3>. QED
      BY <2>1, <3>1
  <2>3. k \in k .. last
    BY <1>1, <1>3
  <2>4. upTo = k
    <3>. HIDE DEF stop
    <3>. QED
      BY <2>1, <2>2, <2>3
  <2>5. Len(next) = 1 /\ DOMAIN next = 1 .. 1 /\ next[1] = script[k]
    <3>1. /\ Len(next) = k - k + 1 /\ DOMAIN next = 1 .. k - k + 1
          /\ \A i \in 1 .. k - k + 1 : next[i] = script[k + i - 1]
      <4> DEFINE part == SubSeq(script, k, k)
      <4>1. /\ Len(part) = k - k + 1 /\ DOMAIN part = 1 .. k - k + 1
            /\ \A i \in 1 .. k - k + 1 : part[i] = script[k + i - 1]
        BY <1>8, <2>3
      <4>2. next = part
        BY <1>2, <2>4
      <4>. QED
        BY <4>1, <4>2
    <3>2. k - k + 1 = 1 /\ k + 1 - 1 = k /\ 1 \in 1 .. 1
      BY <1>3
    <3>. QED
      BY <3>1, <3>2
  <2>6. said = <<script[k].say>>
    BY <2>5
  <2>7. /\ script[k].say \in Lines
        /\ k = last - 2 => script[k].say = "DATA"
        /\ k = last => script[k].say = "."
    BY <1>1, <1>3, <1>4
  <2>. QED
    BY <1>5, <2>5, <2>6, <2>7 DEF script, last, next
<1>6. CASE k = last - 1
  <2>1. stop(last)
    BY <1>1, <1>3, <1>6
  <2>2. \A j \in k .. last : stop(j) => j = last
    BY <1>1, <1>3, <1>6
  <2>3. last \in k .. last
    BY <1>1, <1>3
  <2>4. upTo = last
    <3>. HIDE DEF stop
    <3>. QED
      BY <2>1, <2>2, <2>3
  <2>5. /\ Len(next) = last - k + 1 /\ DOMAIN next = 1 .. last - k + 1
        /\ \A i \in 1 .. last - k + 1 : next[i] = script[k + i - 1]
    <3> DEFINE part == SubSeq(script, k, last)
    <3>1. /\ Len(part) = last - k + 1 /\ DOMAIN part = 1 .. last - k + 1
          /\ \A i \in 1 .. last - k + 1 : part[i] = script[k + i - 1]
      BY <1>8, <2>3
    <3>2. next = part
      BY <1>2, <2>4
    <3>. QED
      BY <3>1, <3>2
  <2>6. last - k + 1 = 2 /\ k + 1 - 1 = last - 1 /\ k + 2 - 1 = last
    <3>1. last \in Nat
      BY <1>1
    <3>. QED
      BY <1>6, <3>1
  <2>7. /\ Len(next) = 2 /\ DOMAIN next = 1 .. 2
        /\ next[1] = script[last - 1] /\ next[2] = script[last]
    <3>1. Len(next) = 2 /\ DOMAIN next = 1 .. 2
      BY <2>5, <2>6
    <3>2. 1 \in 1 .. last - k + 1 /\ 2 \in 1 .. last - k + 1
      BY <2>6
    <3>3. next[1] = script[k + 1 - 1] /\ next[2] = script[k + 2 - 1]
      BY <2>5, <3>2
    <3>. QED
      BY <2>6, <3>1, <3>3
  <2>8. said = <<next[1].say, next[2].say>>
    BY <2>7
  <2>9. said = <<"content", ".">>
    BY <1>1, <2>7, <2>8
  <2>. QED
    BY <1>6, <2>7, <2>9 DEF script, last, next
<1>. QED
  BY <1>5, <1>6 DEF script, last, next

\* What a call of send() and a connection are, field by field.
LEMMA CallForms ==
    ASSUME NEW c \in MailCall
    PROVE  /\ c.pc \in {"idle", "connecting", "reading", "writing", "running", "cleaning",
                        "answered"}
           /\ c.pc \in {"connecting", "reading", "writing", "running"} =>
                 c \in [pc : {"connecting", "reading", "writing", "running"},
                        message : MailMessages, step : Nat \ {0}, file : Nat, shared : BOOLEAN]
           /\ c.pc = "cleaning" =>
                 c \in [pc : {"cleaning"}, message : MailMessages, file : Nat, ok : BOOLEAN,
                        text : Senders, shared : BOOLEAN]
           /\ c.pc = "answered" =>
                 c \in [pc : {"answered"}, message : MailMessages, success : BOOLEAN,
                        delivered : SUBSET Senders, shared : BOOLEAN]
           /\ c.pc # "idle" => c.message \in MailMessages /\ c.shared \in BOOLEAN
           /\ c.pc = "idle" => c = NoMail
BY DEF MailCall, NoMail

\* What the variables hold.
LEMMA MailFacts ==
    ASSUME MailAssumption, MailTypeOK
    PROVE  /\ MaxMailClock \in Nat /\ mailClock \in Nat
           /\ mailDriver \in {"smtp", "sendmail", "shell", "log"}
           /\ DOMAIN mail = Senders /\ DOMAIN session = Senders
           /\ \A s \in Senders : mail[s] \in MailCall /\ session[s] \in Connection
           /\ \A f \in DOMAIN temporary : temporary[f] \in Senders
BY DEF MailAssumption, MailTypeOK

\* An answer ends one call and leaves the others alone.
LEMMA ResultFacts ==
    ASSUME MailAssumption, MailTypeOK, NEW s \in Senders, mail[s].pc # "idle",
           NEW success \in BOOLEAN, NEW delivered \in SUBSET Senders,
           MailResult(s, success, delivered)
    PROVE  /\ mail' \in [Senders -> MailCall]
           /\ \A t \in Senders \ {s} : mail'[t] = mail[t]
           /\ mail'[s].pc = "answered" /\ mail'[s].message = mail[s].message
           /\ mail'[s].success = success /\ mail'[s].delivered = delivered
           /\ mail'[s].shared = mail[s].shared
<1>1. mail[s].message \in MailMessages /\ mail[s].shared \in BOOLEAN
  BY CallForms, MailFacts
<1> DEFINE new == [pc |-> "answered", message |-> mail[s].message, success |-> success,
                   delivered |-> delivered, shared |-> mail[s].shared]
<1>2. new \in MailCall
  BY <1>1 DEF MailCall
<1>3. mail' = [mail EXCEPT ![s] = new]
  BY DEF MailResult
<1>. HIDE DEF new
<1>4. /\ mail' \in [Senders -> MailCall] /\ mail'[s] = new
      /\ \A t \in Senders \ {s} : mail'[t] = mail[t]
  BY <1>2, <1>3 DEF MailTypeOK
<1>. QED
  BY <1>4 DEF new

\* What one sender does, the files of the others being left alone or removed.
LEMMA MailInvKept ==
    ASSUME MailAssumption, MailInv, MailTypeOK', mailDriver' = mailDriver, NEW s \in Senders,
           \A t \in Senders \ {s} : mail'[t] = mail[t] /\ session'[t] = session[t],
           \A f \in DOMAIN temporary' : f \in DOMAIN temporary /\ temporary'[f] = temporary[f],
           mail'[s].pc \in {"idle", "answered"} \cup StagesOf[mailDriver],
           mailDriver = "smtp" => Conversation(mail'[s], session'[s]),
           mailDriver = "shell" /\ mail'[s].pc # "idle" => OwnFile(s)',
           mail'[s].pc = "answered" /\ mail'[s].success
              /\ mailDriver \in {"sendmail", "shell"} /\ ~ mail'[s].shared =>
                 mail'[s].delivered = {s}
    PROVE  MailInv'
<1>1. OwnTextSent'
  BY DEF MailInv, OwnTextSent, Succeeded
<1>2. \A t \in Senders : mail'[t].pc \in {"idle", "answered"} \cup StagesOf[mailDriver']
  BY DEF MailInv
<1>3. mailDriver' = "smtp" => \A t \in Senders : Conversation(mail'[t], session'[t])
  BY DEF MailInv
<1>4. ASSUME mailDriver' = "shell", NEW t \in Senders \ {s}, mail'[t].pc # "idle"
      PROVE  OwnFile(t)'
  <2>1. OwnFile(t)
    BY <1>4 DEF MailInv
  <2>. QED
    BY <1>4, <2>1 DEF OwnFile
<1>. QED
  BY <1>1, <1>2, <1>3, <1>4 DEF MailInv

\* send() starts from nothing.
LEMMA SendStep ==
    ASSUME MailAssumption, MailInv, NEW s \in Senders, NEW m \in MailMessages, send(s, m)
    PROVE  MailInv'
<1>1. /\ MailTypeOK /\ mailDriver \in {"smtp", "sendmail", "shell", "log"}
      /\ \A t \in Senders : mail[t] \in MailCall
  BY MailFacts DEF MailInv
<1>2. m.complete \in BOOLEAN
  BY DEF MailAssumption
<1> DEFINE answer(success) == [pc |-> "answered", message |-> m, success |-> success,
                               delivered |-> {}, shared |-> FALSE]
           begin(pc) == [pc |-> pc, message |-> m, step |-> 1, file |-> 0, shared |-> FALSE]
           first == CASE mailDriver = "smtp" -> "connecting"
                      [] mailDriver = "shell" -> "writing"
                      [] OTHER -> "running"
<1>3. /\ UNCHANGED <<mailDriver, mailClock, session, temporary, logFile>>
      /\ mail[s].pc = "idle" /\ logging' \subseteq logging \cup {s}
      /\ \/ ~ m.complete /\ mail' = [mail EXCEPT ![s] = answer(FALSE)]
         \/ mailDriver = "log" /\ mail' = [mail EXCEPT ![s] = answer(TRUE)]
         \/ mailDriver # "log" /\ mail' = [mail EXCEPT ![s] = begin(first)]
  <2>1. CASE ~ m.complete
    BY <2>1 DEF send
  <2>2. CASE m.complete /\ mailDriver = "log"
    BY <2>2 DEF send
  <2>3. CASE m.complete /\ mailDriver # "log"
    BY <2>3 DEF send, Taking
  <2>. QED
    BY <1>2, <2>1, <2>2, <2>3
<1>4. /\ answer(TRUE) \in MailCall /\ answer(FALSE) \in MailCall
      /\ mailDriver # "log" =>
            /\ begin(first) \in MailCall /\ begin(first).pc = first
            /\ first \in StagesOf[mailDriver] /\ first \in {"connecting", "writing", "running"}
            /\ mailDriver = "smtp" => first = "connecting"
            /\ mailDriver = "shell" => first = "writing"
  BY <1>1 DEF MailCall, StagesOf
<1>5. PICK c \in MailCall :
         /\ mail' = [mail EXCEPT ![s] = c]
         /\ \/ c = answer(TRUE)
            \/ c = answer(FALSE)
            \/ mailDriver # "log" /\ c = begin(first)
         /\ c = answer(TRUE) => mailDriver = "log"
  <2>1. answer(TRUE) # answer(FALSE)
    OBVIOUS
  <2>2. mailDriver # "log" => begin(first) # answer(TRUE)
    <3>1. answer(TRUE).pc = "answered"
      OBVIOUS
    <3>. QED
      BY <1>4, <3>1
  <2>. HIDE DEF answer, begin, first
  <2>3. CASE mail' = [mail EXCEPT ![s] = answer(FALSE)]
    <3>1. answer(FALSE) \in MailCall /\ answer(FALSE) # answer(TRUE)
      BY <1>4, <2>1
    <3>. QED
      BY <2>3, <3>1, Zenon
  <2>4. CASE mailDriver = "log" /\ mail' = [mail EXCEPT ![s] = answer(TRUE)]
    BY <1>4, <2>4, Zenon
  <2>5. CASE mailDriver # "log" /\ mail' = [mail EXCEPT ![s] = begin(first)]
    BY <1>4, <2>2, <2>5, Zenon
  <2>. QED
    BY <1>3, <2>3, <2>4, <2>5
<1>6. /\ mail' \in [Senders -> MailCall] /\ mail'[s] = c
      /\ \A t \in Senders \ {s} : mail'[t] = mail[t]
  BY <1>1, <1>5 DEF MailTypeOK
<1>7. MailTypeOK'
  BY <1>1, <1>3, <1>6 DEF MailTypeOK
<1>8. mailDriver = "smtp" => session[s] = NoSession
  BY <1>3 DEF MailInv, Conversation
<1>9. /\ c.pc \in {"answered"} \cup StagesOf[mailDriver]
      /\ c.pc \in {"answered", "connecting", "writing", "running"}
      /\ mailDriver = "smtp" => c.pc \in {"answered", "connecting"}
      /\ mailDriver = "shell" => c.pc \in {"answered", "writing"}
      /\ c.pc = "answered" /\ mailDriver # "log" => c.success = FALSE
  BY <1>4, <1>5
<1>10. mailDriver = "smtp" => Conversation(c, NoSession)
  BY <1>9 DEF Conversation, NoSession
<1>11. mailDriver = "shell" => OwnFile(s)'
  BY <1>6, <1>9 DEF OwnFile
<1>. QED
  BY <1>3, <1>6, <1>7, <1>8, <1>9, <1>10, <1>11, MailInvKept

\* A reply comes in one piece or in two.
LEMMA PiecesFacts ==
    ASSUME NEW code \in Codes, NEW p \in Pieces(code)
    PROVE  p \in Seq(Codes) /\ Len(p) \in Nat /\ Len(p) >= 1 /\ Len(p) - 1 \in Nat
<1>1. CASE p = <<code>>
  BY <1>1
<1>2. CASE p = <<code, code>>
  BY <1>2
<1>. QED
  BY <1>1, <1>2 DEF Pieces

\* The server greets, in one piece or in two.
LEMMA ConnectsStep ==
    ASSUME MailAssumption, MailInv, NEW s \in Senders, connects(s)
    PROVE  MailInv'
<1>1. /\ MailTypeOK /\ mailDriver \in {"smtp", "sendmail", "shell", "log"}
      /\ \A t \in Senders : mail[t] \in MailCall /\ session[t] \in Connection
  BY MailFacts DEF MailInv
<1>2. /\ mail[s].pc = "connecting"
      /\ mail[s] \in [pc : {"connecting", "reading", "writing", "running"},
                      message : MailMessages, step : Nat \ {0}, file : Nat, shared : BOOLEAN]
      /\ UNCHANGED <<mailDriver, mailClock, temporary, logFile, logging>>
  BY <1>1, CallForms DEF connects
<1>3. mailDriver = "smtp"
  BY <1>1, <1>2 DEF MailInv, StagesOf
<1>4. session[s] = NoSession
  BY <1>2, <1>3 DEF MailInv, Conversation
<1>5. CASE MailResult(s, FALSE, {}) /\ UNCHANGED session
  <2>1. /\ mail' \in [Senders -> MailCall]
        /\ \A t \in Senders \ {s} : mail'[t] = mail[t]
        /\ mail'[s].pc = "answered" /\ mail'[s].success = FALSE
    BY <1>1, <1>2, <1>5, ResultFacts, Zenon
  <2>2. MailTypeOK'
    BY <1>1, <1>2, <1>5, <2>1 DEF MailTypeOK
  <2>3. Conversation(mail'[s], session'[s])
    BY <1>4, <1>5, <2>1 DEF Conversation, NoSession
  <2>. QED
    BY <1>2, <1>3, <1>5, <2>1, <2>2, <2>3, MailInvKept
<1>6. ASSUME mail' = [mail EXCEPT ![s].pc = "reading", ![s].step = 1],
             NEW p \in Pieces("220"),
             session' = [session EXCEPT ![s].replies = p, ![s].pieces = Len(p) - 1]
      PROVE  MailInv'
  <2> DEFINE c == [mail[s] EXCEPT !.pc = "reading", !.step = 1]
             v == [NoSession EXCEPT !.replies = p, !.pieces = Len(p) - 1]
  <2>1. p \in Seq(Codes) /\ Len(p) \in Nat /\ Len(p) >= 1 /\ Len(p) - 1 \in Nat
    BY PiecesFacts DEF Codes
  <2>2. c \in MailCall /\ c.pc = "reading" /\ c.step = 1 /\ c.message = mail[s].message
    <3>1. c \in [pc : {"connecting", "reading", "writing", "running"}, message : MailMessages,
                 step : Nat \ {0}, file : Nat, shared : BOOLEAN]
      <4>1. 1 \in Nat \ {0} /\ "reading" \in {"connecting", "reading", "writing", "running"}
        OBVIOUS
      <4>. QED
        BY <1>2, <4>1
    <3>2. c.pc = "reading" /\ c.step = 1 /\ c.message = mail[s].message
      BY <1>2
    <3>. QED
      BY <3>1, <3>2 DEF MailCall
  <2>3. /\ v \in Connection /\ v.replies = p /\ v.pieces = Len(p) - 1 /\ v.sent = <<>>
        /\ v.buffer = <<>> /\ v.took = "nothing"
    <3>1. <<>> \in Seq(Lines) /\ <<>> \in Seq(Codes)
      OBVIOUS
    <3>. QED
      BY <2>1, <3>1 DEF Connection, NoSession
  <2>4. mail' = [mail EXCEPT ![s] = c]
    BY <1>1, <1>6 DEF MailTypeOK
  <2>5. session' = [session EXCEPT ![s] = v]
    BY <1>1, <1>4, <1>6 DEF MailTypeOK
  <2>. HIDE DEF c, v
  <2>6. /\ mail' \in [Senders -> MailCall] /\ mail'[s] = c
        /\ session' \in [Senders -> Connection] /\ session'[s] = v
        /\ \A t \in Senders \ {s} : mail'[t] = mail[t] /\ session'[t] = session[t]
    BY <1>1, <2>2, <2>3, <2>4, <2>5 DEF MailTypeOK
  <2>7. MailTypeOK'
    BY <1>1, <1>2, <2>6 DEF MailTypeOK
  <2>8. Len(Script(c.message)) \in Nat /\ Len(Script(c.message)) >= 5
    BY <1>2, <2>2, ScriptFacts
  <2>9. AtStep(c.message, c.step, v)
    <3>1. Len(v.buffer) + Len(v.replies) + Len(v.sent) <= 1 + v.pieces
      BY <2>1, <2>3
    <3> DEFINE last == Len(Script(c.message))
    <3>2. c.step \in 1 .. last - 1 /\ c.step # last - 1 /\ ~ (c.step > last)
      <4>1. c.step = 1 /\ last \in Nat /\ last >= 5
        BY <2>2, <2>8
      <4>. HIDE DEF last
      <4>. QED
        BY <4>1
    <3>. HIDE DEF last
    <3>. QED
      BY <3>1, <3>2, Zenon DEF AtStep, last
  <2>10. Conversation(c, v)
    BY <2>2, <2>3, <2>9 DEF Conversation
  <2>11. c.pc \in StagesOf[mailDriver]
    BY <1>3, <2>2 DEF StagesOf
  <2>. QED
    BY <1>2, <1>3, <2>2, <2>6, <2>7, <2>10, <2>11, MailInvKept
<1>. QED
  BY <1>5, <1>6 DEF connects

\* Of a sequence of two parts, the elements and the last one.
LEMMA ConcatFacts ==
    ASSUME NEW S, NEW s \in Seq(S), NEW t \in Seq(S)
    PROVE  /\ s \o t \in Seq(S)
           /\ Len(s) \in Nat /\ Len(t) \in Nat /\ Len(s \o t) = Len(s) + Len(t)
           /\ Range(s \o t) = Range(s) \cup Range(t)
           /\ t # <<>> => s \o t # <<>> /\ Last(s \o t) = Last(t)
           /\ t = <<>> => s \o t = s
<1> DEFINE u == s \o t
<1>0. /\ u \in Seq(S) /\ Len(u) = Len(s) + Len(t)
      /\ \A i \in 1 .. Len(s) + Len(t) : u[i] = IF i <= Len(s) THEN s[i] ELSE t[i - Len(s)]
  BY ConcatProperties
<1>1. /\ u \in Seq(S) /\ Len(s) \in Nat /\ Len(t) \in Nat /\ Len(u) = Len(s) + Len(t)
      /\ DOMAIN s = 1 .. Len(s) /\ DOMAIN t = 1 .. Len(t) /\ DOMAIN u = 1 .. Len(s) + Len(t)
      /\ \A i \in 1 .. Len(s) + Len(t) : u[i] = IF i <= Len(s) THEN s[i] ELSE t[i - Len(s)]
  BY <1>0, LenProperties
<1>. HIDE DEF u
<1>2. /\ \A i \in 1 .. Len(s) : i \in 1 .. Len(s) + Len(t) /\ u[i] = s[i]
      /\ \A i \in 1 .. Len(t) : Len(s) + i \in 1 .. Len(s) + Len(t) /\ u[Len(s) + i] = t[i]
  <2>1. ASSUME NEW i \in 1 .. Len(t)
        PROVE  Len(s) + i \in 1 .. Len(s) + Len(t) /\ u[Len(s) + i] = t[i]
    <3>1. /\ Len(s) + i \in 1 .. Len(s) + Len(t) /\ ~ (Len(s) + i <= Len(s))
          /\ (Len(s) + i) - Len(s) = i
      BY <1>1
    <3>. QED
      BY <1>1, <3>1
  <2>. QED
    BY <1>1, <2>1
<1>3. \A i \in 1 .. Len(s) + Len(t) : i \in 1 .. Len(s) \/ i - Len(s) \in 1 .. Len(t)
  BY <1>1
<1>4. Range(u) \subseteq Range(s) \cup Range(t)
  BY <1>1, <1>3 DEF Range
<1>5. Range(s) \subseteq Range(u) /\ Range(t) \subseteq Range(u)
  BY <1>1, <1>2 DEF Range
<1>6. ASSUME t # <<>>
      PROVE  u # <<>> /\ Last(u) = Last(t)
  <2>1. Len(t) \in 1 .. Len(t) /\ Len(u) > 0
    BY <1>1, <1>6, EmptySeq
  <2>. QED
    BY <1>1, <1>2, <2>1 DEF Last
<1>7. t = <<>> => u = s
  BY <1>1, <1>2, SeqEqual
<1>. QED
  BY <1>1, <1>4, <1>5, <1>6, <1>7 DEF u

\* shift() keeps the last element of what is left.
LEMMA LastOfTail ==
    ASSUME NEW S, NEW s \in Seq(S), s # <<>>, Tail(s) # <<>>
    PROVE  Last(Tail(s)) = Last(s)
<1>1. /\ Tail(s) \in Seq(S) /\ Len(s) \in Nat /\ Len(Tail(s)) = Len(s) - 1
      /\ \A i \in 1 .. Len(s) - 1 : Tail(s)[i] = s[i + 1]
  BY TailFacts
<1>2. Len(s) - 1 \in 1 .. Len(s) - 1 /\ (Len(s) - 1) + 1 = Len(s)
  BY <1>1, EmptySeq
<1>. QED
  BY <1>1, <1>2 DEF Last

\* A piece of a reply moves from the wire to the buffer.
LEMMA ArrivesStep ==
    ASSUME MailAssumption, MailInv, NEW s \in Senders, arrivesReply(s)
    PROVE  MailInv'
<1> DEFINE v == session[s]
           w == [v EXCEPT !.buffer = Append(@, Head(v.replies)), !.replies = Tail(@)]
<1>1. /\ MailTypeOK /\ \A t \in Senders : mail[t] \in MailCall /\ session[t] \in Connection
      /\ UNCHANGED <<mailDriver, mailClock, mail, temporary, logFile, logging>>
      /\ v.replies # <<>>
  BY MailFacts DEF MailInv, arrivesReply
<1>2. /\ v.sent \in Seq(Lines) /\ v.replies \in Seq(Codes) /\ v.buffer \in Seq(Codes)
      /\ v.pieces \in Nat
  BY <1>1 DEF Connection
<1>3. /\ Head(v.replies) \in Codes /\ Tail(v.replies) \in Seq(Codes)
      /\ Len(v.replies) \in Nat /\ Len(Tail(v.replies)) = Len(v.replies) - 1
      /\ Range(v.replies) = Range(Tail(v.replies)) \cup {Head(v.replies)}
      /\ Tail(v.replies) # <<>> => Last(Tail(v.replies)) = Last(v.replies)
  BY <1>1, <1>2, TailFacts, LastOfTail
<1>4. /\ Append(v.buffer, Head(v.replies)) \in Seq(Codes) /\ Len(v.buffer) \in Nat
      /\ Len(Append(v.buffer, Head(v.replies))) = Len(v.buffer) + 1
      /\ Range(Append(v.buffer, Head(v.replies))) = Range(v.buffer) \cup {Head(v.replies)}
  BY <1>2, <1>3, AppendFacts
<1>5. session' = [session EXCEPT ![s] = w]
  BY <1>1 DEF arrivesReply, MailTypeOK
<1>6. /\ w \in Connection /\ w.buffer = Append(v.buffer, Head(v.replies))
      /\ w.replies = Tail(v.replies) /\ w.sent = v.sent /\ w.took = v.took
      /\ w.pieces = v.pieces
  <2>1. v \in Connection
    BY <1>1
  <2>. HIDE DEF v
  <2>. QED
    BY <1>3, <1>4, <2>1 DEF Connection
<1>. HIDE DEF v, w
<1>7. /\ session' \in [Senders -> Connection] /\ session'[s] = w
      /\ \A t \in Senders \ {s} : mail'[t] = mail[t] /\ session'[t] = session[t]
  BY <1>1, <1>5, <1>6 DEF MailTypeOK
<1>8. MailTypeOK'
  BY <1>1, <1>7 DEF MailTypeOK
<1>9. ASSUME AtStep(mail[s].message, mail[s].step, v)
      PROVE  AtStep(mail[s].message, mail[s].step, w)
  <2>1. Len(w.buffer) + Len(w.replies) + Len(w.sent)
           = Len(v.buffer) + Len(v.replies) + Len(v.sent)
    <3>1. Len(v.sent) \in Nat
      BY <1>2, LenProperties
    <3>2. /\ Len(w.buffer) = Len(v.buffer) + 1 /\ Len(w.replies) = Len(v.replies) - 1
          /\ Len(w.sent) = Len(v.sent)
      BY <1>3, <1>4, <1>6
    <3>3. Len(v.buffer) \in Nat /\ Len(v.replies) \in Nat
      BY <1>3, <1>4
    <3> DEFINE a == Len(v.buffer)
               b == Len(v.replies)
               c == Len(v.sent)
    <3>4. Len(w.buffer) + Len(w.replies) + Len(w.sent) = (a + 1) + (b - 1) + c
      BY <3>2
    <3>5. a \in Nat /\ b \in Nat /\ c \in Nat
      BY <3>1, <3>3
    <3>. HIDE DEF a, b, c
    <3>6. (a + 1) + (b - 1) + c = a + b + c
      BY <3>5
    <3>. QED
      BY <3>4, <3>6 DEF a, b, c
  <2>2. Range(w.replies) \cup Range(w.buffer) = Range(v.replies) \cup Range(v.buffer)
    BY <1>3, <1>4, <1>6
  <2>3. TakenOf(mail[s].message, v) => TakenOf(mail[s].message, w)
    BY <1>6 DEF TakenOf
  <2>4. w.replies # <<>> => Last(w.replies) = Last(v.replies)
    BY <1>3, <1>6
  <2>. QED
    BY <1>1, <1>6, <1>9, <2>1, <2>2, <2>3, <2>4 DEF AtStep, v
<1>10. mailDriver = "smtp" => Conversation(mail[s], w)
  <2> SUFFICES ASSUME mailDriver = "smtp"
               PROVE  Conversation(mail[s], w)
    OBVIOUS
  <2>1. Conversation(mail[s], v)
    BY DEF MailInv, v
  <2>2. v # NoSession
    BY <1>1 DEF v, NoSession
  <2>. QED
    BY <1>6, <1>9, <2>1, <2>2 DEF Conversation, TakenOf
<1>11. \A t \in Senders : mail[t].pc \in {"idle", "answered"} \cup StagesOf[mailDriver]
  BY DEF MailInv
<1>12. mailDriver = "shell" /\ mail'[s].pc # "idle" => OwnFile(s)'
  BY <1>1 DEF MailInv, OwnFile
<1>13. mail'[s].pc = "answered" /\ mail'[s].success
          /\ mailDriver \in {"sendmail", "shell"} /\ ~ mail'[s].shared =>
             mail'[s].delivered = {s}
  BY <1>1 DEF MailInv, OwnTextSent, Succeeded
<1>. QED
  BY <1>1, <1>7, <1>8, <1>10, <1>11, <1>12, <1>13, MailInvKept

\* What the server may say of a line: a reply at most, but for EHLO; that a message
\* was taken only where its text or its end were.
Answer(v, dotted, codes, extra, took) ==
    /\ codes \in Seq(Codes) /\ extra \in Nat /\ Len(codes) <= 1 + extra
    /\ \/ took \in {v.took, "whole"}
       \/ dotted /\ took = "part"
    /\ Head(v.sent) = "DATA" => codes = <<"354">> \/ codes = <<"503">>
    /\ Head(v.sent) \in {"content", "."} =>
          \/ codes = <<>>
          \/ codes = <<"503">>
          \/ codes = <<"554">>
          \/ took = "whole"
          \/ dotted /\ took = "part"

LEMMA ServerFacts ==
    ASSUME NEW s \in Senders, session[s] \in Connection, serverReplies(s)
    PROVE  /\ session[s].sent # <<>>
           /\ \E w \in Connection, codes \in Seq(Codes), extra \in Nat :
                 /\ session' = [session EXCEPT ![s] = w]
                 /\ Answer(session[s], mail[s].message.dotted, codes, extra, w.took)
                 /\ w.sent = Tail(session[s].sent) /\ w.buffer = session[s].buffer
                 /\ w.replies = session[s].replies \o codes
                 /\ w.pieces = session[s].pieces + extra
<1> DEFINE v == session[s]
           line == Head(v.sent)
           left == [v EXCEPT !.sent = Tail(@)]
           say(w, codes) == session' = [session EXCEPT ![s] = [w EXCEPT !.replies = @ \o codes]]
           dotted == mail[s].message.dotted
           Goal == \E w \in Connection, codes \in Seq(Codes), extra \in Nat :
                      /\ session' = [session EXCEPT ![s] = w]
                      /\ Answer(v, dotted, codes, extra, w.took)
                      /\ w.sent = Tail(v.sent) /\ w.buffer = v.buffer
                      /\ w.replies = v.replies \o codes /\ w.pieces = v.pieces + extra
           \* Nothing but the line read changed, and what the arguments say.
           Read(w, extra, took) ==
              /\ w \in Connection /\ w.sent = Tail(v.sent) /\ w.buffer = v.buffer
              /\ w.replies = v.replies /\ w.pieces = v.pieces + extra /\ w.took = took
<1>0. v.sent # <<>>
  BY DEF serverReplies
<1>1. /\ v \in Connection /\ v.sent \in Seq(Lines) /\ v.replies \in Seq(Codes)
      /\ v.from \in BOOLEAN /\ v.to \in Nat /\ v.data \in BOOLEAN
      /\ v.took \in {"nothing", "part", "whole"} /\ v.pieces \in Nat
      /\ Tail(v.sent) \in Seq(Lines) /\ v.pieces + 0 = v.pieces
  <2>1. /\ v \in Connection /\ v.sent \in Seq(Lines) /\ v.replies \in Seq(Codes)
        /\ v.from \in BOOLEAN /\ v.to \in Nat /\ v.data \in BOOLEAN
        /\ v.took \in {"nothing", "part", "whole"} /\ v.pieces \in Nat
    BY DEF Connection
  <2>2. Tail(v.sent) \in Seq(Lines)
    BY <1>0, <2>1, TailFacts
  <2>. QED
    BY <2>1, <2>2
<1>. HIDE DEF v
<1>2. Read(left, 0, v.took) /\ left.to = v.to
  <2>1. /\ left \in Connection /\ left.to = v.to
        /\ left.sent = Tail(v.sent) /\ left.buffer = v.buffer /\ left.replies = v.replies
        /\ left.pieces = v.pieces /\ left.took = v.took
    BY <1>1 DEF Connection
  <2>. HIDE DEF left
  <2>. QED
    BY <1>1, <2>1
<1>. HIDE DEF left, dotted
<1>3. left \in Connection /\ left.pieces = v.pieces
  BY <1>1, <1>2
<1>4. ASSUME NEW w, NEW codes, NEW extra, NEW took, Read(w, extra, took), say(w, codes),
             Answer(v, dotted, codes, extra, took)
      PROVE  Goal
  <2> DEFINE u == [w EXCEPT !.replies = @ \o codes]
  <2>1. codes \in Seq(Codes) /\ extra \in Nat
    BY <1>4 DEF Answer
  <2>2. v.replies \o codes \in Seq(Codes)
    BY <1>1, <2>1, ConcatFacts
  <2>3. u \in Connection
    BY <1>4, <2>2 DEF Connection
  <2>4. /\ u.sent = Tail(v.sent) /\ u.buffer = v.buffer /\ u.took = took
        /\ u.replies = v.replies \o codes /\ u.pieces = v.pieces + extra
    BY <1>4 DEF Connection
  <2>5. session' = [session EXCEPT ![s] = u]
    BY <1>4
  <2>. HIDE DEF u
  <2>. QED
    BY <1>4, <2>1, <2>3, <2>4, <2>5
<1>5. \A c \in Codes : Answer(v, dotted, <<c>>, 0, v.took) <=>
                          /\ line = "DATA" => <<c>> = <<"354">> \/ <<c>> = <<"503">>
                          /\ line \in {"content", "."} =>
                                \/ <<c>> = <<>> \/ <<c>> = <<"503">> \/ <<c>> = <<"554">>
                                \/ v.took = "whole"
                                \/ dotted /\ v.took = "part"
  BY DEF Answer
<1>. HIDE DEF Goal, say, Read
\* A reply that only says yes or no.
<1>8. ASSUME NEW c \in Codes, say(left, <<c>>), line # "DATA" \/ c = "503",
             line \in {"content", "."} => c \in {"503", "554"}
      PROVE  Goal
  <2>1. Answer(v, dotted, <<c>>, 0, v.took)
    BY <1>5, <1>8
  <2>. QED
    BY <1>2, <1>4, <1>8, <2>1
<1>9. ASSUME line = "EHLO"
      PROVE  Goal
  <2>1. PICK p \in Pieces("250") : say([left EXCEPT !.pieces = @ + Len(p) - 1], p)
    BY <1>9 DEF serverReplies, v, left, line, say
  <2>2. p \in Seq(Codes) /\ Len(p) \in Nat /\ Len(p) - 1 \in Nat
    BY PiecesFacts DEF Codes
  <2>3. /\ Len(p) <= 1 + (Len(p) - 1) /\ v.pieces + Len(p) - 1 = v.pieces + (Len(p) - 1)
        /\ v.pieces + Len(p) - 1 \in Nat
    BY <1>1, <2>2
  <2>4. Answer(v, dotted, p, Len(p) - 1, v.took)
    BY <1>9, <2>2, <2>3 DEF Answer
  <2>5. Read([left EXCEPT !.pieces = @ + Len(p) - 1], Len(p) - 1, v.took)
    BY <1>2, <1>3, <2>3 DEF Connection, Read
  <2>. QED
    BY <1>4, <2>1, <2>4, <2>5
<1>10. ASSUME line \in {"AUTH", "user", "password"}
       PROVE  Goal
  <2>1. say(left, <<"334">>) \/ say(left, <<"235">>) \/ say(left, <<"535">>)
    BY <1>10 DEF serverReplies, v, left, line, say
  <2>2. "334" \in Codes /\ "235" \in Codes /\ "535" \in Codes
    BY DEF Codes
  <2>. QED
    BY <1>8, <1>10, <2>1, <2>2
<1>11. ASSUME line = "MAIL"
       PROVE  Goal
  <2>1. say([left EXCEPT !.from = TRUE], <<"250">>) \/ say(left, <<"550">>)
    BY <1>11 DEF serverReplies, v, left, line, say
  <2>2. Answer(v, dotted, <<"250">>, 0, v.took)
    BY <1>5, <1>11 DEF Codes
  <2>3. Read([left EXCEPT !.from = TRUE], 0, v.took)
    BY <1>2, <1>3 DEF Connection, Read
  <2>4. say([left EXCEPT !.from = TRUE], <<"250">>) => Goal
    BY <1>4, <2>2, <2>3
  <2>5. say(left, <<"550">>) => Goal
    BY <1>8, <1>11 DEF Codes
  <2>. QED
    BY <2>1, <2>4, <2>5
<1>12. ASSUME line = "RCPT" /\ v.from
       PROVE  Goal
  <2>1. say([left EXCEPT !.to = @ + 1], <<"250">>) \/ say(left, <<"550">>)
    BY <1>12 DEF serverReplies, v, left, line, say
  <2>2. Answer(v, dotted, <<"250">>, 0, v.took)
    BY <1>5, <1>12 DEF Codes
  <2>3. Read([left EXCEPT !.to = @ + 1], 0, v.took)
    <3>1. left.to + 1 \in Nat
      BY <1>1, <1>2
    <3>. QED
      BY <1>2, <1>3, <3>1 DEF Connection, Read
  <2>4. say([left EXCEPT !.to = @ + 1], <<"250">>) => Goal
    BY <1>4, <2>2, <2>3
  <2>5. say(left, <<"550">>) => Goal
    BY <1>8, <1>12 DEF Codes
  <2>. QED
    BY <2>1, <2>4, <2>5
<1>13. ASSUME line = "DATA" /\ v.to > 0
       PROVE  Goal
  <2>1. say([left EXCEPT !.data = TRUE], <<"354">>)
    BY <1>13 DEF serverReplies, v, left, line, say
  <2>2. Answer(v, dotted, <<"354">>, 0, v.took)
    BY <1>5, <1>13 DEF Codes
  <2>3. Read([left EXCEPT !.data = TRUE], 0, v.took)
    BY <1>2, <1>3 DEF Connection, Read
  <2>. QED
    BY <1>4, <2>1, <2>2, <2>3
\* The end of a message, taken or not.
<1>14. ASSUME NEW took \in {"part", "whole"}, dotted \/ took = "whole", line \in {"content", "."},
              \/ say([left EXCEPT !.data = FALSE, !.took = took], <<"250">>)
              \/ say([left EXCEPT !.data = FALSE], <<"554">>)
       PROVE  Goal
  <2>1. Answer(v, dotted, <<"250">>, 0, took)
    <3>1. <<"250">> \in Seq(Codes) /\ Len(<<"250">>) <= 1 + 0
      BY DEF Codes
    <3>. QED
      BY <1>14, <3>1 DEF Answer
  <2>2. Answer(v, dotted, <<"554">>, 0, v.took)
    BY <1>5, <1>14 DEF Codes
  <2>3. Read([left EXCEPT !.data = FALSE, !.took = took], 0, took)
    BY <1>2, <1>3, <1>14 DEF Connection, Read
  <2>4. Read([left EXCEPT !.data = FALSE], 0, v.took)
    BY <1>2, <1>3 DEF Connection, Read
  <2>5. CASE say([left EXCEPT !.data = FALSE, !.took = took], <<"250">>)
    BY <1>4, <2>1, <2>3, <2>5
  <2>6. CASE say([left EXCEPT !.data = FALSE], <<"554">>)
    BY <1>4, <2>2, <2>4, <2>6
  <2>. QED
    BY <1>14, <2>5, <2>6
<1>15. ASSUME line = "content" /\ v.data
       PROVE  Goal
  <2>1. \/ ~ dotted /\ say(left, <<>>)
        \/ /\ dotted
           /\ \/ say([left EXCEPT !.data = FALSE, !.took = "part"], <<"250">>)
              \/ say([left EXCEPT !.data = FALSE], <<"554">>)
    BY <1>15 DEF serverReplies, v, left, line, say, dotted
  <2>2. Answer(v, dotted, <<>>, 0, v.took)
    BY <1>15 DEF Answer
  <2>3. CASE say(left, <<>>)
    BY <1>2, <1>4, <2>2, <2>3
  <2>. QED
    BY <1>14, <1>15, <2>1, <2>3
<1>16. ASSUME line = "." /\ v.data
       PROVE  Goal
  <2>1. \/ say([left EXCEPT !.data = FALSE, !.took = "whole"], <<"250">>)
        \/ say([left EXCEPT !.data = FALSE], <<"554">>)
    BY <1>16 DEF serverReplies, v, left, line, say
  <2>. QED
    BY <1>14, <1>16, <2>1
<1>17. ASSUME line \notin {"EHLO", "AUTH", "user", "password", "MAIL"},
              ~ (line = "RCPT" /\ v.from), ~ (line = "DATA" /\ v.to > 0),
              ~ (line \in {"content", "."} /\ v.data)
       PROVE  Goal
  <2>1. say(left, <<"503">>)
    BY <1>17 DEF serverReplies, v, left, line, say
  <2>. QED
    BY <1>8, <2>1 DEF Codes
<1>18. Goal
  BY <1>9, <1>10, <1>11, <1>12, <1>13, <1>15, <1>16, <1>17
<1>. QED
  BY <1>0, <1>18 DEF Goal, v, dotted

\* What the server reads and says keeps the count of replies, and a 250 for the text
\* or the dot comes with the message taken.
LEMMA ServerStep ==
    ASSUME MailAssumption, MailInv, NEW s \in Senders, serverReplies(s)
    PROVE  MailInv'
<1> DEFINE v == session[s]
           m == mail[s].message
<1>1. /\ MailTypeOK /\ \A t \in Senders : mail[t] \in MailCall /\ session[t] \in Connection
      /\ UNCHANGED <<mailDriver, mailClock, mail, temporary, logFile, logging>>
      /\ v.sent # <<>>
  BY MailFacts, ServerFacts DEF MailInv, serverReplies
<1>2. /\ v.sent \in Seq(Lines) /\ v.replies \in Seq(Codes) /\ v.buffer \in Seq(Codes)
      /\ v.pieces \in Nat /\ v.took \in {"nothing", "part", "whole"}
  BY <1>1 DEF Connection
<1>3. PICK w \in Connection, codes \in Seq(Codes), extra \in Nat :
         /\ session' = [session EXCEPT ![s] = w]
         /\ Answer(v, m.dotted, codes, extra, w.took)
         /\ w.sent = Tail(v.sent) /\ w.buffer = v.buffer
         /\ w.replies = v.replies \o codes /\ w.pieces = v.pieces + extra
  BY <1>1, ServerFacts
<1>4. /\ Head(v.sent) \in Lines /\ Tail(v.sent) \in Seq(Lines)
      /\ Len(v.sent) \in Nat /\ Len(v.sent) > 0 /\ Len(Tail(v.sent)) = Len(v.sent) - 1
      /\ Head(v.sent) = v.sent[1] /\ Head(v.sent) \in Range(v.sent)
      /\ Range(Tail(v.sent)) \subseteq Range(v.sent)
      /\ Tail(v.sent) # <<>> => Last(Tail(v.sent)) = Last(v.sent)
  BY <1>1, <1>2, TailFacts, LastOfTail
<1>5. /\ Len(v.replies) \in Nat /\ Len(codes) \in Nat /\ Len(w.replies) = Len(v.replies) + Len(codes)
      /\ Range(w.replies) = Range(v.replies) \cup Range(codes)
      /\ codes # <<>> => Last(w.replies) = Last(codes)
  BY <1>2, <1>3, ConcatFacts
<1>. HIDE DEF v, m
<1>6. /\ session' \in [Senders -> Connection] /\ session'[s] = w
      /\ \A t \in Senders \ {s} : mail'[t] = mail[t] /\ session'[t] = session[t]
  BY <1>1, <1>3 DEF MailTypeOK
<1>7. MailTypeOK'
  BY <1>1, <1>6 DEF MailTypeOK
\* A reply to DATA is not a 250; one to the text or the dot is when the message is taken.
<1>8. \A c : Range(<<c>>) = {c} /\ <<c>> # <<>> /\ Last(<<c>>) = c
  BY DEF Range, Last
<1>9. Head(v.sent) = "DATA" => "250" \notin Range(codes) /\ codes # <<>> /\ Last(codes) # "250"
  <2> SUFFICES ASSUME Head(v.sent) = "DATA"
               PROVE  "250" \notin Range(codes) /\ codes # <<>> /\ Last(codes) # "250"
    OBVIOUS
  <2>1. \E c \in {"354", "503"} : codes = <<c>>
    BY <1>3 DEF Answer
  <2>2. PICK c \in {"354", "503"} : codes = <<c>>
    BY <2>1
  <2>3. Range(codes) = {c} /\ codes # <<>> /\ Last(codes) = c
    BY <1>8, <2>2
  <2>. QED
    BY <2>2, <2>3
<1>10. Head(v.sent) \in {"content", "."} /\ "250" \in Range(codes) => TakenOf(m, w)
  <2>1. Range(<<>>) = {}
    BY DEF Range
  <2>. QED
    BY <1>3, <1>8, <2>1 DEF Answer, TakenOf
<1>11. TakenOf(m, v) => TakenOf(m, w)
  BY <1>3 DEF Answer, TakenOf
<1>12. ASSUME AtStep(m, mail[s].step, v)
       PROVE  AtStep(m, mail[s].step, w)
  <2> DEFINE step == mail[s].step
             last == Len(Script(m))
  <2>1. step < last => Len(w.buffer) + Len(w.replies) + Len(w.sent) <= 1 + w.pieces
    <3> DEFINE b == Len(v.buffer)
               r == Len(v.replies)
               n == Len(v.sent)
               k == Len(codes)
               p == v.pieces
    <3>1. /\ b \in Nat /\ r \in Nat /\ n \in Nat /\ k \in Nat /\ p \in Nat
          /\ k <= 1 + extra
      BY <1>2, <1>3, <1>4, <1>5, LenProperties DEF Answer
    <3>2. Len(w.buffer) + Len(w.replies) + Len(w.sent) = b + (r + k) + (n - 1)
      BY <1>3, <1>4, <1>5
    <3>3. w.pieces = p + extra
      BY <1>3
    <3>4. step < last => b + r + n <= 1 + p
      BY <1>12 DEF AtStep
    <3>. HIDE DEF b, r, n, k, p
    <3>5. b + r + n <= 1 + p => b + (r + k) + (n - 1) <= 1 + (p + extra)
      BY <3>1
    <3>. QED
      BY <3>2, <3>3, <3>4, <3>5
  <2>2. ASSUME step = last - 1
        PROVE  /\ w.sent # <<>> => Last(w.sent) = "DATA"
               /\ w.sent = <<>> /\ w.replies # <<>> => Last(w.replies) # "250"
    <3>1. Last(v.sent) = "DATA"
      BY <1>1, <1>12, <2>2 DEF AtStep, v
    <3>2. ASSUME w.sent = <<>>
          PROVE  Head(v.sent) = "DATA"
      <4>1. Len(v.sent) = 1
        <5>1. Tail(v.sent) = <<>> /\ Len(<<>>) = 0
          BY <1>3, <3>2
        <5>2. Len(v.sent) - 1 = 0
          BY <1>4, <5>1
        <5>. QED
          BY <1>4, <5>2
      <4>. QED
        BY <1>4, <3>1, <4>1 DEF Last
    <3>. QED
      BY <1>3, <1>4, <1>5, <1>9, <3>1, <3>2
  <2>3. ASSUME step > last
        PROVE  /\ Range(w.sent) \subseteq {"DATA", "content", "."}
               /\ "250" \in Range(w.replies) \cup Range(w.buffer) => TakenOf(m, w)
    <3>1. /\ Range(v.sent) \subseteq {"DATA", "content", "."}
          /\ "250" \in Range(v.replies) \cup Range(v.buffer) => TakenOf(m, v)
      BY <1>12, <2>3 DEF AtStep
    <3>. QED
      BY <1>3, <1>4, <1>5, <1>9, <1>10, <1>11, <3>1
  <2>4. step \in 1 .. last - 1 \/ step = last + 1
    BY <1>12 DEF AtStep
  <2>. HIDE DEF step, last
  <2>. QED
    BY <2>1, <2>2, <2>3, <2>4 DEF AtStep, step, last
<1>13. mailDriver = "smtp" => Conversation(mail[s], w)
  <2> SUFFICES ASSUME mailDriver = "smtp"
               PROVE  Conversation(mail[s], w)
    OBVIOUS
  <2>1. Conversation(mail[s], v)
    BY DEF MailInv, v
  <2>2. v # NoSession
    BY <1>1 DEF v, NoSession
  <2>3. w.pieces < 2 => v.pieces < 2
    BY <1>2, <1>3
  <2>4. mail[s].pc \notin {"idle", "connecting"}
    BY <2>1, <2>2 DEF Conversation
  <2>5. w.took = "part" => m.dotted
    BY <1>3, <2>1, <2>4 DEF Conversation, Answer, m
  <2>. QED
    BY <1>11, <1>12, <2>1, <2>3, <2>4, <2>5 DEF Conversation, m
<1>14. \A t \in Senders : mail[t].pc \in {"idle", "answered"} \cup StagesOf[mailDriver]
  BY DEF MailInv
<1>15. mailDriver = "shell" /\ mail'[s].pc # "idle" => OwnFile(s)'
  BY <1>1 DEF MailInv, OwnFile
<1>16. mail'[s].pc = "answered" /\ mail'[s].success
          /\ mailDriver \in {"sendmail", "shell"} /\ ~ mail'[s].shared =>
             mail'[s].delivered = {s}
  BY <1>1 DEF MailInv, OwnTextSent, Succeeded
<1>. QED
  BY <1>1, <1>6, <1>7, <1>13, <1>14, <1>15, <1>16, MailInvKept

\* One element at most.
LEMMA ShortFacts ==
    ASSUME NEW S, NEW q \in Seq(S), Len(q) <= 1
    PROVE  /\ q = <<>> => Range(q) = {}
           /\ q # <<>> => Range(q) = {Last(q)} /\ Len(q) = 1
<1>1. Len(q) \in Nat /\ DOMAIN q = 1 .. Len(q) /\ (q # <<>> => Len(q) # 0)
  BY LenProperties, EmptySeq
<1>2. Range(<<>>) = {}
  BY DEF Range
<1>3. ASSUME q # <<>>
      PROVE  Range(q) = {Last(q)} /\ Len(q) = 1
  <2>1. Len(q) = 1
    BY <1>1, <1>3
  <2>2. DOMAIN q = {1}
    BY <1>1, <2>1
  <2>. QED
    BY <2>1, <2>2 DEF Range, Last
<1>. QED
  BY <1>2, <1>3

\* A read takes at least a reply, and what is written next asks for one: the count of
\* replies is kept.  The content is written when the reply read was that to DATA, or
\* all that is to come is not a 250.
LEMMA ReadsStep ==
    ASSUME MailAssumption, MailInv, NEW s \in Senders, reads(s)
    PROVE  MailInv'
<1> DEFINE v == session[s]
           m == mail[s].message
           step == mail[s].step
           script == Script(m)
           last == Len(script)
           next == Writes(script, step)
           said == [i \in DOMAIN next |-> next[i].say]
<1>1. /\ MailTypeOK /\ mailDriver \in {"smtp", "sendmail", "shell", "log"}
      /\ \A t \in Senders : mail[t] \in MailCall /\ session[t] \in Connection
      /\ UNCHANGED <<mailDriver, mailClock, temporary, logFile, logging>>
      /\ v.buffer # <<>> /\ mail[s].pc = "reading"
  BY MailFacts DEF MailInv, reads
<1>2. /\ mail[s] \in [pc : {"connecting", "reading", "writing", "running"},
                      message : MailMessages, step : Nat \ {0}, file : Nat, shared : BOOLEAN]
      /\ m \in MailMessages /\ step \in Nat \ {0}
  BY <1>1, CallForms
<1>3. /\ v \in Connection /\ v.sent \in Seq(Lines) /\ v.replies \in Seq(Codes)
      /\ v.buffer \in Seq(Codes) /\ v.pieces \in Nat
  BY <1>1 DEF Connection
<1>4. mailDriver = "smtp" /\ Conversation(mail[s], v)
  BY <1>1 DEF MailInv, StagesOf
<1>5. last \in Nat /\ last >= 5
  BY <1>2, ScriptFacts
<1>6. /\ v.took = "part" => m.dotted
      /\ v.pieces < 2 => AtStep(m, step, v)
  BY <1>1, <1>4 DEF Conversation
<1>7. Head(v.buffer) \in Range(v.buffer) /\ Len(v.buffer) \in Nat /\ Len(v.buffer) > 0
  BY <1>1, <1>3, TailFacts
\* The answer of send().
<1>8. ASSUME NEW success \in BOOLEAN, MailResult(s, success, {}),
             session' = [session EXCEPT ![s].buffer = <<>>],
             success => step > last /\ Head(v.buffer) = "250"
      PROVE  MailInv'
  <2> DEFINE w == [v EXCEPT !.buffer = <<>>]
  <2>1. /\ mail' \in [Senders -> MailCall]
        /\ \A t \in Senders \ {s} : mail'[t] = mail[t]
        /\ mail'[s].pc = "answered" /\ mail'[s].success = success /\ mail'[s].message = m
    <3>1. mail[s].pc # "idle" /\ {} \in SUBSET Senders
      BY <1>1
    <3>. QED
      BY <1>1, <1>8, <3>1, ResultFacts, Zenon
  <2>2. w \in Connection /\ w.took = v.took /\ w.pieces = v.pieces
    <3>1. <<>> \in Seq(Codes)
      OBVIOUS
    <3>. HIDE DEF v
    <3>. QED
      BY <1>3, <3>1 DEF Connection
  <2>3. session' = [session EXCEPT ![s] = w]
    BY <1>8
  <2>. HIDE DEF w
  <2>4. /\ session' \in [Senders -> Connection] /\ session'[s] = w
        /\ \A t \in Senders \ {s} : session'[t] = session[t]
    BY <1>1, <2>2, <2>3 DEF MailTypeOK
  <2>5. MailTypeOK'
    BY <1>1, <2>1, <2>4 DEF MailTypeOK
  <2>6. ASSUME v.pieces < 2, success
        PROVE  TakenOf(m, v)
    <3>1. step > last /\ "250" \in Range(v.buffer)
      BY <1>7, <1>8, <2>6
    <3>. QED
      BY <1>6, <2>6, <3>1 DEF AtStep
  <2>7. Conversation(mail'[s], w)
    <3>1. TakenOf(m, v) => TakenOf(m, w)
      BY <2>2 DEF TakenOf
    <3>. QED
      BY <1>6, <2>1, <2>2, <2>6, <3>1 DEF Conversation
  <2>. QED
    BY <1>1, <1>4, <2>1, <2>4, <2>5, <2>7, MailInvKept
\* The next commands.
<1>9. ASSUME step <= last,
             mail' = [mail EXCEPT ![s].step = @ + Len(next)],
             session' = [session EXCEPT ![s].buffer = <<>>, ![s].sent = @ \o said]
      PROVE  MailInv'
  <2> DEFINE c == [mail[s] EXCEPT !.step = @ + Len(next)]
             w == [v EXCEPT !.buffer = <<>>, !.sent = @ \o said]
  <2>0. step \in 1 .. last
    BY <1>2, <1>5, <1>9
  <2>1. /\ step # last - 1 => /\ Len(next) = 1 /\ said = <<script[step].say>>
                              /\ script[step].say \in Lines
                              /\ step = last - 2 => script[step].say = "DATA"
        /\ step = last - 1 => Len(next) = 2 /\ said = <<"content", ".">>
    BY <1>2, <2>0, WritesFacts
  <2>. HIDE DEF next, said
  <2>2. said \in Seq(Lines) /\ Len(next) \in {1, 2}
    <3>. HIDE DEF step, script, last
    <3>1. \A x, y \in Lines : <<x>> \in Seq(Lines) /\ <<x, y>> \in Seq(Lines)
      OBVIOUS
    <3>2. "content" \in Lines /\ "." \in Lines
      BY DEF Lines
    <3>3. CASE step # last - 1
      BY <2>1, <3>1, <3>3
    <3>4. CASE step = last - 1
      BY <2>1, <3>1, <3>2, <3>4
    <3>. QED
      BY <3>3, <3>4
  <2>3. /\ c \in MailCall /\ c.pc = "reading" /\ c.message = m /\ c.step = step + Len(next)
    <3>1. step + Len(next) \in Nat \ {0}
      BY <1>2, <2>2
    <3>2. c \in [pc : {"connecting", "reading", "writing", "running"}, message : MailMessages,
                 step : Nat \ {0}, file : Nat, shared : BOOLEAN]
      BY <1>2, <3>1
    <3>3. c.pc = "reading" /\ c.message = m /\ c.step = step + Len(next)
      BY <1>1, <1>2
    <3>. QED
      BY <3>2, <3>3 DEF MailCall
  <2>4. /\ v.sent \o said \in Seq(Lines) /\ Len(v.sent) \in Nat /\ Len(said) \in Nat
        /\ Len(v.sent \o said) = Len(v.sent) + Len(said)
        /\ Range(v.sent \o said) = Range(v.sent) \cup Range(said)
        /\ said # <<>> => v.sent \o said # <<>> /\ Last(v.sent \o said) = Last(said)
    BY <1>3, <2>2, ConcatFacts
  <2>5. /\ w \in Connection /\ w.took = v.took /\ w.pieces = v.pieces /\ w.buffer = <<>>
        /\ w.replies = v.replies /\ w.sent = v.sent \o said
    <3>1. <<>> \in Seq(Codes)
      OBVIOUS
    <3>. HIDE DEF v
    <3>. QED
      BY <1>3, <2>4, <3>1 DEF Connection
  <2>6. mail' = [mail EXCEPT ![s] = c] /\ session' = [session EXCEPT ![s] = w]
    BY <1>9
  <2>. HIDE DEF c, w
  <2>7. /\ mail' \in [Senders -> MailCall] /\ mail'[s] = c
        /\ session' \in [Senders -> Connection] /\ session'[s] = w
        /\ \A t \in Senders \ {s} : mail'[t] = mail[t] /\ session'[t] = session[t]
    BY <1>1, <2>3, <2>5, <2>6 DEF MailTypeOK
  <2>8. MailTypeOK'
    BY <1>1, <2>7 DEF MailTypeOK
  <2>9. ASSUME v.pieces < 2
        PROVE  AtStep(m, c.step, w)
    <3> DEFINE b == Len(v.buffer)
               r == Len(v.replies)
               n == Len(v.sent)
               p == v.pieces
    <3>1. step \in 1 .. last - 1
      <4>1. step \in 1 .. last - 1 \/ step = last + 1
        BY <1>6, <2>9 DEF AtStep
      <4>2. ~ (last + 1 <= last)
        BY <1>5
      <4>. QED
        BY <1>9, <4>1, <4>2
    <3>2. b + r + n <= 1 + p
      <4>1. step < last
        BY <1>5, <3>1
      <4>. QED
        BY <1>6, <2>9, <4>1 DEF AtStep
    <3>3. b \in Nat /\ b > 0 /\ r \in Nat /\ n \in Nat /\ p \in Nat /\ p < 2
      BY <1>3, <1>7, <2>4, <2>9, LenProperties
    <3>. HIDE DEF v, m, step, script, last
    <3>4. CASE step # last - 1
      <4>1. /\ c.step = step + 1 /\ c.step \in 1 .. last - 1 /\ c.step < last
            /\ ~ (c.step > last)
        <5>1. c.step = step + 1
          BY <2>1, <2>3, <3>4
        <5>. QED
          BY <1>5, <3>1, <3>4, <5>1
      <4>2. Len(w.buffer) + Len(w.replies) + Len(w.sent) = 0 + r + (n + 1)
        <5>1. Len(said) = 1
          BY <2>1, <3>4
        <5>2. Len(<<>>) = 0
          OBVIOUS
        <5>. QED
          BY <2>4, <2>5, <5>1, <5>2
      <4>3. 0 + r + (n + 1) <= 1 + w.pieces
        <5>1. w.pieces = p
          BY <2>5
        <5>. HIDE DEF b, r, n, p
        <5>. QED
          BY <3>2, <3>3, <5>1
      <4>4. c.step = last - 1 => w.sent # <<>> /\ Last(w.sent) = "DATA"
        <5> SUFFICES ASSUME c.step = last - 1
                     PROVE  w.sent # <<>> /\ Last(w.sent) = "DATA"
          OBVIOUS
        <5>1. step = last - 2
          BY <1>5, <3>1, <4>1
        <5>2. said = <<"DATA">>
          BY <2>1, <3>4, <5>1
        <5>3. said # <<>> /\ Last(said) = "DATA"
          BY <5>2 DEF Last
        <5>. QED
          BY <2>4, <2>5, <5>3
      <4>. QED
        BY <4>1, <4>2, <4>3, <4>4 DEF AtStep, last, script
    <3>5. CASE step = last - 1
      <4>1. /\ c.step = last + 1 /\ c.step > last /\ ~ (c.step < last) /\ c.step # last - 1
        <5>1. c.step = step + 2
          BY <2>1, <2>3, <3>5
        <5>. QED
          BY <1>5, <3>5, <5>1
      <4>2. r + n <= 1
        <5>. HIDE DEF b, r, n, p
        <5>. QED
          BY <3>2, <3>3
      <4>3. /\ v.sent # <<>> => Last(v.sent) = "DATA"
            /\ v.sent = <<>> /\ v.replies # <<>> => Last(v.replies) # "250"
        BY <1>6, <2>9, <3>5 DEF AtStep, last, script
      <4>4. r <= 1 /\ n <= 1 /\ (n = 1 => r = 0)
        <5>. HIDE DEF b, r, n, p
        <5>. QED
          BY <3>3, <4>2
      <4>5. /\ v.sent = <<>> => Range(v.sent) = {}
            /\ v.sent # <<>> => Range(v.sent) = {"DATA"} /\ r = 0
        BY <1>3, <4>3, <4>4, ShortFacts
      <4>6. Range(said) = {"content", "."}
        <5>1. said = <<"content", ".">>
          BY <2>1, <3>5
        <5>. QED
          BY <5>1 DEF Range
      <4>7. "250" \notin Range(v.replies)
        <5>1. CASE v.replies = <<>>
          BY <1>3, <4>4, <5>1, ShortFacts
        <5>2. CASE v.replies # <<>>
          <6>1. Range(v.replies) = {Last(v.replies)} /\ r = 1
            BY <1>3, <4>4, <5>2, ShortFacts
          <6>2. v.sent = <<>>
            BY <4>5, <6>1
          <6>. QED
            BY <4>3, <5>2, <6>1, <6>2
        <5>. QED
          BY <5>1, <5>2
      <4>8. Range(w.buffer) = {}
        BY <2>5 DEF Range
      <4>9. Range(w.sent) \subseteq {"DATA", "content", "."}
        BY <2>4, <2>5, <4>5, <4>6
      <4>10. "250" \notin Range(w.replies) \cup Range(w.buffer)
        BY <2>5, <4>7, <4>8
      <4>. QED
        BY <4>1, <4>9, <4>10 DEF AtStep, last, script
    <3>. QED
      BY <3>4, <3>5
  <2>10. Conversation(c, w)
    BY <1>6, <2>3, <2>5, <2>9 DEF Conversation
  <2>11. c.pc \in StagesOf[mailDriver]
    BY <1>4, <2>3 DEF StagesOf
  <2>. QED
    BY <1>1, <1>4, <2>3, <2>7, <2>8, <2>10, <2>11, MailInvKept
<1>10. CASE step > last
  <2>1. /\ \/ MailResult(s, Head(v.buffer) = "250", {})
           \/ MailResult(s, FALSE, {})
        /\ session' = [session EXCEPT ![s].buffer = <<>>]
    BY <1>10 DEF reads
  <2>2. ASSUME MailResult(s, Head(v.buffer) = "250", {})
        PROVE  MailInv'
    <3>1. (Head(v.buffer) = "250") \in BOOLEAN
      OBVIOUS
    <3>. QED
      BY <1>8, <1>10, <2>1, <2>2, <3>1
  <2>3. ASSUME MailResult(s, FALSE, {})
        PROVE  MailInv'
    BY <1>8, <2>1, <2>3
  <2>. QED
    BY <2>1, <2>2, <2>3
<1>11. CASE step <= last
  <2>1. \/ /\ mail' = [mail EXCEPT ![s].step = @ + Len(next)]
           /\ session' = [session EXCEPT ![s].buffer = <<>>, ![s].sent = @ \o said]
        \/ /\ MailResult(s, FALSE, {})
           /\ session' = [session EXCEPT ![s].buffer = <<>>]
    <3>1. ~ (step > last)
      BY <1>2, <1>5, <1>11
    <3>. QED
      BY <3>1 DEF reads
  <2>. QED
    BY <1>8, <1>9, <1>11, <2>1
<1>. QED
  BY <1>2, <1>5, <1>10, <1>11

\* sendmail was given the text of its own call.
LEMMA ExitsStep ==
    ASSUME MailAssumption, MailInv, NEW s \in Senders, exits(s)
    PROVE  MailInv'
<1>1. /\ MailTypeOK /\ mailDriver = "sendmail" /\ mail[s].pc = "running"
      /\ UNCHANGED <<mailDriver, mailClock, session, temporary, logFile, logging>>
  BY DEF MailInv, exits
<1>2. PICK success \in BOOLEAN, delivered \in SUBSET Senders :
         MailResult(s, success, delivered) /\ (success => delivered = {s})
  BY DEF exits
<1>3. /\ mail' \in [Senders -> MailCall]
      /\ \A t \in Senders \ {s} : mail'[t] = mail[t]
      /\ mail'[s].pc = "answered" /\ mail'[s].success = success
      /\ mail'[s].delivered = delivered
  <2>1. mail[s].pc # "idle" /\ MailTypeOK /\ MailResult(s, success, delivered)
    BY <1>1, <1>2
  <2>. QED
    BY <2>1, ResultFacts
<1>4. MailTypeOK'
  BY <1>1, <1>3 DEF MailTypeOK
<1>. QED
  BY <1>1, <1>2, <1>3, <1>4, MailInvKept

\* The temporary file holds the text of the last who wrote it; the others who have
\* the same name for it share it from then on.
LEMMA WritesFileStep ==
    ASSUME MailAssumption, MailInv, NEW s \in Senders, writesFile(s)
    PROVE  MailInv'
<1>1. /\ MailTypeOK /\ mailDriver \in {"smtp", "sendmail", "shell", "log"}
      /\ \A t \in Senders : mail[t] \in MailCall
      /\ \A f \in DOMAIN temporary : temporary[f] \in Senders
      /\ UNCHANGED <<mailDriver, mailClock, session, logFile, logging>>
      /\ mail[s].pc = "writing" /\ mailClock \in Nat
  BY MailFacts DEF MailInv, writesFile
<1>2. mailDriver = "shell"
  BY <1>1 DEF MailInv, StagesOf
<1>3. mail[s] \in [pc : {"connecting", "reading", "writing", "running"},
                   message : MailMessages, step : Nat \ {0}, file : Nat, shared : BOOLEAN]
  BY <1>1, CallForms
<1>4. CASE MailResult(s, FALSE, {}) /\ UNCHANGED temporary
  <2>1. /\ mail' \in [Senders -> MailCall]
        /\ \A t \in Senders \ {s} : mail'[t] = mail[t]
        /\ mail'[s].pc = "answered" /\ mail'[s].success = FALSE
    <3>1. mail[s].pc # "idle" /\ {} \in SUBSET Senders /\ FALSE \in BOOLEAN
      BY <1>1
    <3>. QED
      BY <1>1, <1>4, <3>1, ResultFacts, Zenon
  <2>2. MailTypeOK'
    BY <1>1, <1>4, <2>1 DEF MailTypeOK
  <2>3. OwnFile(s)'
    BY <2>1 DEF OwnFile
  <2>. QED
    BY <1>1, <1>2, <1>4, <2>1, <2>2, <2>3, MailInvKept
<1> DEFINE own == [mail[s] EXCEPT !.pc = "running", !.file = mailClock,
                                  !.shared = Others(s, mailClock) # {}]
           shared(r) == [mail[r] EXCEPT !.shared = TRUE]
<1>5. CASE /\ temporary' = [f \in DOMAIN temporary \cup {mailClock} |->
                                IF f = mailClock THEN s ELSE temporary[f]]
           /\ mail' = [r \in Senders |-> IF r = s THEN own
                                         ELSE IF r \in Others(s, mailClock) THEN shared(r)
                                         ELSE mail[r]]
  <2>1. /\ own \in MailCall /\ own.pc = "running" /\ own.file = mailClock
        /\ own.shared = (Others(s, mailClock) # {})
    <3>1. (Others(s, mailClock) # {}) \in BOOLEAN
      OBVIOUS
    <3> DEFINE many == Others(s, mailClock) # {}
    <3>. HIDE DEF many
    <3>2. [mail[s] EXCEPT !.pc = "running", !.file = mailClock, !.shared = many]
             \in [pc : {"connecting", "reading", "writing", "running"},
                  message : MailMessages, step : Nat \ {0}, file : Nat, shared : BOOLEAN]
      BY <1>1, <1>3, <3>1 DEF many
    <3>3. own.pc = "running" /\ own.file = mailClock /\ own.shared = many
      BY <1>3 DEF many
    <3>. QED
      BY <3>2, <3>3 DEF MailCall, many
  <2>2. ASSUME NEW r \in Others(s, mailClock)
        PROVE  /\ r \in Senders \ {s} /\ mail[r].pc \in {"running", "cleaning"}
               /\ shared(r) \in MailCall /\ shared(r).pc = mail[r].pc /\ shared(r).shared = TRUE
    <3>1. r \in Senders \ {s} /\ mail[r].pc \in {"running", "cleaning"}
      BY <2>2 DEF Others
    <3>2. CASE mail[r].pc = "running"
      <4>1. mail[r] \in [pc : {"connecting", "reading", "writing", "running"},
                         message : MailMessages, step : Nat \ {0}, file : Nat, shared : BOOLEAN]
        BY <1>1, <3>1, <3>2, CallForms
      <4>2. shared(r) \in [pc : {"connecting", "reading", "writing", "running"},
                         message : MailMessages, step : Nat \ {0}, file : Nat, shared : BOOLEAN]
        BY <4>1
      <4>. QED
        BY <3>1, <4>1, <4>2 DEF MailCall
    <3>3. CASE mail[r].pc = "cleaning"
      <4>1. mail[r] \in [pc : {"cleaning"}, message : MailMessages, file : Nat, ok : BOOLEAN,
                         text : Senders, shared : BOOLEAN]
        BY <1>1, <3>1, <3>3, CallForms
      <4>2. shared(r) \in [pc : {"cleaning"}, message : MailMessages, file : Nat, ok : BOOLEAN,
                         text : Senders, shared : BOOLEAN]
        BY <4>1
      <4>. QED
        BY <3>1, <4>1, <4>2 DEF MailCall
    <3>. QED
      BY <3>1, <3>2, <3>3
  <2>. HIDE DEF own, shared
  <2>3. /\ mail' \in [Senders -> MailCall] /\ mail'[s] = own
        /\ \A r \in Others(s, mailClock) : mail'[r] = shared(r)
        /\ \A r \in Senders \ {s} : r \notin Others(s, mailClock) => mail'[r] = mail[r]
    BY <1>1, <1>5, <2>1, <2>2
  <2>4. /\ DOMAIN temporary' = DOMAIN temporary \cup {mailClock}
        /\ temporary'[mailClock] = s
        /\ \A f \in DOMAIN temporary \ {mailClock} : temporary'[f] = temporary[f]
    BY <1>5
  <2>5. /\ DOMAIN temporary' \subseteq 0 .. MaxMailClock
        /\ temporary' \in [DOMAIN temporary' -> Senders]
    <3>1. temporary' = [f \in DOMAIN temporary' |-> temporary'[f]]
      BY <1>5
    <3>2. \A f \in DOMAIN temporary' : temporary'[f] \in Senders
      BY <1>1, <2>4
    <3>3. DOMAIN temporary' \subseteq 0 .. MaxMailClock
      BY <1>1, <2>4 DEF MailTypeOK
    <3>. QED
      BY <3>1, <3>2, <3>3
  <2>6. MailTypeOK'
    BY <1>1, <2>3, <2>5 DEF MailTypeOK
  <2>7. \A t \in Senders : \/ mail'[t] = mail[t]
                           \/ mail'[t].pc \in {"running", "cleaning"}
    BY <2>1, <2>2, <2>3
  <2>8. OwnTextSent'
    BY <1>1, <2>7 DEF MailInv, OwnTextSent, Succeeded
  <2>9. \A t \in Senders : mail'[t].pc \in {"idle", "answered"} \cup StagesOf[mailDriver']
    BY <1>1, <1>2, <2>7 DEF MailInv, StagesOf
  <2>10. ASSUME NEW t \in Senders, mail'[t].pc # "idle"
         PROVE  OwnFile(t)'
    <3>1. CASE t = s
      BY <2>1, <2>3, <2>4, <3>1 DEF OwnFile
    <3>2. CASE t \in Others(s, mailClock)
      BY <2>2, <2>3, <3>2 DEF OwnFile
    <3>3. CASE t # s /\ t \notin Others(s, mailClock)
      <4>1. mail'[t] = mail[t] /\ OwnFile(t)
        BY <1>2, <2>3, <2>10, <3>3 DEF MailInv
      <4>2. mail[t].pc \in {"running", "cleaning"} => mail[t].file # mailClock
        BY <3>3 DEF Others
      <4>. QED
        BY <2>4, <4>1, <4>2 DEF OwnFile
    <3>. QED
      BY <3>1, <3>2, <3>3
  <2>. QED
    BY <1>1, <1>2, <2>6, <2>8, <2>9, <2>10 DEF MailInv
<1>. QED
  BY <1>4, <1>5 DEF writesFile

\* The shell reads the file of its call, or fails.
LEMMA RunsShellStep ==
    ASSUME MailAssumption, MailInv, NEW s \in Senders, runsShell(s)
    PROVE  MailInv'
<1>1. /\ MailTypeOK /\ mailDriver = "shell" /\ mail[s].pc = "running"
      /\ \A t \in Senders : mail[t] \in MailCall
      /\ \A f \in DOMAIN temporary : temporary[f] \in Senders
      /\ UNCHANGED <<mailDriver, mailClock, session, temporary, logFile, logging>>
  BY MailFacts DEF MailInv, runsShell
<1>2. mail[s] \in [pc : {"connecting", "reading", "writing", "running"},
                   message : MailMessages, step : Nat \ {0}, file : Nat, shared : BOOLEAN]
  BY <1>1, CallForms
<1> DEFINE done(ok, text) == [pc |-> "cleaning", message |-> mail[s].message,
                              file |-> mail[s].file, ok |-> ok, text |-> text,
                              shared |-> mail[s].shared]
           read(ok, text) ==
              /\ mail' = [mail EXCEPT ![s] = done(ok, text)]
              /\ \/ text = s
                 \/ mail[s].file \in DOMAIN temporary /\ text = temporary[mail[s].file]
<1>3. PICK ok \in BOOLEAN, text \in Senders : read(ok, text)
  <2>1. CASE /\ mail[s].file \in DOMAIN temporary
             /\ mail' = [mail EXCEPT ![s] = done(TRUE, temporary[mail[s].file])]
    BY <1>1, <2>1
  <2>2. CASE mail' = [mail EXCEPT ![s] = done(FALSE, s)]
    <3>1. read(FALSE, s)
      BY <2>2
    <3>. HIDE DEF read
    <3>. QED
      BY <3>1
  <2>. QED
    BY <2>1, <2>2 DEF runsShell
<1>4. /\ done(ok, text) \in MailCall /\ done(ok, text).pc = "cleaning"
      /\ done(ok, text).text = text /\ done(ok, text).shared = mail[s].shared
  <2>1. done(ok, text) \in [pc : {"cleaning"}, message : MailMessages, file : Nat, ok : BOOLEAN,
                            text : Senders, shared : BOOLEAN]
    BY <1>2
  <2>. QED
    BY <2>1 DEF MailCall
<1>. HIDE DEF done
<1>5. /\ mail' \in [Senders -> MailCall] /\ mail'[s] = done(ok, text)
      /\ \A t \in Senders \ {s} : mail'[t] = mail[t]
  BY <1>1, <1>3, <1>4 DEF MailTypeOK
<1>6. MailTypeOK'
  BY <1>1, <1>5 DEF MailTypeOK
<1>7. OwnFile(s)'
  <2>1. OwnFile(s)
    BY <1>1 DEF MailInv
  <2>2. ~ mail[s].shared => text = s
    BY <1>1, <1>3, <2>1 DEF OwnFile
  <2>. QED
    BY <1>4, <1>5, <2>2 DEF OwnFile
<1>8. mail'[s].pc \in StagesOf[mailDriver]
  BY <1>1, <1>4, <1>5 DEF StagesOf
<1>. QED
  BY <1>1, <1>4, <1>5, <1>6, <1>7, <1>8, MailInvKept

\* The file goes, or stays; what was sent is reported.
LEMMA CleansStep ==
    ASSUME MailAssumption, MailInv, NEW s \in Senders, cleans(s)
    PROVE  MailInv'
<1>1. /\ MailTypeOK /\ mailDriver \in {"smtp", "sendmail", "shell", "log"}
      /\ \A t \in Senders : mail[t] \in MailCall
      /\ \A f \in DOMAIN temporary : temporary[f] \in Senders
      /\ UNCHANGED <<mailDriver, mailClock, session, logFile, logging>>
      /\ mail[s].pc = "cleaning"
  BY MailFacts DEF MailInv, cleans
<1>2. mailDriver = "shell"
  BY <1>1 DEF MailInv, StagesOf
<1>3. mail[s] \in [pc : {"cleaning"}, message : MailMessages, file : Nat, ok : BOOLEAN,
                   text : Senders, shared : BOOLEAN]
  BY <1>1, CallForms
<1> DEFINE delivered == IF mail[s].ok THEN {mail[s].text} ELSE {}
<1>4. mail[s].ok \in BOOLEAN /\ delivered \in SUBSET Senders /\ mail[s].shared \in BOOLEAN
  BY <1>3
<1>5. MailResult(s, mail[s].ok, delivered)
  BY DEF cleans
<1>. HIDE DEF delivered
<1>6. /\ mail' \in [Senders -> MailCall]
      /\ \A t \in Senders \ {s} : mail'[t] = mail[t]
      /\ mail'[s].pc = "answered" /\ mail'[s].success = mail[s].ok
      /\ mail'[s].delivered = delivered /\ mail'[s].shared = mail[s].shared
  <2>1. mail[s].pc # "idle"
    BY <1>1
  <2>. QED
    BY <1>1, <1>4, <1>5, <2>1, ResultFacts, Zenon
<1>7. /\ DOMAIN temporary' \subseteq DOMAIN temporary
      /\ temporary' = [f \in DOMAIN temporary' |-> temporary'[f]]
      /\ \A f \in DOMAIN temporary' : f \in DOMAIN temporary /\ temporary'[f] = temporary[f]
  <2>1. CASE temporary' = [f \in DOMAIN temporary \ {mail[s].file} |-> temporary[f]]
    BY <2>1
  <2>2. CASE temporary' = temporary
    BY <1>1, <2>2 DEF MailTypeOK
  <2>. QED
    BY <2>1, <2>2 DEF cleans
<1>8. MailTypeOK'
  <2>1. temporary' \in [DOMAIN temporary' -> Senders]
    BY <1>1, <1>7
  <2>2. DOMAIN temporary' \subseteq 0 .. MaxMailClock
    BY <1>1, <1>7 DEF MailTypeOK
  <2>. QED
    BY <1>1, <1>6, <2>1, <2>2 DEF MailTypeOK
<1>9. OwnFile(s)'
  BY <1>6 DEF OwnFile
<1>10. mail'[s].success /\ ~ mail'[s].shared => mail'[s].delivered = {s}
  <2>1. OwnFile(s)
    BY <1>1, <1>2 DEF MailInv
  <2>2. ~ mail[s].shared => mail[s].text = s
    BY <1>1, <2>1 DEF OwnFile
  <2>. QED
    BY <1>6, <2>2 DEF delivered
<1>. QED
  BY <1>1, <1>2, <1>6, <1>7, <1>8, <1>9, <1>10, MailInvKept

\* The log and the clock leave the calls alone.
LEMMA MailUnchanged ==
    ASSUME MailInv, MailTypeOK', UNCHANGED <<mailDriver, mail, session, temporary>>
    PROVE  MailInv'
BY DEF MailInv, OwnTextSent, Succeeded, OwnFile

LEMMA MailInvInit == ASSUME MailAssumption, MailInit PROVE MailInv
<1>1. \A s \in Senders : mail[s] = NoMail /\ session[s] = NoSession
  BY DEF MailInit
<1>2. NoMail \in MailCall /\ NoMail.pc = "idle"
  BY DEF MailCall, NoMail
<1>3. NoSession \in Connection
  <2>1. <<>> \in Seq(Lines) /\ <<>> \in Seq(Codes)
    OBVIOUS
  <2>. QED
    BY <2>1 DEF Connection, NoSession
<1>4. /\ DOMAIN temporary \subseteq 0 .. MaxMailClock /\ temporary \in [DOMAIN temporary -> Senders]
  <2>1. temporary = <<>> /\ DOMAIN <<>> = {}
    BY DEF MailInit
  <2>2. <<>> \in [{} -> Senders]
    OBVIOUS
  <2>. QED
    BY <2>1, <2>2
<1>5. MailTypeOK
  <2>1. mail \in [Senders -> MailCall] /\ session \in [Senders -> Connection]
    BY <1>2, <1>3 DEF MailInit
  <2>2. mailClock \in 0 .. MaxMailClock
    BY DEF MailInit, MailAssumption
  <2>. QED
    BY <1>4, <2>1, <2>2 DEF MailTypeOK, MailInit
<1>6. OwnTextSent
  BY <1>1, <1>2 DEF OwnTextSent, Succeeded
<1>7. Conversation(NoMail, NoSession)
  BY <1>2 DEF Conversation, NoSession
<1>. QED
  BY <1>1, <1>2, <1>5, <1>6, <1>7 DEF MailInv

\* Every action, one lemma each.
LEMMA MailInvStep ==
    ASSUME MailAssumption, MailInv, [MailNext]_mailVars
    PROVE  MailInv'
<1>1. ASSUME NEW s \in Senders, NEW m \in MailMessages, send(s, m)
      PROVE  MailInv'
  BY <1>1, SendStep
<1>2. ASSUME NEW s \in Senders, connects(s)
      PROVE  MailInv'
  BY <1>2, ConnectsStep
<1>3. ASSUME NEW s \in Senders, reads(s)
      PROVE  MailInv'
  BY <1>3, ReadsStep
<1>4. ASSUME NEW s \in Senders, arrivesReply(s)
      PROVE  MailInv'
  BY <1>4, ArrivesStep
<1>5. ASSUME NEW s \in Senders, serverReplies(s)
      PROVE  MailInv'
  BY <1>5, ServerStep
<1>6. ASSUME NEW s \in Senders, exits(s)
      PROVE  MailInv'
  BY <1>6, ExitsStep
<1>7. ASSUME NEW s \in Senders, writesFile(s)
      PROVE  MailInv'
  BY <1>7, WritesFileStep
<1>8. ASSUME NEW s \in Senders, runsShell(s)
      PROVE  MailInv'
  BY <1>8, RunsShellStep
<1>9. ASSUME NEW s \in Senders, cleans(s)
      PROVE  MailInv'
  BY <1>9, CleansStep
<1>10. ASSUME NEW s \in Senders, logged(s)
       PROVE  MailInv'
  <2>1. MailTypeOK'
    BY <1>10 DEF MailInv, MailTypeOK, logged
  <2>. QED
    BY <1>10, <2>1, MailUnchanged DEF logged
<1>11. ASSUME passMailTime
       PROVE  MailInv'
  <2>1. mailClock' \in 0 .. MaxMailClock
    BY <1>11 DEF MailInv, MailTypeOK, MailAssumption, passMailTime
  <2>2. MailTypeOK'
    BY <1>11, <2>1 DEF MailInv, MailTypeOK, passMailTime
  <2>. QED
    BY <1>11, <2>2, MailUnchanged DEF passMailTime
<1>12. ASSUME UNCHANGED mailVars
       PROVE  MailInv'
  <2>1. MailTypeOK'
    BY <1>12 DEF MailInv, MailTypeOK, mailVars
  <2>. QED
    BY <1>12, <2>1, MailUnchanged DEF mailVars
<1>. QED
  BY <1>1, <1>2, <1>3, <1>4, <1>5, <1>6, <1>7, <1>8, <1>9, <1>10, <1>11, <1>12 DEF MailNext

\* The invariant of sending a message holds for any number of calls of send(), any
\* messages and recipients, and every way the replies of the server come in.
THEOREM MailInductive == ASSUME MailAssumption PROVE MailSpec => []MailInv
<1>1. MailInit => MailInv
  BY MailInvInit
<1>2. MailInv /\ [MailNext]_mailVars => MailInv'
  BY MailInvStep
<1>. QED
  BY <1>1, <1>2, PTL DEF MailSpec

\* What send() answers is what became of the message: taken by the server when the
\* replies did not come in pieces, given to sendmail when no file was shared.
THEOREM MailReportedHolds == ASSUME MailAssumption PROVE MailSpec => []MailReported
<1>1. MailInv => MailReported
  BY DEF MailInv, MailReported, TakenByServer, Succeeded, Conversation, TakenOf
<1>. QED
  BY <1>1, MailInductive, PTL

=============================================================================
