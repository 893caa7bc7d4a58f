------------------------- MODULE MemoryQueueProofs -------------------------
(***************************************************************************)
(* Proofs about MemoryQueue, for every number of jobs and ticks, every     *)
(* timeout and batch size and handlers of any length.                      *)
(***************************************************************************)
EXTENDS MemoryQueue, SeqLemmas, TLAPS

(***************************************************************************)
(* The queue without an id, when no id is queued twice.                    *)
(***************************************************************************)

\* The splice of complete() and fail() removes the entry with the job's id and
\* nothing else.
LEMMA WithoutIdLemma ==
    ASSUME NEW S, queue \in Seq(S), UniqueEntries, NEW id
    PROVE  /\ WithoutId(id) \in Seq(S)
           /\ \A i \in DOMAIN WithoutId(id) :
                 \E l \in DOMAIN queue : WithoutId(id)[i] = queue[l] /\ job[queue[l]].id # id
           /\ \A l \in DOMAIN queue :
                 job[queue[l]].id # id => \E i \in DOMAIN WithoutId(id) : WithoutId(id)[i] = queue[l]
           /\ \A i, l \in DOMAIN WithoutId(id) :
                 job[WithoutId(id)[i]].id = job[WithoutId(id)[l]].id => i = l
<1> DEFINE r == WithoutId(id)
<1>1. /\ Len(queue) \in Nat
      /\ DOMAIN queue = 1 .. Len(queue)
      /\ \A i \in 1 .. Len(queue) : queue[i] \in S
  BY LenProperties, ElementOfSeq
<1>2. CASE \A i \in 1 .. Len(queue) : job[queue[i]].id # id
  <2>1. r = queue
    BY <1>2 DEF WithoutId, RemoveFirstMatch
  <2>. HIDE DEF r
  <2>2. r \in Seq(S) /\ DOMAIN r = DOMAIN queue
    BY <2>1
  <2>3. \A i \in DOMAIN r : r[i] = queue[i]
    BY <2>1
  <2>4. \A i \in DOMAIN r : \E l \in DOMAIN queue : r[i] = queue[l] /\ job[queue[l]].id # id
    BY <1>1, <1>2, <2>2, <2>3
  <2>5. \A l \in DOMAIN queue : \E i \in DOMAIN r : r[i] = queue[l]
    BY <2>2, <2>3
  <2>6. \A i, l \in DOMAIN r : job[r[i]].id = job[r[l]].id => i = l
    BY <2>2, <2>3 DEF UniqueEntries
  <2>. QED
    BY <2>2, <2>4, <2>5, <2>6 DEF r
<1>3. ASSUME NEW k \in 1 .. Len(queue), job[queue[k]].id = id
      PROVE  r = RemoveAt(queue, k)
  <2>1. {i \in 1 .. Len(queue) : job[queue[i]].id = id} = {k}
    BY <1>1, <1>3 DEF UniqueEntries
  <2>2. Min({k}) = k
    <3>1. \E x \in {k} : \A y \in {k} : x <= y
      BY <1>1
    <3>. QED
      BY <3>1 DEF Min
  <2>3. SelectInSeq(queue, LAMBDA o : job[o].id = id) = k
    BY <2>1, <2>2 DEF SelectInSeq
  <2>. QED
    BY <1>3, <2>3 DEF WithoutId, RemoveFirstMatch
<1>4. CASE \E k \in 1 .. Len(queue) : job[queue[k]].id = id
  <2>1. PICK k \in 1 .. Len(queue) : job[queue[k]].id = id
    BY <1>4
  <2>2. r = RemoveAt(queue, k)
    BY <1>3, <2>1
  <2>. HIDE DEF r
  <2>3. /\ r \in Seq(S)
        /\ Len(r) = Len(queue) - 1
        /\ \A i \in 1 .. Len(queue) - 1 : r[i] = IF i < k THEN queue[i] ELSE queue[i + 1]
    BY <2>2, RemoveAtLemma
  <2>4. DOMAIN r = 1 .. Len(queue) - 1
    BY <2>3
  <2>5. \A i \in DOMAIN r : \E l \in DOMAIN queue :
           r[i] = queue[l] /\ l # k /\ l = IF i < k THEN i ELSE i + 1
    BY <1>1, <2>3, <2>4
  <2>6. \A l \in DOMAIN queue : l # k => \E i \in DOMAIN r : r[i] = queue[l]
    <3>. SUFFICES ASSUME NEW l \in DOMAIN queue, l # k
                  PROVE  \E i \in DOMAIN r : r[i] = queue[l]
      OBVIOUS
    <3>1. CASE l < k
      BY <3>1, <1>1, <2>3, <2>4
    <3>2. CASE l > k
      <4>1. l - 1 \in DOMAIN r /\ r[l - 1] = queue[l]
        BY <3>2, <1>1, <2>3, <2>4
      <4>. QED
        BY <4>1
    <3>. QED
      BY <3>1, <3>2, <1>1
  <2>7. \A i, l \in DOMAIN r : job[r[i]].id = job[r[l]].id => i = l
    <3>. SUFFICES ASSUME NEW i \in DOMAIN r, NEW l \in DOMAIN r,
                         job[r[i]].id = job[r[l]].id
                  PROVE  i = l
      OBVIOUS
    <3>1. PICK x \in DOMAIN queue : r[i] = queue[x] /\ x = IF i < k THEN i ELSE i + 1
      BY <2>5
    <3>2. PICK y \in DOMAIN queue : r[l] = queue[y] /\ y = IF l < k THEN l ELSE l + 1
      BY <2>5
    <3>3. x = y
      BY <3>1, <3>2 DEF UniqueEntries
    <3>. QED
      BY <1>1, <2>4, <3>1, <3>2, <3>3
  <2>8. \A l \in DOMAIN queue : l # k => job[queue[l]].id # id
    BY <1>1, <2>1 DEF UniqueEntries
  <2>9. \A i \in DOMAIN r : \E l \in DOMAIN queue : r[i] = queue[l] /\ job[queue[l]].id # id
    BY <2>5, <2>8
  <2>10. \A l \in DOMAIN queue : job[queue[l]].id # id => \E i \in DOMAIN r : r[i] = queue[l]
    BY <2>1, <2>6
  <2>. QED
    BY <2>3, <2>7, <2>9, <2>10 DEF r
<1>. QED
  BY <1>1, <1>2, <1>4

(***************************************************************************)
(* What recoverTimeout() and fail() do, as facts that need neither the     *)
(* order of the queue nor its indices.                                     *)
(***************************************************************************)

\* What push at the end of a list (failedQueue.push) adds to its elements.
LEMMA AppendToSet ==
    ASSUME NEW S, NEW s \in Seq(S), NEW e \in S
    PROVE  ToSet(Append(s, e)) = ToSet(s) \cup {e}
  BY AppendProperties, LenProperties DEF ToSet

\* The back-off of retryDelay() is a delay, whatever the attempt.
LEMMA retryDelayNat ==
    ASSUME QueueAssumption, NEW attempt \in Nat
    PROVE  retryDelay(attempt) \in Nat
<1>1. Len(Backoff) \in Nat /\ \A i \in 1 .. Len(Backoff) : Backoff[i] \in Nat
  BY LenProperties, ElementOfSeq DEF QueueAssumption
<1>. QED
  BY <1>1 DEF retryDelay, QueueAssumption

\* One more attempt keeps the id, counts the attempt and clears the reservation.
LEMMA AttemptedLemma ==
    ASSUME NEW p \in JobPayload, NEW availableAt \in Nat
    PROVE  /\ Attempted(p, availableAt) \in JobPayload
           /\ Attempted(p, availableAt).id = p.id
           /\ Attempted(p, availableAt).attempts = p.attempts + 1
           /\ Attempted(p, availableAt).reservedAt = Null
<1>1. /\ p.id \in Jobs
      /\ p.attempts + 1 \in Nat
      /\ p.createdAt \in Nat
      /\ Null \in Nat
  BY DEF JobPayload, Null
<1>. QED
  BY <1>1 DEF JobPayload, Attempted

\* Recovery keeps every id and changes no object of a job it does not count as
\* recovered; it reserves nothing.
LEMMA RecoverLemma ==
    ASSUME TypeOK, recoverTimeout
    PROVE  /\ job' \in Seq(JobPayload)
           /\ DOMAIN job' = DOMAIN job
           /\ Len(job') = Len(job)
           /\ recovered' \subseteq Jobs
           /\ recovered \subseteq recovered'
           /\ \A o \in DOMAIN job : job'[o].id = job[o].id
           /\ \A o \in DOMAIN job : job[o].id \notin recovered' => job'[o] = job[o]
           /\ \A o \in DOMAIN job : job'[o].reservedAt # Null => job[o].reservedAt # Null
<1>1. /\ Len(job) \in Nat
      /\ DOMAIN job = 1 .. Len(job)
      /\ \A o \in DOMAIN job : job[o] \in JobPayload
  BY LenProperties, ElementOfSeq DEF TypeOK
<1>2. \A o \in DOMAIN job :
         job'[o] = IF TimedOut(o)
                   THEN Attempted(job[o], job[o].availableAt)
                   ELSE job[o]
  BY DEF recoverTimeout
<1>3. DOMAIN job' = DOMAIN job
  BY DEF recoverTimeout
<1> DEFINE fresh(o) == Attempted(job[o], job[o].availableAt)
<1>a. \A o \in DOMAIN job : /\ fresh(o) \in JobPayload
                            /\ fresh(o).id = job[o].id
                            /\ fresh(o).reservedAt = Null
  <2>. SUFFICES ASSUME NEW o \in DOMAIN job
                PROVE  /\ fresh(o) \in JobPayload
                       /\ fresh(o).id = job[o].id
                       /\ fresh(o).reservedAt = Null
    OBVIOUS
  <2>1. job[o] \in JobPayload /\ job[o].availableAt \in Nat
    BY <1>1 DEF JobPayload
  <2>. QED
    BY <2>1, AttemptedLemma
<1>b. \A o \in DOMAIN job : job'[o] = IF TimedOut(o) THEN fresh(o) ELSE job[o]
  BY <1>2
<1>. HIDE DEF fresh
<1>4. \A o \in DOMAIN job : job'[o] \in JobPayload
  BY <1>1, <1>a, <1>b
<1>5. job' \in Seq(JobPayload) /\ Len(job') = Len(job)
  <2>1. job' \in [1 .. Len(job) -> JobPayload]
    BY <1>1, <1>3, <1>4 DEF recoverTimeout
  <2>. QED
    BY <2>1, <1>1
<1>6. \A o \in DOMAIN job : job'[o].id = job[o].id
  BY <1>a, <1>b
<1>7. \A o \in DOMAIN job : job[o].id \notin recovered' => job'[o] = job[o]
  BY <1>2 DEF recoverTimeout
<1>8. recovered' \subseteq Jobs /\ recovered \subseteq recovered'
  <2>1. \A o \in DOMAIN job : job[o].id \in Jobs
    BY <1>1 DEF JobPayload
  <2>. QED
    BY <2>1 DEF recoverTimeout, TypeOK
<1>9. \A o \in DOMAIN job : job'[o].reservedAt # Null => job[o].reservedAt # Null
  BY <1>a, <1>b
<1>. QED
  BY <1>3, <1>5, <1>6, <1>7, <1>8, <1>9

\* fail() leaves the entries of other jobs alone, and of the failed job leaves
\* nothing but a retry that nobody has reserved.
LEMMA FailLemma ==
    ASSUME QueueAssumption, TypeOK, UniqueEntries, NEW o \in DOMAIN job, fail(o)
    PROVE  /\ job' \in Seq(JobPayload)
           /\ DOMAIN job \subseteq DOMAIN job'
           /\ \A p \in DOMAIN job : job'[p] = job[p]
           /\ queue' \in Seq(DOMAIN job')
           /\ UniqueEntries'
           /\ failedQueue' \in Seq(Jobs)
           /\ \A k \in DOMAIN queue' :
                 \/ \E l \in DOMAIN queue : /\ queue'[k] = queue[l]
                                            /\ job[queue[l]].id # job[o].id
                 \/ /\ job[o].attempts < MaxRetries
                    /\ job'[queue'[k]].id = job[o].id
                    /\ job'[queue'[k]].attempts = job[o].attempts + 1
                    /\ job'[queue'[k]].reservedAt = Null
           /\ \A l \in DOMAIN queue : job[queue[l]].id # job[o].id =>
                 \E k \in DOMAIN queue' : queue'[k] = queue[l]
           /\ \A p \in DOMAIN job' \ DOMAIN job : job'[p].id = job[o].id
           /\ \/ /\ job[o].attempts < MaxRetries
                 /\ failedQueue' = failedQueue
                 /\ \E k \in DOMAIN queue' : job'[queue'[k]].id = job[o].id
              \/ /\ job[o].attempts >= MaxRetries
                 /\ ToSet(failedQueue') = ToSet(failedQueue) \cup {job[o].id}
<1> DEFINE r == WithoutId(job[o].id)
           new == Attempted(job[o], now + retryDelay(job[o].attempts))
<1>1. /\ Len(job) \in Nat
      /\ DOMAIN job = 1 .. Len(job)
      /\ \A p \in DOMAIN job : job[p] \in JobPayload
  BY LenProperties, ElementOfSeq DEF TypeOK
<1>2. /\ r \in Seq(DOMAIN job)
      /\ \A i \in DOMAIN r :
            \E l \in DOMAIN queue : r[i] = queue[l] /\ job[queue[l]].id # job[o].id
      /\ \A l \in DOMAIN queue :
            job[queue[l]].id # job[o].id => \E i \in DOMAIN r : r[i] = queue[l]
      /\ \A i, l \in DOMAIN r : job[r[i]].id = job[r[l]].id => i = l
  <2>1. queue \in Seq(DOMAIN job)
    BY DEF TypeOK
  <2>. QED
    BY <2>1, WithoutIdLemma
<1>3. /\ Len(r) \in Nat
      /\ DOMAIN r = 1 .. Len(r)
      /\ \A i \in DOMAIN r : r[i] \in DOMAIN job
  <2>. HIDE DEF r
  <2>. QED
    BY <1>2, LenProperties, ElementOfSeq
<1>4. job[o] \in JobPayload
  BY <1>1
<1>5. CASE job[o].attempts < MaxRetries
  <2>1. /\ queue' = Append(r, Len(job) + 1)
        /\ job' = Append(job, new)
        /\ failedQueue' = failedQueue
    BY <1>5, <1>4 DEF fail, QueueAssumption, JobPayload
  <2>2. now + retryDelay(job[o].attempts) \in Nat
    <3>1. job[o].attempts \in Nat /\ now \in Nat
      BY <1>4 DEF JobPayload, TypeOK
    <3>. QED
      BY SMTT(30), <3>1, retryDelayNat
  <2>3. /\ new \in JobPayload
        /\ new.id = job[o].id
        /\ new.attempts = job[o].attempts + 1
        /\ new.reservedAt = Null
    BY <1>4, <2>2, AttemptedLemma
  <2>. HIDE DEF r, new
  <2>4. /\ job' \in Seq(JobPayload)
        /\ DOMAIN job' = 1 .. Len(job) + 1
        /\ \A p \in DOMAIN job : job'[p] = job[p]
        /\ job'[Len(job) + 1] = new
    <3>1. job \in Seq(JobPayload)
      BY DEF TypeOK
    <3>2. job' \in Seq(JobPayload) /\ Len(job') = Len(job) + 1
      BY <2>1, <2>3, <3>1, AppendProperties
    <3>3. DOMAIN job' = 1 .. Len(job')
      BY <3>2, LenProperties
    <3>4. /\ \A p \in 1 .. Len(job) : job'[p] = job[p]
          /\ job'[Len(job) + 1] = new
      BY <2>1, <2>3, <3>1, AppendProperties
    <3>. QED
      BY <1>1, <3>2, <3>3, <3>4
  <2>5. /\ queue' \in Seq(DOMAIN job')
        /\ DOMAIN queue' = 1 .. Len(r) + 1
        /\ \A k \in DOMAIN r : queue'[k] = r[k]
        /\ queue'[Len(r) + 1] = Len(job) + 1
    <3>1. r \in Seq(DOMAIN job')
      BY <1>1, <1>2, <2>4, SeqMonotonic
    <3>2. Len(job) + 1 \in DOMAIN job'
      BY <1>1, <2>4
    <3>3. queue' \in Seq(DOMAIN job') /\ Len(queue') = Len(r) + 1
      BY <2>1, <3>1, <3>2, AppendProperties
    <3>4. DOMAIN queue' = 1 .. Len(queue')
      BY <3>3, LenProperties
    <3>5. /\ \A k \in 1 .. Len(r) : queue'[k] = r[k]
          /\ queue'[Len(r) + 1] = Len(job) + 1
      BY <2>1, <3>1, <3>2, AppendProperties
    <3>. QED
      BY <1>3, <3>3, <3>4, <3>5
  <2>6. \A k \in DOMAIN queue' : k \in DOMAIN r \/ k = Len(r) + 1
    BY <1>3, <2>5
  <2>7. \A k \in DOMAIN r : job'[queue'[k]] = job[r[k]] /\ job[r[k]].id # job[o].id
    BY <1>2, <1>3, <2>4, <2>5
  <2>8. job'[queue'[Len(r) + 1]] = new
    BY <2>4, <2>5
  <2>9. UniqueEntries'
    <3>. SUFFICES ASSUME NEW k \in DOMAIN queue', NEW l \in DOMAIN queue',
                         job'[queue'[k]].id = job'[queue'[l]].id
                  PROVE  k = l
      BY DEF UniqueEntries
    <3>. QED
      BY <1>2, <2>3, <2>6, <2>7, <2>8
  <2>10. \A k \in DOMAIN queue' :
            \/ \E l \in DOMAIN queue : queue'[k] = queue[l] /\ job[queue[l]].id # job[o].id
            \/ job'[queue'[k]] = new
    BY <1>2, <2>5, <2>6, <2>8
  <2>11. \A l \in DOMAIN queue : job[queue[l]].id # job[o].id =>
            \E k \in DOMAIN queue' : queue'[k] = queue[l]
    <3>. SUFFICES ASSUME NEW l \in DOMAIN queue, job[queue[l]].id # job[o].id
                  PROVE  \E k \in DOMAIN queue' : queue'[k] = queue[l]
      OBVIOUS
    <3>1. PICK i \in DOMAIN r : r[i] = queue[l]
      BY <1>2
    <3>2. i \in DOMAIN queue' /\ queue'[i] = queue[l]
      BY <1>3, <2>5, <3>1
    <3>. QED
      BY <3>2
  <2>12. \A p \in DOMAIN job' \ DOMAIN job : job'[p].id = job[o].id
    <3>1. \A p \in DOMAIN job' \ DOMAIN job : p = Len(job) + 1
      BY <1>1, <2>4
    <3>. QED
      BY <2>3, <2>4, <3>1
  <2>13. \E k \in DOMAIN queue' : job'[queue'[k]].id = job[o].id
    <3>1. Len(r) + 1 \in DOMAIN queue'
      BY <1>3, <2>5
    <3>. QED
      BY <2>3, <2>8, <3>1
  <2>14. DOMAIN job \subseteq DOMAIN job' /\ failedQueue' \in Seq(Jobs)
    BY <1>1, <2>1, <2>4 DEF TypeOK
  <2>. QED
    BY <1>5, <2>1, <2>3, <2>4, <2>5, <2>9, <2>10, <2>11, <2>12, <2>13, <2>14
<1>6. CASE ~(job[o].attempts < MaxRetries)
  <2>1. /\ queue' = r
        /\ job' = job
        /\ failedQueue' = Append(failedQueue, job[o].id)
        /\ job[o].attempts >= MaxRetries
    BY <1>6 DEF fail
  <2>. HIDE DEF r
  <2>2. job[o].id \in Jobs
    BY <1>4 DEF JobPayload
  <2>3. failedQueue' \in Seq(Jobs)
    BY <2>1, <2>2, AppendProperties DEF TypeOK
  <2>4. ToSet(failedQueue') = ToSet(failedQueue) \cup {job[o].id}
    BY <2>1, <2>2, AppendToSet DEF TypeOK
  <2>5. UniqueEntries'
    BY <1>2, <2>1 DEF UniqueEntries
  <2>. QED
    BY <1>2, <2>1, <2>3, <2>4, <2>5 DEF TypeOK
<1>. QED
  BY <1>5, <1>6

(***************************************************************************)
(* Type correctness.  UniqueEntries is needed to know what fail() removes. *)
(***************************************************************************)

\* The object a tick holds, and those the queue refers to, are payloads that
\* exist: what the code gets from TypeScript's types.
LEMMA ObjectFacts ==
    ASSUME TypeOK
    PROVE  /\ Len(job) \in Nat
           /\ DOMAIN job = 1 .. Len(job)
           /\ \A o \in DOMAIN job : job[o] \in JobPayload
           /\ Len(queue) \in Nat
           /\ DOMAIN queue = 1 .. Len(queue)
           /\ \A k \in DOMAIN queue : queue[k] \in DOMAIN job
           /\ \A t \in Ticks : Holds(t) => tick[t].obj \in DOMAIN job
           /\ \A t \in Ticks : Holds(t) => HeldId(t) \in Jobs
<1>1. /\ Len(job) \in Nat
      /\ DOMAIN job = 1 .. Len(job)
      /\ \A o \in DOMAIN job : job[o] \in JobPayload
  BY LenProperties, ElementOfSeq DEF TypeOK
<1>2. /\ Len(queue) \in Nat
      /\ DOMAIN queue = 1 .. Len(queue)
      /\ \A k \in DOMAIN queue : queue[k] \in DOMAIN job
  BY LenProperties, ElementOfSeq DEF TypeOK
<1>3. \A t \in Ticks : Holds(t) => tick[t].obj \in DOMAIN job
  BY DEF TypeOK, Holds
<1>. QED
  BY <1>1, <1>2, <1>3 DEF HeldId, JobPayload

\* push() of a new object: what it adds and what it keeps.
LEMMA PushLemma ==
    ASSUME QueueAssumption, TypeOK, NEW j \in Jobs, NEW delay \in Delays, Push(j, delay)
    PROVE  /\ job' \in Seq(JobPayload)
           /\ Len(job') = Len(job) + 1
           /\ DOMAIN job' = 1 .. Len(job) + 1
           /\ \A p \in DOMAIN job : job'[p] = job[p]
           /\ /\ job'[Len(job) + 1].id = j
              /\ job'[Len(job) + 1].attempts = 0
              /\ job'[Len(job) + 1].reservedAt = Null
           /\ queue' \in Seq(DOMAIN job')
           /\ \E k \in 1 .. Len(queue) + 1 :
                 /\ DOMAIN queue' = 1 .. Len(queue) + 1
                 /\ \A i \in DOMAIN queue' :
                       queue'[i] = IF i < k THEN queue[i]
                                   ELSE IF i = k THEN Len(job) + 1 ELSE queue[i - 1]
<1> DEFINE new == [id |-> j, attempts |-> 0, createdAt |-> now,
                   availableAt |-> now + delay, reservedAt |-> Null]
<1>1. new \in JobPayload
  <2>1. now + delay \in Nat /\ now \in Nat /\ Null \in Nat
    BY DEF TypeOK, QueueAssumption, Null
  <2>. QED
    BY <2>1 DEF JobPayload
<1>2. job' = Append(job, new) /\ job \in Seq(JobPayload)
  BY DEF Push, TypeOK
<1>3. new.id = j /\ new.attempts = 0 /\ new.reservedAt = Null
  OBVIOUS
<1>. HIDE DEF new
<1>4. /\ job' \in Seq(JobPayload)
      /\ Len(job') = Len(job) + 1
      /\ \A p \in 1 .. Len(job) : job'[p] = job[p]
      /\ job'[Len(job) + 1] = new
  BY <1>1, <1>2, AppendProperties
<1>5. DOMAIN job' = 1 .. Len(job) + 1
  BY <1>4, LenProperties
<1>6. PICK k \in 1 .. Len(queue) + 1 : queue' = InsertAt(queue, k, Len(job) + 1)
  BY DEF Push
<1>7. queue \in Seq(DOMAIN job') /\ Len(job) + 1 \in DOMAIN job'
  <2>1. DOMAIN job \subseteq DOMAIN job'
    BY <1>5, ObjectFacts
  <2>2. queue \in Seq(DOMAIN job)
    BY DEF TypeOK
  <2>. QED
    BY <1>5, <2>1, <2>2, ObjectFacts, SeqMonotonic
<1>8. /\ queue' \in Seq(DOMAIN job')
      /\ Len(queue') = Len(queue) + 1
      /\ \A i \in 1 .. Len(queue) + 1 :
            queue'[i] = IF i < k THEN queue[i] ELSE IF i = k THEN Len(job) + 1 ELSE queue[i - 1]
  BY <1>6, <1>7, InsertAtLemma
<1>9. DOMAIN queue' = 1 .. Len(queue) + 1
  BY <1>8, LenProperties
<1>. QED
  BY <1>3, <1>4, <1>5, <1>8, <1>9, ObjectFacts

\* complete() takes out the entry with the job's id and no other.
LEMMA CompleteLemma ==
    ASSUME TypeOK, UniqueEntries, NEW id, job' = job, queue' = WithoutId(id)
    PROVE  /\ queue' \in Seq(DOMAIN job')
           /\ UniqueEntries'
           /\ \A k \in DOMAIN queue' :
                 \E l \in DOMAIN queue : queue'[k] = queue[l] /\ job[queue[l]].id # id
           /\ \A l \in DOMAIN queue : job[queue[l]].id # id =>
                 \E k \in DOMAIN queue' : queue'[k] = queue[l]
<1>1. queue \in Seq(DOMAIN job)
  BY DEF TypeOK
<1>2. /\ WithoutId(id) \in Seq(DOMAIN job)
      /\ \A i \in DOMAIN WithoutId(id) :
            \E l \in DOMAIN queue : WithoutId(id)[i] = queue[l] /\ job[queue[l]].id # id
      /\ \A l \in DOMAIN queue :
            job[queue[l]].id # id => \E i \in DOMAIN WithoutId(id) : WithoutId(id)[i] = queue[l]
      /\ \A i, l \in DOMAIN WithoutId(id) :
            job[WithoutId(id)[i]].id = job[WithoutId(id)[l]].id => i = l
  BY <1>1, WithoutIdLemma
<1>3. UniqueEntries'
  BY <1>2 DEF UniqueEntries
<1>. QED
  BY <1>2, <1>3

\* pop() reserves one entry, the first that is eligible, and hands out that very
\* object.
LEMMA PopLemma ==
    ASSUME TypeOK, NEW t \in Ticks, NEW round \in 0 .. BatchSize - 1, PopAs(t, round)
    PROVE  \E k \in DOMAIN queue :
              /\ job[queue[k]].reservedAt = Null
              /\ job' \in Seq(JobPayload)
              /\ DOMAIN job' = DOMAIN job
              /\ \A o \in DOMAIN job : o # queue[k] => job'[o] = job[o]
              /\ /\ job'[queue[k]].id = job[queue[k]].id
                 /\ job'[queue[k]].attempts = job[queue[k]].attempts
                 /\ job'[queue[k]].reservedAt # Null
              /\ tick' = [tick EXCEPT ![t] = [pc |-> "process", n |-> round,
                                             obj |-> queue[k], since |-> now]]
              /\ runs' = [runs EXCEPT ![job[queue[k]].id] = @ + 1]
<1>1. PICK k \in DOMAIN queue :
         /\ Eligible(queue[k])
         /\ job' = [job EXCEPT ![queue[k]].reservedAt = now]
         /\ runs' = [runs EXCEPT ![job[queue[k]].id] = @ + 1]
         /\ tick' = [tick EXCEPT ![t] = [pc |-> "process", n |-> round,
                                        obj |-> queue[k], since |-> now]]
  BY DEF PopAs, Goto
<1>2. queue[k] \in DOMAIN job /\ job[queue[k]] \in JobPayload /\ DOMAIN job = 1 .. Len(job)
  BY ObjectFacts
<1> DEFINE new == [job[queue[k]] EXCEPT !.reservedAt = now]
<1>3. /\ new \in JobPayload
      /\ new.id = job[queue[k]].id
      /\ new.attempts = job[queue[k]].attempts
      /\ new.reservedAt = now
  BY <1>2 DEF JobPayload, TypeOK
<1>4. job' = [job EXCEPT ![queue[k]] = new]
  BY <1>1
<1>. HIDE DEF new
<1>5. /\ job' \in Seq(JobPayload)
      /\ \A o \in DOMAIN job : job'[o] = IF o = queue[k] THEN new ELSE job[o]
  BY <1>2, <1>3, <1>4, ExceptSeq DEF TypeOK
<1>6. DOMAIN job' = DOMAIN job
  BY <1>4
<1>7. now # Null
  BY DEF TypeOK, Null
<1>. QED
  BY <1>1, <1>2, <1>3, <1>5, <1>6, <1>7 DEF Eligible

(***************************************************************************)
(* The type invariant and UniqueEntries are preserved together.            *)
(***************************************************************************)

\* After i++ a tick is idle or about to pop: it holds no job either way.
LEMMA NextRoundType ==
    ASSUME QueueAssumption, TypeOK, NEW t \in Ticks, tick' = [tick EXCEPT ![t] = NextRound(t)]
    PROVE  /\ tick' \in [Ticks -> TickState]
           /\ \A u \in Ticks : Holds(u)' => u # t /\ Holds(u) /\ tick'[u] = tick[u]
<1>1. tick[t] \in TickState
  BY DEF TypeOK
<1>2. NextRound(t) \in TickState
  BY <1>1 DEF NextRound, Popping, Idle, TickState, QueueAssumption
<1>3. NextRound(t).pc \in {"pop", "idle"}
  BY DEF NextRound, Popping, Idle
<1>4. tick'[t] = NextRound(t) /\ \A u \in Ticks \ {t} : tick'[u] = tick[u]
  BY DEF TypeOK
<1>5. tick' \in [Ticks -> TickState]
  BY <1>2 DEF TypeOK
<1>. QED
  BY <1>3, <1>4, <1>5 DEF Holds

(***************************************************************************)
(* IInv is inductive: one lemma per kind of step.                          *)
(***************************************************************************)

\* Steps that touch neither the payloads nor the queue nor who holds what:
\* register, work, stop, flushFailed, the call of a handler, the end of a tick
\* that finds nothing, the clock.
LEMMA QuietStep ==
    ASSUME IInv, TypeOK',
           UNCHANGED <<job, queue, pushed, done, recovered, runs>>,
           ToSet(failedQueue') \subseteq ToSet(failedQueue),
           \A t \in Ticks : /\ Holds(t)' <=> Holds(t)
                            /\ Holds(t) => tick'[t].obj = tick[t].obj
    PROVE  IInv'
<1>1. \A t \in Ticks : Holds(t)' => HeldId(t)' = HeldId(t)
  BY DEF HeldId
<1>2. QueuedIds' = QueuedIds
  BY DEF QueuedIds
<1>3. UniqueEntries'
  BY DEF IInv, UniqueEntries
<1>4. ReservedHeld'
  BY DEF IInv, ReservedHeld
<1>5. OnlyPushed'
  BY DEF IInv, OnlyPushed
<1>6. OneHolder'
  BY <1>1 DEF IInv, OneHolder
<1>7. Finished'
  BY <1>1, <1>2 DEF IInv, Finished
<1>8. Counted'
  BY <1>1 DEF IInv, Counted
<1>. QED
  BY <1>3, <1>4, <1>5, <1>6, <1>7, <1>8 DEF IInv

\* Queue.push() and Queue.later() of a new id keep the invariant.
LEMMA PushStep ==
    ASSUME QueueAssumption, IInv, NEW j \in Jobs, NEW delay \in Delays, Push(j, delay)
    PROVE  IInv'
<1> DEFINE new == Len(job) + 1
<1>. /\ TypeOK /\ UniqueEntries /\ ReservedHeld /\ OnlyPushed
     /\ OneHolder /\ Finished /\ Counted
  BY DEF IInv
<1>1. /\ job' \in Seq(JobPayload)
      /\ DOMAIN job' = 1 .. new
      /\ \A p \in DOMAIN job : job'[p] = job[p]
      /\ job'[new].id = j
      /\ job'[new].attempts = 0
      /\ job'[new].reservedAt = Null
      /\ queue' \in Seq(DOMAIN job')
  BY PushLemma
<1>2. PICK at \in 1 .. Len(queue) + 1 :
         /\ DOMAIN queue' = 1 .. Len(queue) + 1
         /\ \A i \in DOMAIN queue' :
               queue'[i] = IF i < at THEN queue[i] ELSE IF i = at THEN new ELSE queue[i - 1]
  BY PushLemma
<1>3. /\ j \notin pushed
      /\ pushed' = pushed \cup {j}
      /\ UNCHANGED <<now, failedQueue, handlers, running, tick, done, recovered, discarded, runs>>
  BY DEF Push
<1>4. \A k \in DOMAIN queue' : k # at =>
         \E l \in DOMAIN queue : /\ l = IF k < at THEN k ELSE k - 1
                                /\ queue'[k] = queue[l]
                                /\ job'[queue'[k]] = job[queue[l]]
                                /\ job[queue[l]].id \in pushed
  <2>. SUFFICES ASSUME NEW k \in DOMAIN queue', k # at
                PROVE  LET l == IF k < at THEN k ELSE k - 1
                       IN  /\ l \in DOMAIN queue
                           /\ queue'[k] = queue[l]
                           /\ job'[queue'[k]] = job[queue[l]]
                           /\ job[queue[l]].id \in pushed
    OBVIOUS
  <2> DEFINE l == IF k < at THEN k ELSE k - 1
  <2>1. l \in DOMAIN queue /\ queue'[k] = queue[l]
    BY <1>2, ObjectFacts
  <2>2. queue[l] \in DOMAIN job
    BY <2>1, ObjectFacts
  <2>3. job'[queue[l]] = job[queue[l]] /\ job[queue[l]].id \in pushed
    BY <1>1, <2>2 DEF OnlyPushed
  <2>. QED
    BY <2>1, <2>3
<1>5. queue'[at] = new /\ at \in DOMAIN queue'
  BY <1>2, ObjectFacts
<1>6. \A t \in Ticks : /\ Holds(t)' <=> Holds(t)
                       /\ Holds(t) => /\ tick'[t].obj = tick[t].obj
                                      /\ tick[t].obj \in DOMAIN job
                                      /\ job'[tick[t].obj] = job[tick[t].obj]
                                      /\ HeldId(t)' = HeldId(t)
                                      /\ HeldId(t) \in pushed
  BY <1>1, <1>3, ObjectFacts DEF Holds, HeldId, OnlyPushed
<1>7. TypeOK'
  BY <1>1, <1>3, <1>6, ObjectFacts DEF TypeOK
<1>8. UniqueEntries'
  <2>. SUFFICES ASSUME NEW k \in DOMAIN queue', NEW m \in DOMAIN queue',
                       job'[queue'[k]].id = job'[queue'[m]].id
                PROVE  k = m
    BY DEF UniqueEntries
  <2>1. CASE k = at \/ m = at
    BY <1>1, <1>3, <1>4, <1>5, <2>1
  <2>2. CASE k # at /\ m # at
    <3>1. PICK x \in DOMAIN queue : /\ x = IF k < at THEN k ELSE k - 1
                                    /\ job'[queue'[k]] = job[queue[x]]
      BY <1>4, <2>2
    <3>2. PICK y \in DOMAIN queue : /\ y = IF m < at THEN m ELSE m - 1
                                    /\ job'[queue'[m]] = job[queue[y]]
      BY <1>4, <2>2
    <3>3. x = y
      BY <3>1, <3>2 DEF UniqueEntries
    <3>. QED
      BY <1>2, <2>2, <3>1, <3>2, <3>3, ObjectFacts
  <2>. QED
    BY <2>1, <2>2
<1>9. ReservedHeld'
  <2>. SUFFICES ASSUME NEW k \in DOMAIN queue', job'[queue'[k]].reservedAt # Null
                PROVE  \E t \in Ticks : Holds(t)' /\ tick'[t].obj = queue'[k]
    BY DEF ReservedHeld
  <2>1. k # at
    BY <1>1, <1>5
  <2>2. PICK l \in DOMAIN queue : queue'[k] = queue[l] /\ job'[queue'[k]] = job[queue[l]]
    BY <1>4, <2>1
  <2>3. PICK t \in Ticks : Holds(t) /\ tick[t].obj = queue[l]
    BY <2>2 DEF ReservedHeld
  <2>. QED
    BY <1>6, <2>2, <2>3
<1>10. OnlyPushed'
  <2>1. \A o \in DOMAIN job' : job'[o].id \in pushed'
    BY <1>1, <1>3, ObjectFacts DEF OnlyPushed
  <2>. QED
    BY <1>3, <2>1 DEF OnlyPushed
<1>11. OneHolder'
  BY SMTT(30), <1>1, <1>3, <1>4, <1>5, <1>6 DEF OneHolder
<1>12. Finished'
  <2>1. QueuedIds' \subseteq QueuedIds \cup {j}
    <3>. SUFFICES ASSUME NEW k \in DOMAIN queue'
                  PROVE  job'[queue'[k]].id \in QueuedIds \cup {j}
      BY DEF QueuedIds
    <3>1. CASE k = at
      BY <1>1, <1>5, <3>1
    <3>2. CASE k # at
      BY <1>4, <3>2 DEF QueuedIds
    <3>. QED
      BY <3>1, <3>2
  <2>2. j \notin done \cup ToSet(failedQueue)
    BY <1>3 DEF OnlyPushed
  <2>. QED
    BY <1>3, <1>6, <2>1, <2>2 DEF Finished
<1>13. Counted'
  <2>1. runs[j] = 0
    BY <1>3 DEF OnlyPushed
  <2>2. MaxRetries \in Nat
    BY DEF QueueAssumption
  <2>3. ASSUME NEW k \in DOMAIN queue', job'[queue'[k]].id \notin recovered'
        PROVE  /\ job'[queue'[k]].attempts <= MaxRetries
               /\ job'[queue'[k]].reservedAt = Null =>
                     runs'[job'[queue'[k]].id] = job'[queue'[k]].attempts
    <3>1. CASE k = at
      BY <1>1, <1>3, <1>5, <2>1, <2>2, <3>1
    <3>2. CASE k # at
      <4>1. PICK l \in DOMAIN queue : job'[queue'[k]] = job[queue[l]]
        BY <1>4, <3>2
      <4>. QED
        BY <1>3, <2>3, <4>1 DEF Counted
    <3>. QED
      BY <3>1, <3>2
  <2>4. ASSUME NEW t \in Ticks, Holds(t)', HeldId(t)' \notin recovered'
        PROVE  /\ job'[tick'[t].obj].attempts <= MaxRetries
               /\ runs'[HeldId(t)'] = job'[tick'[t].obj].attempts + 1
    BY <1>3, <1>6, <2>4 DEF Counted
  <2>5. \A i \in Jobs \ recovered' : runs'[i] <= MaxRetries + 1
    BY <1>3 DEF Counted
  <2>. QED
    BY <2>3, <2>4, <2>5 DEF Counted
<1>. QED
  BY <1>7, <1>8, <1>9, <1>10, <1>11, <1>12, <1>13 DEF IInv

\* recoverTimeout(), whoever calls it: what it changes belongs to jobs that are
\* recovered from now on.
LEMMA RecoverStep ==
    ASSUME IInv, recoverTimeout, TypeOK',
           UNCHANGED <<queue, failedQueue, pushed, done, discarded, runs>>,
           \A t \in Ticks : /\ Holds(t)' <=> Holds(t)
                            /\ Holds(t) => tick'[t].obj = tick[t].obj
    PROVE  IInv'
<1>. /\ TypeOK /\ UniqueEntries /\ ReservedHeld /\ OnlyPushed
     /\ OneHolder /\ Finished /\ Counted
  BY DEF IInv
<1>1. /\ DOMAIN job' = DOMAIN job
      /\ recovered \subseteq recovered'
      /\ \A o \in DOMAIN job : job'[o].id = job[o].id
      /\ \A o \in DOMAIN job : job[o].id \notin recovered' => job'[o] = job[o]
      /\ \A o \in DOMAIN job : job'[o].reservedAt # Null => job[o].reservedAt # Null
  BY RecoverLemma
<1>2. \A k \in DOMAIN queue : queue[k] \in DOMAIN job /\ job'[queue[k]].id = job[queue[k]].id
  BY <1>1, ObjectFacts
<1>3. \A t \in Ticks : /\ Holds(t)' <=> Holds(t)
                       /\ Holds(t) => /\ tick'[t].obj = tick[t].obj
                                      /\ tick[t].obj \in DOMAIN job
                                      /\ HeldId(t)' = HeldId(t)
  BY <1>1, ObjectFacts DEF HeldId
<1>4. QueuedIds' = QueuedIds
  BY <1>2 DEF QueuedIds
<1>5. UniqueEntries'
  BY <1>2 DEF UniqueEntries
<1>6. ReservedHeld'
  BY <1>1, <1>2, <1>3 DEF ReservedHeld
<1>7. OnlyPushed'
  BY <1>1 DEF OnlyPushed
<1>8. OneHolder'
  BY <1>1, <1>2, <1>3 DEF OneHolder, HeldId
<1>9. Finished'
  BY <1>1, <1>3, <1>4 DEF Finished
<1>10. Counted'
  BY <1>1, <1>2, <1>3 DEF Counted, HeldId
<1>. QED
  BY <1>5, <1>6, <1>7, <1>8, <1>9, <1>10 DEF IInv

\* A pop hands out a job that nobody holds and that has not ended.
LEMMA PopStep ==
    ASSUME QueueAssumption, IInv, NEW t \in Ticks, NEW round \in 0 .. BatchSize - 1,
           ~Holds(t), PopAs(t, round)
    PROVE  IInv'
<1>. /\ TypeOK /\ UniqueEntries /\ ReservedHeld /\ OnlyPushed
     /\ OneHolder /\ Finished /\ Counted
  BY DEF IInv
<1>1. PICK k \in DOMAIN queue :
         /\ job[queue[k]].reservedAt = Null
         /\ job' \in Seq(JobPayload)
         /\ DOMAIN job' = DOMAIN job
         /\ \A o \in DOMAIN job : o # queue[k] => job'[o] = job[o]
         /\ /\ job'[queue[k]].id = job[queue[k]].id
            /\ job'[queue[k]].attempts = job[queue[k]].attempts
            /\ job'[queue[k]].reservedAt # Null
         /\ tick' = [tick EXCEPT ![t] = [pc |-> "process", n |-> round,
                                        obj |-> queue[k], since |-> now]]
         /\ runs' = [runs EXCEPT ![job[queue[k]].id] = @ + 1]
  BY PopLemma
<1> DEFINE j == job[queue[k]].id
<1>2. UNCHANGED <<now, queue, failedQueue, handlers, running, pushed, done, recovered, discarded>>
  BY DEF PopAs
<1>3. queue[k] \in DOMAIN job /\ j \in Jobs /\ j \in pushed /\ j \in QueuedIds
  BY ObjectFacts DEF JobPayload, OnlyPushed, QueuedIds
<1>4. \A o \in DOMAIN job : job'[o].id = job[o].id /\ job'[o].attempts = job[o].attempts
  BY <1>1
<1>5. /\ Holds(t)' /\ tick'[t].obj = queue[k] /\ HeldId(t)' = j
      /\ \A u \in Ticks \ {t} : /\ tick'[u] = tick[u]
                                /\ Holds(u)' <=> Holds(u)
                                /\ Holds(u) => HeldId(u)' = HeldId(u)
  BY <1>1, <1>4, ObjectFacts DEF TypeOK, Holds, HeldId
<1>6. /\ runs'[j] = runs[j] + 1
      /\ \A i \in Jobs \ {j} : runs'[i] = runs[i]
      /\ runs' \in [Jobs -> Nat]
  BY <1>1, <1>3 DEF TypeOK
<1>7. \A i \in DOMAIN queue : queue[i] \in DOMAIN job /\ (queue[i] = queue[k] => i = k)
  BY ObjectFacts DEF UniqueEntries
<1>8. \A u \in Ticks : Holds(u) /\ HeldId(u) = j => j \in recovered
  BY <1>1 DEF OneHolder
<1>9. TypeOK'
  <2>1. tick' \in [Ticks -> TickState]
    <3>1. queue[k] \in Nat /\ now \in Nat
      BY <1>3, ObjectFacts DEF TypeOK
    <3>. QED
      BY <1>1, <3>1 DEF TypeOK, TickState
  <2>2. \A u \in Ticks : tick'[u].pc \in {"process", "handler"} => tick'[u].obj \in DOMAIN job'
    BY <1>1, <1>3, <1>5 DEF TypeOK
  <2>. QED
    BY <1>1, <1>2, <1>6, <2>1, <2>2 DEF TypeOK
<1>10. UniqueEntries'
  BY <1>2, <1>4, <1>7 DEF UniqueEntries
<1>11. ReservedHeld'
  <2>. SUFFICES ASSUME NEW i \in DOMAIN queue, job'[queue[i]].reservedAt # Null
                PROVE  \E u \in Ticks : Holds(u)' /\ tick'[u].obj = queue[i]
    BY <1>2 DEF ReservedHeld
  <2>1. CASE queue[i] = queue[k]
    BY <1>5, <2>1
  <2>2. CASE queue[i] # queue[k]
    <3>1. job[queue[i]].reservedAt # Null
      BY <1>1, <1>7, <2>2
    <3>2. PICK u \in Ticks : Holds(u) /\ tick[u].obj = queue[i]
      BY <3>1 DEF ReservedHeld
    <3>3. u # t
      BY <3>2
    <3>. QED
      BY <1>5, <3>2, <3>3
  <2>. QED
    BY <2>1, <2>2
<1>12. OnlyPushed'
  BY <1>1, <1>2, <1>3, <1>4, <1>6 DEF OnlyPushed
<1>13. OneHolder'
  <2>. SUFFICES ASSUME NEW u \in Ticks, Holds(u)', HeldId(u)' \notin recovered
                PROVE  /\ \A v \in Ticks : Holds(v)' /\ HeldId(v)' = HeldId(u)' => v = u
                       /\ \A i \in DOMAIN queue : job'[queue[i]].id = HeldId(u)' =>
                             queue[i] = tick'[u].obj /\ job'[queue[i]].reservedAt # Null
    BY <1>2 DEF OneHolder
  <2>1. CASE u = t
    BY <1>1, <1>4, <1>5, <1>7, <1>8, <2>1 DEF UniqueEntries
  <2>2. CASE u # t
    <3>1. Holds(u) /\ HeldId(u)' = HeldId(u) /\ HeldId(u) # j /\ tick'[u] = tick[u]
      BY <1>5, <1>8, <2>2
    <3>. QED
      BY <1>1, <1>4, <1>5, <1>7, <3>1 DEF OneHolder
  <2>. QED
    BY <2>1, <2>2
<1>14. Finished'
  <2>1. QueuedIds' = QueuedIds
    BY <1>2, <1>4, <1>7 DEF QueuedIds
  <2>. QED
    BY <1>2, <1>3, <1>5, <2>1 DEF Finished
<1>15. Counted'
  <2>0. MaxRetries \in Nat
    BY DEF QueueAssumption
  <2>1. ASSUME NEW u \in Ticks, Holds(u)', HeldId(u)' \notin recovered
        PROVE  /\ job'[tick'[u].obj].attempts <= MaxRetries
               /\ runs'[HeldId(u)'] = job'[tick'[u].obj].attempts + 1
    <3>1. CASE u = t
      BY <1>1, <1>5, <1>6, <2>1, <3>1 DEF Counted
    <3>2. CASE u # t
      <4>1. Holds(u) /\ HeldId(u)' = HeldId(u) /\ HeldId(u) # j /\ tick'[u] = tick[u]
        BY <1>5, <1>8, <2>1, <3>2
      <4>2. HeldId(u) \in Jobs /\ tick[u].obj \in DOMAIN job
        BY <4>1, ObjectFacts
      <4>. QED
        BY <1>4, <1>6, <2>1, <4>1, <4>2 DEF Counted
    <3>. QED
      BY <3>1, <3>2
  <2>2. ASSUME NEW i \in DOMAIN queue, job'[queue[i]].id \notin recovered
        PROVE  /\ job'[queue[i]].attempts <= MaxRetries
               /\ job'[queue[i]].reservedAt = Null =>
                     runs'[job'[queue[i]].id] = job'[queue[i]].attempts
    <3>1. CASE i = k
      BY <1>1, <2>2, <3>1 DEF Counted
    <3>2. CASE i # k
      <4>1. job'[queue[i]] = job[queue[i]] /\ job[queue[i]].id # j
        BY <1>1, <1>7, <3>2 DEF UniqueEntries
      <4>2. job[queue[i]].id \in Jobs
        BY <1>7, ObjectFacts DEF JobPayload
      <4>. QED
        BY <1>6, <2>2, <4>1, <4>2 DEF Counted
    <3>. QED
      BY <3>1, <3>2
  <2>3. ASSUME NEW i \in Jobs \ recovered
        PROVE  runs'[i] <= MaxRetries + 1
    <3>1. CASE i = j
      <4>1. runs[j] = job[queue[k]].attempts /\ job[queue[k]].attempts <= MaxRetries
        BY <1>1, <2>3, <3>1 DEF Counted
      <4>2. job[queue[k]].attempts \in Nat
        BY <1>3, ObjectFacts DEF JobPayload
      <4>. QED
        BY <1>6, <2>0, <3>1, <4>1, <4>2
    <3>2. CASE i # j
      BY <1>6, <3>2 DEF Counted
    <3>. QED
      BY <3>1, <3>2
  <2>. QED
    BY <1>2, <2>1, <2>2, <2>3 DEF Counted
<1>. QED
  BY <1>9, <1>10, <1>11, <1>12, <1>13, <1>14, <1>15 DEF IInv

\* A handler that resolves ends its job: nobody else holds it and nothing of it
\* stays queued.
LEMMA HandlerOkStep ==
    ASSUME QueueAssumption, IInv, NEW t \in Ticks, HandlerOk(t)
    PROVE  IInv'
<1>. /\ TypeOK /\ UniqueEntries /\ ReservedHeld /\ OnlyPushed
     /\ OneHolder /\ Finished /\ Counted
  BY DEF IInv
<1> DEFINE j == HeldId(t)
<1>1. /\ Holds(t)
      /\ queue' = WithoutId(j)
      /\ done' = done \cup {j}
      /\ tick' = [tick EXCEPT ![t] = NextRound(t)]
      /\ UNCHANGED <<now, job, failedQueue, handlers, running, pushed, recovered, discarded, runs>>
  BY DEF HandlerOk, Holds, Goto
<1>2. j \in Jobs /\ tick[t].obj \in DOMAIN job /\ j \in pushed
  BY <1>1, ObjectFacts DEF OnlyPushed, HeldId
<1>. HIDE DEF j
<1>3. /\ tick' \in [Ticks -> TickState]
      /\ \A u \in Ticks : Holds(u)' => u # t /\ Holds(u) /\ tick'[u] = tick[u]
  BY <1>1, NextRoundType
<1>4. \A u \in Ticks : Holds(u)' => HeldId(u)' = HeldId(u) /\ tick[u].obj \in DOMAIN job
  BY <1>1, <1>3, ObjectFacts DEF HeldId
<1>5. /\ queue' \in Seq(DOMAIN job')
      /\ UniqueEntries'
      /\ \A k \in DOMAIN queue' :
            \E l \in DOMAIN queue : queue'[k] = queue[l] /\ job[queue[l]].id # j
  BY <1>1, CompleteLemma
<1>6. TypeOK'
  BY <1>1, <1>2, <1>3, <1>4, <1>5 DEF TypeOK, Holds
<1>7. ReservedHeld'
  <2>. SUFFICES ASSUME NEW k \in DOMAIN queue', job[queue'[k]].reservedAt # Null
                PROVE  \E u \in Ticks : Holds(u)' /\ tick'[u].obj = queue'[k]
    BY <1>1 DEF ReservedHeld
  <2>1. PICK l \in DOMAIN queue : queue'[k] = queue[l] /\ job[queue[l]].id # j
    BY <1>5
  <2>2. PICK u \in Ticks : Holds(u) /\ tick[u].obj = queue[l]
    BY <2>1 DEF ReservedHeld
  <2>3. u # t
    BY <2>1, <2>2 DEF j, HeldId
  <2>4. tick'[u] = tick[u]
    BY <1>1, <2>3 DEF TypeOK
  <2>. QED
    BY <2>1, <2>2, <2>4 DEF Holds
<1>8. OnlyPushed'
  BY <1>1, <1>2 DEF OnlyPushed
<1>9. OneHolder'
  <2>. SUFFICES ASSUME NEW u \in Ticks, Holds(u)', HeldId(u)' \notin recovered
                PROVE  /\ \A v \in Ticks : Holds(v)' /\ HeldId(v)' = HeldId(u)' => v = u
                       /\ \A k \in DOMAIN queue' : job[queue'[k]].id = HeldId(u)' =>
                             queue'[k] = tick'[u].obj /\ job[queue'[k]].reservedAt # Null
    BY <1>1 DEF OneHolder
  <2>. QED
    BY <1>3, <1>4, <1>5 DEF OneHolder
<1>10. Finished'
  <2>1. QueuedIds' \subseteq QueuedIds \ {j}
    BY <1>1, <1>5 DEF QueuedIds
  <2>2. ASSUME NEW i \in (done' \cup ToSet(failedQueue)) \ recovered, i # j
        PROVE  /\ i \notin QueuedIds'
               /\ \A u \in Ticks : Holds(u)' => HeldId(u)' # i
               /\ ~(i \in done' /\ i \in ToSet(failedQueue))
    BY <1>1, <1>3, <1>4, <2>1, <2>2 DEF Finished
  <2>3. ASSUME j \notin recovered
        PROVE  /\ j \notin QueuedIds'
               /\ \A u \in Ticks : Holds(u)' => HeldId(u)' # j
               /\ j \notin ToSet(failedQueue)
    <3>1. \A u \in Ticks : Holds(u)' => HeldId(u)' # j
      BY <1>1, <1>3, <1>4, <2>3 DEF OneHolder, j
    <3>2. j \notin ToSet(failedQueue)
      BY <1>1, <2>3 DEF Finished, j
    <3>. QED
      BY <2>1, <3>1, <3>2
  <2>. QED
    BY <1>1, <2>2, <2>3 DEF Finished
<1>11. Counted'
  <2>1. ASSUME NEW u \in Ticks, Holds(u)', HeldId(u)' \notin recovered
        PROVE  /\ job[tick'[u].obj].attempts <= MaxRetries
               /\ runs[HeldId(u)'] = job[tick'[u].obj].attempts + 1
    BY <1>3, <1>4, <2>1 DEF Counted
  <2>2. ASSUME NEW k \in DOMAIN queue', job[queue'[k]].id \notin recovered
        PROVE  /\ job[queue'[k]].attempts <= MaxRetries
               /\ job[queue'[k]].reservedAt = Null =>
                     runs[job[queue'[k]].id] = job[queue'[k]].attempts
    BY <1>5, <2>2 DEF Counted
  <2>3. \A i \in Jobs \ recovered : runs[i] <= MaxRetries + 1
    BY DEF Counted
  <2>. QED
    BY <1>1, <2>1, <2>2, <2>3 DEF Counted
<1>. QED
  BY <1>5, <1>6, <1>7, <1>8, <1>9, <1>10, <1>11 DEF IInv

\* A failure frees the job's holder and leaves at most one retry, unreserved.
LEMMA FailStep ==
    ASSUME QueueAssumption, IInv, NEW t \in Ticks, Holds(t),
           fail(tick[t].obj), tick' = [tick EXCEPT ![t] = NextRound(t)],
           UNCHANGED <<now, handlers, running, history>>
    PROVE  IInv'
<1>. /\ TypeOK /\ UniqueEntries /\ ReservedHeld /\ OnlyPushed
     /\ OneHolder /\ Finished /\ Counted
  BY DEF IInv
<1> DEFINE j == HeldId(t)
           o == tick[t].obj
<1>0. UNCHANGED <<now, handlers, running, pushed, done, recovered, discarded, runs>>
  BY DEF history
<1>1. o \in DOMAIN job /\ job[o].id = j /\ j \in Jobs /\ j \in pushed
      /\ job[o].attempts \in Nat /\ MaxRetries \in Nat
  BY ObjectFacts DEF HeldId, OnlyPushed, JobPayload, QueueAssumption
<1>2. /\ job' \in Seq(JobPayload)
      /\ DOMAIN job \subseteq DOMAIN job'
      /\ \A p \in DOMAIN job : job'[p] = job[p]
      /\ queue' \in Seq(DOMAIN job')
      /\ UniqueEntries'
      /\ failedQueue' \in Seq(Jobs)
      /\ \A k \in DOMAIN queue' :
            \/ \E l \in DOMAIN queue : queue'[k] = queue[l] /\ job[queue[l]].id # job[o].id
            \/ /\ job[o].attempts < MaxRetries
               /\ job'[queue'[k]].id = job[o].id
               /\ job'[queue'[k]].attempts = job[o].attempts + 1
               /\ job'[queue'[k]].reservedAt = Null
      /\ \A p \in DOMAIN job' \ DOMAIN job : job'[p].id = job[o].id
      /\ \/ job[o].attempts < MaxRetries /\ failedQueue' = failedQueue
         \/ /\ job[o].attempts >= MaxRetries
            /\ ToSet(failedQueue') = ToSet(failedQueue) \cup {job[o].id}
  BY <1>1, FailLemma
<1>. HIDE DEF j, o
<1>3. /\ tick' \in [Ticks -> TickState]
      /\ \A u \in Ticks : Holds(u)' => u # t /\ Holds(u) /\ tick'[u] = tick[u]
  BY NextRoundType
<1>4. \A u \in Ticks : Holds(u)' => /\ tick[u].obj \in DOMAIN job
                                    /\ tick'[u].obj = tick[u].obj
                                    /\ job'[tick[u].obj] = job[tick[u].obj]
                                    /\ HeldId(u)' = HeldId(u)
  BY <1>1, <1>2, <1>3, ObjectFacts DEF HeldId
<1>5. \A k \in DOMAIN queue' :
         \/ \E l \in DOMAIN queue : /\ queue'[k] = queue[l] /\ job[queue[l]].id # j
                                    /\ job'[queue'[k]] = job[queue[l]]
         \/ /\ job[o].attempts < MaxRetries
            /\ job'[queue'[k]].id = j
            /\ job'[queue'[k]].attempts = job[o].attempts + 1
            /\ job'[queue'[k]].reservedAt = Null
  BY <1>1, <1>2, ObjectFacts
<1>6. TypeOK'
  <2>1. \A u \in Ticks : tick'[u].pc \in {"process", "handler"} => tick'[u].obj \in DOMAIN job'
    BY <1>1, <1>2, <1>4 DEF Holds
  <2>. QED
    BY <1>0, <1>1, <1>2, <1>3, <2>1 DEF TypeOK
<1>7. ReservedHeld'
  <2>. SUFFICES ASSUME NEW k \in DOMAIN queue', job'[queue'[k]].reservedAt # Null
                PROVE  \E u \in Ticks : Holds(u)' /\ tick'[u].obj = queue'[k]
    BY DEF ReservedHeld
  <2>1. PICK l \in DOMAIN queue : /\ queue'[k] = queue[l] /\ job[queue[l]].id # j
                                  /\ job'[queue'[k]] = job[queue[l]]
    BY <1>5
  <2>2. PICK u \in Ticks : Holds(u) /\ tick[u].obj = queue[l]
    BY <2>1 DEF ReservedHeld
  <2>3. u # t
    BY <2>1, <2>2 DEF j, HeldId
  <2>4. tick'[u] = tick[u]
    BY <2>3 DEF TypeOK
  <2>. QED
    BY <2>1, <2>2, <2>4 DEF Holds
<1>8. OnlyPushed'
  <2>1. \A p \in DOMAIN job' : job'[p].id \in pushed
    BY <1>1, <1>2 DEF OnlyPushed
  <2>2. ToSet(failedQueue') \subseteq pushed
    BY <1>1, <1>2 DEF OnlyPushed
  <2>. QED
    BY <1>0, <2>1, <2>2 DEF OnlyPushed
<1>9. ASSUME NEW u \in Ticks, Holds(u)', j \notin recovered
      PROVE  HeldId(u)' # j
  BY <1>3, <1>4, <1>9 DEF OneHolder, j
<1>10. OneHolder'
  <2>. SUFFICES ASSUME NEW u \in Ticks, Holds(u)', HeldId(u)' \notin recovered
                PROVE  /\ \A v \in Ticks : Holds(v)' /\ HeldId(v)' = HeldId(u)' => v = u
                       /\ \A k \in DOMAIN queue' : job'[queue'[k]].id = HeldId(u)' =>
                             queue'[k] = tick'[u].obj /\ job'[queue'[k]].reservedAt # Null
    BY <1>0 DEF OneHolder
  <2>1. HeldId(u)' # j
    BY <1>9
  <2>. QED
    BY <1>3, <1>4, <1>5, <2>1 DEF OneHolder
<1>11. Finished'
  <2>. SUFFICES ASSUME NEW i \in (done \cup ToSet(failedQueue')) \ recovered
                PROVE  /\ i \notin QueuedIds'
                       /\ \A u \in Ticks : Holds(u)' => HeldId(u)' # i
                       /\ ~(i \in done /\ i \in ToSet(failedQueue'))
    BY <1>0 DEF Finished
  <2>1. CASE i = j
    <3>1. j \notin done \cup ToSet(failedQueue)
      BY <2>1 DEF Finished, j
    <3>2. job[o].attempts >= MaxRetries
      BY <1>1, <1>2, <2>1, <3>1
    <3>3. j \notin QueuedIds'
      BY <1>1, <1>5, <3>2 DEF QueuedIds
    <3>. QED
      BY <1>9, <2>1, <3>1, <3>3
  <2>2. CASE i # j
    <3>1. i \in done \cup ToSet(failedQueue)
      BY <1>1, <1>2, <2>2
    <3>2. i \notin QueuedIds'
      <4>1. i \notin QueuedIds
        BY <3>1 DEF Finished
      <4>. QED
        BY <1>5, <2>2, <4>1 DEF QueuedIds
    <3>3. \A u \in Ticks : Holds(u)' => HeldId(u)' # i
      BY <1>3, <1>4, <3>1 DEF Finished
    <3>4. ~(i \in done /\ i \in ToSet(failedQueue'))
      BY <1>1, <1>2, <2>2, <3>1 DEF Finished
    <3>. QED
      BY <3>2, <3>3, <3>4
  <2>. QED
    BY <2>1, <2>2
<1>12. Counted'
  <2>1. ASSUME NEW u \in Ticks, Holds(u)', HeldId(u)' \notin recovered
        PROVE  /\ job'[tick'[u].obj].attempts <= MaxRetries
               /\ runs[HeldId(u)'] = job'[tick'[u].obj].attempts + 1
    BY <1>3, <1>4, <2>1 DEF Counted
  <2>2. ASSUME NEW k \in DOMAIN queue', job'[queue'[k]].id \notin recovered
        PROVE  /\ job'[queue'[k]].attempts <= MaxRetries
               /\ job'[queue'[k]].reservedAt = Null =>
                     runs[job'[queue'[k]].id] = job'[queue'[k]].attempts
    <3>1. CASE \E l \in DOMAIN queue : job'[queue'[k]] = job[queue[l]]
      BY <2>2, <3>1 DEF Counted
    <3>2. CASE /\ job[o].attempts < MaxRetries
               /\ job'[queue'[k]].id = j
               /\ job'[queue'[k]].attempts = job[o].attempts + 1
      <4>1. runs[j] = job[o].attempts + 1
        BY <2>2, <3>2 DEF Counted, j, o
      <4>. QED
        BY <1>1, <3>2, <4>1
    <3>. QED
      BY <1>5, <3>1, <3>2
  <2>3. \A i \in Jobs \ recovered : runs[i] <= MaxRetries + 1
    BY DEF Counted
  <2>. QED
    BY <1>0, <2>1, <2>2, <2>3 DEF Counted
<1>. QED
  BY <1>1, <1>2, <1>6, <1>7, <1>8, <1>10, <1>11, <1>12 DEF IInv

\* configure() empties the queues; a job that is being run stays with its holder.
LEMMA ConfigureStep ==
    ASSUME IInv, Configure
    PROVE  IInv'
<1>. /\ TypeOK /\ UniqueEntries /\ ReservedHeld /\ OnlyPushed
     /\ OneHolder /\ Finished /\ Counted
  BY DEF IInv
<1>1. /\ queue' = <<>>
      /\ failedQueue' = <<>>
      /\ UNCHANGED <<now, job, handlers, running, tick, pushed, done, recovered, runs>>
      /\ discarded' = discarded \cup QueuedIds \cup ToSet(failedQueue)
  BY DEF Configure
<1>2. DOMAIN queue' = {} /\ ToSet(failedQueue') = {} /\ QueuedIds' = {}
  BY <1>1 DEF ToSet, QueuedIds
<1>3. \A t \in Ticks : (Holds(t)' <=> Holds(t)) /\ HeldId(t)' = HeldId(t)
  BY <1>1 DEF Holds, HeldId
<1>4. TypeOK'
  <2>1. QueuedIds \subseteq Jobs /\ ToSet(failedQueue) \subseteq Jobs
    BY ObjectFacts, LenProperties, ElementOfSeq DEF QueuedIds, ToSet, JobPayload, TypeOK
  <2>2. <<>> \in Seq(DOMAIN job) /\ <<>> \in Seq(Jobs)
    OBVIOUS
  <2>. QED
    BY <1>1, <2>1, <2>2 DEF TypeOK
<1>5. UniqueEntries' /\ ReservedHeld'
  BY <1>2 DEF UniqueEntries, ReservedHeld
<1>6. OnlyPushed'
  BY <1>1, <1>2 DEF OnlyPushed
<1>7. OneHolder'
  BY <1>1, <1>2, <1>3 DEF OneHolder
<1>8. Finished'
  BY <1>1, <1>2, <1>3 DEF Finished
<1>9. Counted'
  BY <1>1, <1>2, <1>3 DEF Counted
<1>. QED
  BY <1>4, <1>5, <1>6, <1>7, <1>8, <1>9 DEF IInv

(***************************************************************************)
(* The theorems.                                                           *)
(***************************************************************************)

\* The queue starts empty, which satisfies the invariant.
LEMMA InitIInv ==
    ASSUME Init
    PROVE  IInv
<1>1. TypeOK
  <2>1. <<>> \in Seq(JobPayload) /\ <<>> \in Seq(DOMAIN job) /\ <<>> \in Seq(Jobs)
    OBVIOUS
  <2>2. Idle \in TickState
    BY QueueAssumption DEF Idle, TickState, QueueAssumption
  <2>3. tick \in [Ticks -> TickState]
    BY <2>2 DEF Init
  <2>4. \A t \in Ticks : tick[t].pc = "idle"
    BY DEF Init, Idle
  <2>5. runs \in [Jobs -> Nat]
    BY DEF Init
  <2>6. /\ job \in Seq(JobPayload)
        /\ queue \in Seq(DOMAIN job)
        /\ failedQueue \in Seq(Jobs)
    BY <2>1 DEF Init
  <2>7. now \in Nat \ {0}
    BY DEF Init
  <2>8. /\ running \in BOOLEAN
        /\ handlers \subseteq Jobs /\ pushed \subseteq Jobs /\ done \subseteq Jobs
        /\ recovered \subseteq Jobs /\ discarded \subseteq Jobs
    BY DEF Init
  <2>. QED
    BY <2>3, <2>4, <2>5, <2>6, <2>7, <2>8 DEF TypeOK
<1>2. \A t \in Ticks : ~Holds(t)
  BY DEF Init, Holds, Idle
<1>3. DOMAIN queue = {} /\ DOMAIN job = {} /\ ToSet(failedQueue) = {} /\ QueuedIds = {}
  BY DEF Init, ToSet, QueuedIds
<1>4. UniqueEntries /\ ReservedHeld
  BY <1>3 DEF UniqueEntries, ReservedHeld
<1>5. OnlyPushed /\ OneHolder /\ Finished /\ Counted
  BY <1>2, <1>3, QueueAssumption
     DEF Init, OnlyPushed, OneHolder, Finished, Counted, QueueAssumption
<1>. QED
  BY <1>1, <1>4, <1>5 DEF IInv

\* Every step of the queue, of its callers and of the clock keeps the invariant.
LEMMA IInvStep ==
    ASSUME IInv, [Next]_vars
    PROVE  IInv'
<1>. USE QueueAssumption
<1>. TypeOK
  BY DEF IInv
<1>1. ASSUME NEW j \in Jobs, NEW delay \in Delays, Push(j, delay)
      PROVE  IInv'
  BY <1>1, PushStep
<1>2. ASSUME NEW j \in Jobs, Register(j)
      PROVE  IInv'
  BY <1>2, QuietStep DEF Register, history, TypeOK, Holds
<1>3. CASE Work \/ Stop
  BY <1>3, QuietStep DEF Work, Stop, history, TypeOK, Holds
<1>4. CASE FlushFailed
  <2>1. ToSet(failedQueue) \subseteq Jobs /\ ToSet(failedQueue') = {}
    BY <1>4, LenProperties, ElementOfSeq DEF FlushFailed, ToSet, TypeOK
  <2>2. <<>> \in Seq(Jobs)
    OBVIOUS
  <2>3. TypeOK'
    BY <1>4, <2>1, <2>2 DEF FlushFailed, TypeOK
  <2>. QED
    BY <1>4, <2>1, <2>3, QuietStep DEF FlushFailed, Holds
<1>5. CASE Configure
  BY <1>5, ConfigureStep
<1>6. CASE RecoverNow
  <2>1. TypeOK'
    BY <1>6, RecoverLemma, ObjectFacts DEF RecoverNow, TypeOK
  <2>. QED
    BY <1>6, <2>1, RecoverStep DEF RecoverNow, Holds
<1>7. ASSUME NEW t \in Ticks, StartTick(t)
      PROVE  IInv'
  <2>1. Popping(0) \in TickState
    BY DEF Popping, TickState, QueueAssumption
  <2>2. tick' = [tick EXCEPT ![t] = Popping(0)]
    BY <1>7 DEF StartTick, Goto
  <2>3. \A u \in Ticks : /\ Holds(u)' <=> Holds(u)
                         /\ Holds(u) => tick'[u].obj = tick[u].obj
    BY <1>7, <2>2 DEF StartTick, Popping, Holds, TypeOK
  <2>4. TypeOK'
    BY <1>7, <2>1, <2>2, <2>3, RecoverLemma, ObjectFacts DEF StartTick, TypeOK, Holds
  <2>. QED
    BY <1>7, <2>3, <2>4, RecoverStep DEF StartTick
<1>8. ASSUME NEW t \in Ticks, Pop(t) \/ PopManually(t)
      PROVE  IInv'
  <2>1. ~Holds(t) /\ tick[t].n \in 0 .. BatchSize - 1 /\ BatchSize - 1 \in 0 .. BatchSize - 1
    BY <1>8 DEF Pop, PopManually, Holds, TypeOK, TickState, QueueAssumption
  <2>. QED
    BY <1>8, <2>1, PopStep DEF Pop, PopManually
<1>9. ASSUME NEW t \in Ticks, PopNothing(t)
      PROVE  IInv'
  <2>1. Idle \in TickState
    BY DEF Idle, TickState, QueueAssumption
  <2>2. tick' = [tick EXCEPT ![t] = Idle]
    BY <1>9 DEF PopNothing, Goto
  <2>3. \A u \in Ticks : /\ Holds(u)' <=> Holds(u)
                         /\ Holds(u) => tick'[u].obj = tick[u].obj
    BY <1>9, <2>2 DEF PopNothing, Idle, Holds, TypeOK
  <2>4. TypeOK'
    BY <1>9, <2>1, <2>2, <2>3 DEF PopNothing, TypeOK, Holds, history
  <2>. QED
    BY <1>9, <2>3, <2>4, QuietStep DEF PopNothing, history
<1>10. ASSUME NEW t \in Ticks, CallHandler(t)
       PROVE  IInv'
  <2>1. tick' = [tick EXCEPT ![t].pc = "handler"] /\ tick[t].pc = "process"
    BY <1>10 DEF CallHandler
  <2>2. tick' \in [Ticks -> TickState]
    BY <2>1 DEF TypeOK, TickState
  <2>3. \A u \in Ticks : /\ Holds(u)' <=> Holds(u)
                         /\ Holds(u) => tick'[u].obj = tick[u].obj
    BY <2>1 DEF Holds, TypeOK, TickState
  <2>4. TypeOK'
    BY <1>10, <2>2, <2>3 DEF CallHandler, TypeOK, Holds, history
  <2>. QED
    BY <1>10, <2>3, <2>4, QuietStep DEF CallHandler, history
<1>11. ASSUME NEW t \in Ticks, NoHandler(t) \/ HandlerError(t)
       PROVE  IInv'
  BY <1>11, FailStep DEF NoHandler, HandlerError, Goto, Holds
<1>12. ASSUME NEW t \in Ticks, HandlerOk(t)
       PROVE  IInv'
  BY <1>12, HandlerOkStep
<1>13. CASE TimePasses
  <2>1. TypeOK'
    BY <1>13 DEF TimePasses, TypeOK, history
  <2>. QED
    BY <1>13, <2>1, QuietStep DEF TimePasses, Holds, history
<1>14. CASE UNCHANGED vars
  <2>1. TypeOK'
    BY <1>14 DEF vars, TypeOK
  <2>. QED
    BY <1>14, <2>1, QuietStep DEF vars, Holds
<1>. QED
  BY <1>1, <1>2, <1>3, <1>4, <1>5, <1>6, <1>7, <1>8, <1>9, <1>10, <1>11, <1>12, <1>13, <1>14
     DEF Next, Worker

\* The invariant of the worker and the memory driver: types, no id queued
\* twice, no reservation without a holder, and for jobs never recovered one
\* holder, one end and a true count of attempts.
THEOREM InductiveInvariant == Spec => []IInv
<1>1. Init => IInv
  BY InitIInv
<1>2. IInv /\ [Next]_vars => IInv'
  BY IInvStep
<1>. QED
  BY <1>1, <1>2, PTL DEF Spec

\* Whatever ticks, recoveries and late answers do, no id is queued twice.
THEOREM UniqueEntriesHolds == Spec => []UniqueEntries
<1>1. IInv => UniqueEntries
  BY DEF IInv
<1>. QED
  BY <1>1, InductiveInvariant, PTL

\* No entry of the memory driver stays reserved without a tick that holds it.
THEOREM ReservedHeldHolds == Spec => []ReservedHeld
<1>1. IInv => ReservedHeld
  BY DEF IInv
<1>. QED
  BY <1>1, InductiveInvariant, PTL

\* A job that no recoverTimeout() touched is run by one tick at a time, at most
\* MaxRetries + 1 times, and never again once it ended.
THEOREM OnceAtATimeHolds == Spec => []OnceAtATime
<1>1. IInv => OnceAtATime
  <2>. SUFFICES ASSUME IInv, NEW j \in Jobs \ recovered
                PROVE  /\ \A t, u \in Ticks :
                             Holds(t) /\ Holds(u) /\ HeldId(t) = j /\ HeldId(u) = j => t = u
                       /\ j \in done \cup ToSet(failedQueue) =>
                             /\ j \notin QueuedIds
                             /\ \A t \in Ticks : Holds(t) => HeldId(t) # j
                       /\ ~(j \in done /\ j \in ToSet(failedQueue))
                       /\ runs[j] <= MaxRetries + 1
    BY DEF OnceAtATime
  <2>. QED
    BY DEF IInv, OneHolder, Finished, Counted
<1>. QED
  BY <1>1, InductiveInvariant, PTL

(***************************************************************************)
(* No job is lost.                                                         *)
(***************************************************************************)

\* No step takes a pushed job out of queue, failed queue, done and discarded.
LEMMA NoJobLostStep ==
    ASSUME IInv, NoJobLost, [Next]_vars
    PROVE  NoJobLost'
<1>. USE QueueAssumption
<1>. TypeOK /\ UniqueEntries
  BY DEF IInv
<1>1. ASSUME NEW j \in Jobs, NEW delay \in Delays, Push(j, delay)
      PROVE  NoJobLost'
  <2>1. /\ DOMAIN job' = 1 .. Len(job) + 1
        /\ \A p \in DOMAIN job : job'[p] = job[p]
        /\ job'[Len(job) + 1].id = j
    BY <1>1, PushLemma
  <2>2. PICK at \in 1 .. Len(queue) + 1 :
           /\ DOMAIN queue' = 1 .. Len(queue) + 1
           /\ \A i \in DOMAIN queue' :
                 queue'[i] = IF i < at THEN queue[i]
                             ELSE IF i = at THEN Len(job) + 1 ELSE queue[i - 1]
    BY <1>1, PushLemma
  <2>3. j \in QueuedIds'
    <3>1. at \in DOMAIN queue' /\ job'[queue'[at]].id = j
      BY SMTT(30), <2>1, <2>2, ObjectFacts
    <3>. QED
      BY <3>1 DEF QueuedIds
  <2>4. QueuedIds \subseteq QueuedIds'
    <3>. SUFFICES ASSUME NEW l \in DOMAIN queue
                  PROVE  \E i \in DOMAIN queue' : job'[queue'[i]].id = job[queue[l]].id
      BY DEF QueuedIds
    <3> DEFINE i == IF l < at THEN l ELSE l + 1
    <3>1. i \in DOMAIN queue' /\ queue'[i] = queue[l]
      BY <2>2, ObjectFacts
    <3>2. queue[l] \in DOMAIN job
      BY ObjectFacts
    <3>. QED
      BY <2>1, <3>1, <3>2
  <2>. QED
    BY <1>1, <2>3, <2>4 DEF NoJobLost, Push
<1>2. ASSUME NEW t \in Ticks, HandlerOk(t)
      PROVE  NoJobLost'
  <2>1. job' = job /\ queue' = WithoutId(HeldId(t)) /\ done' = done \cup {HeldId(t)}
        /\ UNCHANGED <<pushed, failedQueue, discarded>>
    BY <1>2 DEF HandlerOk
  <2>2. \A l \in DOMAIN queue : job[queue[l]].id # HeldId(t) =>
           \E k \in DOMAIN queue' : queue'[k] = queue[l]
    BY <2>1, CompleteLemma
  <2>3. QueuedIds \subseteq QueuedIds' \cup {HeldId(t)}
    BY <2>1, <2>2 DEF QueuedIds
  <2>. QED
    BY <2>1, <2>3 DEF NoJobLost
<1>3. ASSUME NEW t \in Ticks, NoHandler(t) \/ HandlerError(t)
      PROVE  NoJobLost'
  <2>1. fail(tick[t].obj) /\ Holds(t) /\ UNCHANGED <<pushed, done, discarded>>
    BY <1>3 DEF NoHandler, HandlerError, Holds, history
  <2> DEFINE o == tick[t].obj
  <2>2. o \in DOMAIN job
    BY <2>1, ObjectFacts
  <2>3. /\ \A p \in DOMAIN job : job'[p] = job[p]
        /\ \A l \in DOMAIN queue : job[queue[l]].id # job[o].id =>
              \E k \in DOMAIN queue' : queue'[k] = queue[l]
        /\ \/ /\ job[o].attempts < MaxRetries
              /\ failedQueue' = failedQueue
              /\ \E k \in DOMAIN queue' : job'[queue'[k]].id = job[o].id
           \/ /\ job[o].attempts >= MaxRetries
              /\ ToSet(failedQueue') = ToSet(failedQueue) \cup {job[o].id}
    BY <2>1, <2>2, FailLemma
  <2>. HIDE DEF o
  <2>4. QueuedIds \subseteq QueuedIds' \cup {job[o].id}
    BY <2>3, ObjectFacts DEF QueuedIds
  <2>5. job[o].id \in QueuedIds' \cup ToSet(failedQueue')
    BY <2>3 DEF QueuedIds
  <2>6. ToSet(failedQueue) \subseteq ToSet(failedQueue')
    BY <2>3
  <2>. QED
    BY <2>1, <2>4, <2>5, <2>6 DEF NoJobLost
<1>4. CASE FlushFailed
  <2>1. QueuedIds' = QueuedIds
    BY <1>4 DEF FlushFailed, QueuedIds
  <2>. QED
    BY <1>4, <2>1 DEF FlushFailed, NoJobLost
<1>5. CASE Configure
  BY <1>5 DEF Configure, NoJobLost
<1>6. ASSUME recoverTimeout, UNCHANGED <<queue, failedQueue, pushed, done, discarded>>
      PROVE  NoJobLost'
  <2>1. QueuedIds' = QueuedIds
    BY <1>6, RecoverLemma, ObjectFacts DEF QueuedIds
  <2>. QED
    BY <1>6, <2>1 DEF NoJobLost
<1>7. ASSUME NEW t \in Ticks, NEW round \in 0 .. BatchSize - 1, PopAs(t, round)
      PROVE  NoJobLost'
  <2>1. \A o \in DOMAIN job : job'[o].id = job[o].id
    BY <1>7, PopLemma
  <2>2. QueuedIds' = QueuedIds
    BY SMTT(30), <1>7, <2>1, ObjectFacts DEF PopAs, QueuedIds
  <2>. QED
    BY <1>7, <2>2 DEF PopAs, NoJobLost
<1>8. ASSUME UNCHANGED <<job, queue, failedQueue, pushed, done, discarded>>
      PROVE  NoJobLost'
  BY <1>8 DEF NoJobLost, QueuedIds
<1>9. ASSUME NEW t \in Ticks
      PROVE  tick[t].n \in 0 .. BatchSize - 1 /\ BatchSize - 1 \in 0 .. BatchSize - 1
  BY DEF TypeOK, TickState, QueueAssumption
<1>10. ASSUME NEW t \in Ticks, Worker(t) \/ PopManually(t)
       PROVE  NoJobLost'
  BY <1>2, <1>3, <1>6, <1>7, <1>8, <1>9, <1>10
     DEF Worker, StartTick, Pop, PopNothing, CallHandler, PopManually, history
<1>11. CASE \/ \E j \in Jobs : Register(j)
           \/ Work \/ Stop \/ TimePasses \/ UNCHANGED vars
  BY <1>8, <1>11 DEF Register, Work, Stop, TimePasses, history, vars
<1>. QED
  BY <1>1, <1>4, <1>5, <1>6, <1>10, <1>11 DEF Next, RecoverNow

\* Every pushed job is queued, failed, completed or explicitly discarded: no
\* interleaving of ticks, recoveries and late failures loses one.
THEOREM NoJobLostHolds == Spec => []NoJobLost
<1>1. Init => NoJobLost
  BY DEF Init, NoJobLost
<1>2. IInv /\ NoJobLost /\ [Next]_vars => NoJobLost'
  BY NoJobLostStep
<1>. QED
  BY <1>1, <1>2, InductiveInvariant, PTL DEF Spec

(***************************************************************************)
(* Jobs pushed without a delay are first run in the order of their pushes. *)
(***************************************************************************)

\* The splice of complete() and fail() keeps the order of what it leaves.
LEMMA WithoutIdOrder ==
    ASSUME TypeOK, UniqueEntries, NEW id,
           NEW i \in DOMAIN WithoutId(id), NEW l \in DOMAIN WithoutId(id), i < l
    PROVE  \E x, y \in DOMAIN queue :
              x < y /\ WithoutId(id)[i] = queue[x] /\ WithoutId(id)[l] = queue[y]
<1> DEFINE r == WithoutId(id)
<1>1. Len(queue) \in Nat /\ DOMAIN queue = 1 .. Len(queue) /\ queue \in Seq(DOMAIN job)
  BY ObjectFacts DEF TypeOK
<1>2. CASE \A k \in 1 .. Len(queue) : job[queue[k]].id # id
  BY <1>2 DEF WithoutId, RemoveFirstMatch
<1>3. CASE \E k \in 1 .. Len(queue) : job[queue[k]].id = id
  <2>1. PICK k \in 1 .. Len(queue) : job[queue[k]].id = id
    BY <1>3
  <2>2. {x \in 1 .. Len(queue) : job[queue[x]].id = id} = {k}
    BY <1>1, <2>1 DEF UniqueEntries
  <2>3. Min({k}) = k
    <3>1. \E x \in {k} : \A y \in {k} : x <= y
      BY <1>1
    <3>. QED
      BY <3>1 DEF Min
  <2>4. SelectInSeq(queue, LAMBDA o : job[o].id = id) = k
    BY <2>2, <2>3 DEF SelectInSeq
  <2>5. r = RemoveAt(queue, k)
    BY <2>1, <2>4 DEF WithoutId, RemoveFirstMatch
  <2>6. r \in Seq(DOMAIN job) /\ Len(r) = Len(queue) - 1
        /\ \A x \in 1 .. Len(queue) - 1 : r[x] = IF x < k THEN queue[x] ELSE queue[x + 1]
    BY <1>1, <2>5, RemoveAtLemma
  <2>7. i \in 1 .. Len(queue) - 1 /\ l \in 1 .. Len(queue) - 1
    <3>. HIDE DEF r
    <3>1. DOMAIN r = 1 .. Len(r)
      BY <2>6, LenProperties
    <3>. QED
      BY <2>6, <3>1 DEF r
  <2> DEFINE x == IF i < k THEN i ELSE i + 1
             y == IF l < k THEN l ELSE l + 1
  <2>8. x \in DOMAIN queue /\ y \in DOMAIN queue /\ x < y
    BY <1>1, <2>7
  <2>9. r[i] = queue[x] /\ r[l] = queue[y]
    BY <2>6, <2>7
  <2>. QED
    BY <2>8, <2>9
<1>. QED
  BY <1>2, <1>3

\* A step that pops nothing, and adds nothing but retries to the queue.
LEMMA ArrivalKept ==
    ASSUME TypeOK, TypeOK', ArrivalOrder, NoOvertaking, now <= now', runs' = runs,
           DOMAIN job \subseteq DOMAIN job',
           \A o \in DOMAIN job :
              /\ job'[o].id = job[o].id
              /\ job'[o].createdAt = job[o].createdAt
              /\ job'[o].availableAt = job[o].availableAt
              /\ \/ job'[o].attempts = job[o].attempts
                 \/ job'[o].attempts > 0 /\ job[o].reservedAt # Null
              /\ job'[o].reservedAt # Null => job[o].reservedAt # Null,
           \A o \in DOMAIN job' \ DOMAIN job :
              /\ job'[o].createdAt <= now'
              /\ job'[o].attempts > 0
              /\ runs[job'[o].id] > 0,
           \A t \in Ticks : Holds(t)' => Holds(t) /\ HeldId(t)' = HeldId(t),
           \A k \in DOMAIN queue' : queue'[k] \in DOMAIN job =>
              \E x \in DOMAIN queue : queue'[k] = queue[x],
           \A i, l \in DOMAIN queue' :
              i < l /\ queue'[i] \in DOMAIN job /\ queue'[l] \in DOMAIN job =>
                 \E x, y \in DOMAIN queue : x < y /\ queue'[i] = queue[x] /\ queue'[l] = queue[y]
    PROVE  ArrivalOrder' /\ NoOvertaking'
<1>1. /\ Len(job) \in Nat /\ DOMAIN job = 1 .. Len(job)
      /\ \A o \in DOMAIN job : job[o] \in JobPayload
      /\ DOMAIN queue = 1 .. Len(queue) /\ Len(queue) \in Nat
      /\ \A k \in DOMAIN queue : queue[k] \in DOMAIN job
  BY ObjectFacts
<1>2. /\ Len(job') \in Nat /\ DOMAIN job' = 1 .. Len(job')
      /\ \A o \in DOMAIN job' : job'[o] \in JobPayload
      /\ DOMAIN queue' = 1 .. Len(queue') /\ Len(queue') \in Nat
      /\ \A k \in DOMAIN queue' : queue'[k] \in DOMAIN job'
  BY LenProperties, ElementOfSeq DEF TypeOK
<1> DEFINE Later(o) == job'[o].attempts = 0 /\ job'[o].availableAt = job'[o].createdAt
<1>3. \A o \in DOMAIN job' : Later(o) => o \in DOMAIN job /\ Immediate(o)
  BY <1>1, <1>2 DEF Immediate, JobPayload
<1>4. ASSUME NEW o \in DOMAIN job'
      PROVE  /\ job'[o].createdAt <= now'
             /\ job'[o].attempts > 0 \/ job'[o].reservedAt # Null => runs'[job'[o].id] > 0
  <2>1. CASE o \in DOMAIN job
    <3>1. job[o].createdAt <= now /\ job[o].createdAt \in Nat /\ now \in Nat /\ now' \in Nat
      BY <1>1, <2>1 DEF ArrivalOrder, JobPayload, TypeOK
    <3>2. job[o].attempts > 0 \/ job[o].reservedAt # Null => runs[job[o].id] > 0
      BY <2>1 DEF ArrivalOrder
    <3>. QED
      BY <2>1, <3>1, <3>2
  <2>2. CASE o \notin DOMAIN job
    BY <2>2
  <2>. QED
    BY <2>1, <2>2
<1>5. ASSUME NEW o \in DOMAIN job', NEW p \in DOMAIN job',
             job'[o].id = job'[p].id, job'[o].attempts = 0, job'[p].attempts = 0
      PROVE  o = p
  <2>1. o \in DOMAIN job /\ p \in DOMAIN job
    BY <1>5
  <2>2. job[o].attempts = 0 /\ job[p].attempts = 0 /\ job[o].id = job[p].id
    BY <1>5, <2>1
  <2>. QED
    BY <2>1, <2>2 DEF ArrivalOrder
<1>6. ASSUME NEW t \in Ticks, Holds(t)'
      PROVE  runs'[HeldId(t)'] > 0
  BY <1>6 DEF ArrivalOrder
<1>7. ASSUME NEW k \in DOMAIN queue', NEW l \in DOMAIN queue',
             Later(queue'[k]), Later(queue'[l]), queue'[k] < queue'[l]
      PROVE  k < l
  <2>1. PICK o \in DOMAIN job' : o = queue'[k]
    BY <1>2
  <2>2. PICK p \in DOMAIN job' : p = queue'[l]
    BY <1>2
  <2>3. /\ o \in DOMAIN job /\ p \in DOMAIN job /\ Immediate(o) /\ Immediate(p)
        /\ o < p
    BY <1>3, <1>7, <2>1, <2>2
  <2>4. CASE l < k
    <3>1. PICK x \in DOMAIN queue, y \in DOMAIN queue : x < y /\ p = queue[x] /\ o = queue[y]
      BY <2>1, <2>2, <2>3, <2>4
    <3>2. y < x
      BY <2>3, <3>1 DEF ArrivalOrder
    <3>. QED
      BY <1>1, <3>1, <3>2
  <2>5. k # l
    BY <2>1, <2>2, <2>3, <1>1
  <2>. QED
    BY <1>2, <2>4, <2>5
<1>8. ArrivalOrder'
  BY <1>4, <1>5, <1>6, <1>7 DEF ArrivalOrder, Immediate
<1>9. ASSUME NEW k \in DOMAIN queue', NEW o \in queue'[k] + 1 .. Len(job'),
             Later(queue'[k]), runs'[job'[queue'[k]].id] = 0, Later(o)
      PROVE  runs'[job'[o].id] = 0
  <2>1. PICK q \in DOMAIN job' : q = queue'[k]
    BY <1>2
  <2>2. q \in DOMAIN job /\ Immediate(q) /\ runs[job[q].id] = 0
    BY <1>3, <1>9, <2>1
  <2>3. PICK x \in DOMAIN queue : q = queue[x]
    BY <2>1, <2>2
  <2>4. o \in DOMAIN job'
    BY <1>2, <2>1
  <2>5. o \in DOMAIN job /\ Immediate(o)
    BY <1>3, <1>9, <2>4
  <2>6. o \in queue[x] + 1 .. Len(job)
    BY <1>1, <2>1, <2>3, <2>5
  <2>7. runs[job[o].id] = 0
    BY <2>2, <2>3, <2>5, <2>6 DEF NoOvertaking
  <2>. QED
    BY <2>5, <2>7
<1>10. NoOvertaking'
  BY <1>9 DEF NoOvertaking, Immediate
<1>. QED
  BY <1>8, <1>10

\* recoverTimeout() touches what was popped, and no date.
LEMMA RecoverDates ==
    ASSUME TypeOK, recoverTimeout
    PROVE  \A o \in DOMAIN job :
              /\ job'[o].id = job[o].id
              /\ job'[o].createdAt = job[o].createdAt
              /\ job'[o].availableAt = job[o].availableAt
              /\ \/ job'[o].attempts = job[o].attempts
                 \/ job'[o].attempts > 0 /\ job[o].reservedAt # Null
              /\ job'[o].reservedAt # Null => job[o].reservedAt # Null
<1>. SUFFICES ASSUME NEW o \in DOMAIN job
              PROVE  /\ job'[o].id = job[o].id
                     /\ job'[o].createdAt = job[o].createdAt
                     /\ job'[o].availableAt = job[o].availableAt
                     /\ \/ job'[o].attempts = job[o].attempts
                        \/ job'[o].attempts > 0 /\ job[o].reservedAt # Null
                     /\ job'[o].reservedAt # Null => job[o].reservedAt # Null
  OBVIOUS
<1>1. job[o] \in JobPayload
  BY ObjectFacts
<1>2. CASE TimedOut(o)
  <2>1. job'[o] = Attempted(job[o], job[o].availableAt) /\ job[o].reservedAt # Null
    BY <1>2 DEF recoverTimeout, TimedOut
  <2>2. job[o].attempts + 1 > 0
    BY <1>1 DEF JobPayload
  <2>. QED
    BY <2>1, <2>2 DEF Attempted
<1>3. CASE ~TimedOut(o)
  BY <1>3 DEF recoverTimeout
<1>. QED
  BY <1>2, <1>3

\* fail() keeps the order of the entries it leaves, and puts a retry last.
LEMMA FailOrder ==
    ASSUME QueueAssumption, TypeOK, UniqueEntries, NEW o \in DOMAIN job, fail(o)
    PROVE  /\ \A i, l \in DOMAIN queue' :
                 i < l /\ queue'[i] \in DOMAIN job /\ queue'[l] \in DOMAIN job =>
                    \E x, y \in DOMAIN queue : x < y /\ queue'[i] = queue[x] /\ queue'[l] = queue[y]
           /\ \A k \in DOMAIN queue' : queue'[k] \in DOMAIN job =>
                 \E x \in DOMAIN queue : queue'[k] = queue[x]
           /\ \A p \in DOMAIN job : job'[p] = job[p]
           /\ DOMAIN job \subseteq DOMAIN job'
           /\ \A p \in DOMAIN job' \ DOMAIN job :
                 /\ job'[p].id = job[o].id
                 /\ job'[p].createdAt = job[o].createdAt
                 /\ job'[p].attempts > 0
<1> DEFINE r == WithoutId(job[o].id)
           new == Attempted(job[o], now + retryDelay(job[o].attempts))
<1>1. /\ Len(job) \in Nat /\ DOMAIN job = 1 .. Len(job) /\ job \in Seq(JobPayload)
      /\ job[o] \in JobPayload /\ queue \in Seq(DOMAIN job)
  BY ObjectFacts DEF TypeOK
<1>2. /\ r \in Seq(DOMAIN job)
      /\ \A i \in DOMAIN r : \E l \in DOMAIN queue : r[i] = queue[l]
  BY <1>1, WithoutIdLemma
<1>3. \A i, l \in DOMAIN r : i < l =>
         \E x, y \in DOMAIN queue : x < y /\ r[i] = queue[x] /\ r[l] = queue[y]
  BY WithoutIdOrder
<1>4. CASE job[o].attempts < MaxRetries
  <2>1. queue' = Append(r, Len(job) + 1) /\ job' = Append(job, new)
    BY SMTT(30), <1>1, <1>4 DEF fail, QueueAssumption, JobPayload
  <2>2. now + retryDelay(job[o].attempts) \in Nat
    <3>1. job[o].attempts \in Nat /\ now \in Nat
      BY <1>1 DEF JobPayload, TypeOK
    <3>. QED
      BY SMTT(30), <3>1, retryDelayNat
  <2>3. /\ new \in JobPayload /\ new.id = job[o].id /\ new.attempts > 0
        /\ new.createdAt = job[o].createdAt
    <3>1. new \in JobPayload /\ new.id = job[o].id /\ new.attempts = job[o].attempts + 1
      BY <1>1, <2>2, AttemptedLemma
    <3>2. job[o].attempts + 1 > 0 /\ new.createdAt = job[o].createdAt
      BY <1>1 DEF JobPayload, Attempted
    <3>. QED
      BY <3>1, <3>2
  <2>. HIDE DEF r, new
  <2>4. /\ DOMAIN job' = 1 .. Len(job) + 1
        /\ \A p \in DOMAIN job : job'[p] = job[p]
        /\ job'[Len(job) + 1] = new
    BY <1>1, <2>1, <2>3, AppendFacts
  <2>5. r \in Seq(Nat) /\ Len(job) + 1 \in Nat
    <3>1. DOMAIN job \subseteq Nat
      BY <1>1
    <3>. QED
      BY <1>1, <1>2, <3>1, SeqMonotonic
  <2>6. /\ DOMAIN queue' = 1 .. Len(r) + 1 /\ Len(r) \in Nat
        /\ \A i \in 1 .. Len(r) : queue'[i] = r[i]
        /\ queue'[Len(r) + 1] = Len(job) + 1
    BY <2>1, <2>5, AppendFacts
  <2>7. DOMAIN r = 1 .. Len(r) /\ ~(Len(job) + 1 \in DOMAIN job)
    BY <1>1, <2>5, LenProperties
  <2>8. \A k \in DOMAIN queue' : queue'[k] \in DOMAIN job => k \in DOMAIN r /\ queue'[k] = r[k]
    BY <2>6, <2>7
  <2>9. \A p \in DOMAIN job' \ DOMAIN job : job'[p] = new
    BY <1>1, <2>4
  <2>10. \A i, l \in DOMAIN queue' :
            i < l /\ queue'[i] \in DOMAIN job /\ queue'[l] \in DOMAIN job =>
               \E x, y \in DOMAIN queue : x < y /\ queue'[i] = queue[x] /\ queue'[l] = queue[y]
    BY <1>3, <2>8
  <2>11. \A k \in DOMAIN queue' : queue'[k] \in DOMAIN job =>
            \E x \in DOMAIN queue : queue'[k] = queue[x]
    BY <1>2, <2>8
  <2>12. DOMAIN job \subseteq DOMAIN job'
    BY <1>1, <2>4
  <2>. QED
    BY <2>3, <2>4, <2>9, <2>10, <2>11, <2>12
<1>5. CASE ~(job[o].attempts < MaxRetries)
  <2>1. queue' = r /\ job' = job
    BY <1>5 DEF fail
  <2>. HIDE DEF r
  <2>. QED
    BY <1>2, <1>3, <2>1
<1>. QED
  BY <1>4, <1>5

\* push(): a payload without a delay goes last, any other is not Immediate.
LEMMA PushArrives ==
    ASSUME QueueAssumption, IInv, ArrivalOrder, NoOvertaking,
           NEW j \in Jobs, NEW delay \in Delays, Push(j, delay)
    PROVE  ArrivalOrder' /\ NoOvertaking'
<1> DEFINE n == Len(job) + 1
           new == [id |-> j, attempts |-> 0, createdAt |-> now,
                   availableAt |-> now + delay, reservedAt |-> Null]
<1>. TypeOK /\ OnlyPushed
  BY DEF IInv
<1>1. /\ Len(job) \in Nat /\ DOMAIN job = 1 .. Len(job) /\ job \in Seq(JobPayload)
      /\ \A o \in DOMAIN job : job[o] \in JobPayload
      /\ Len(queue) \in Nat /\ DOMAIN queue = 1 .. Len(queue)
      /\ \A k \in DOMAIN queue : queue[k] \in DOMAIN job
      /\ \A t \in Ticks : Holds(t) => tick[t].obj \in DOMAIN job
      /\ now \in Nat /\ now + delay \in Nat /\ delay \in Nat
  BY ObjectFacts DEF TypeOK, QueueAssumption
<1>2. /\ j \notin pushed /\ job' = Append(job, new)
      /\ UNCHANGED <<now, tick, runs>>
  BY DEF Push
<1>3. PICK k \in 1 .. Len(queue) + 1 :
         PushedAt(k, now + delay) /\ queue' = InsertAt(queue, k, n)
  BY DEF Push
<1>4. delay = 0 => k = Len(queue) + 1
  BY <1>1, <1>3 DEF PushedAt
<1>5. new \in JobPayload
  BY <1>1 DEF JobPayload, Null
<1>6. /\ new.id = j /\ new.attempts = 0 /\ new.createdAt = now
      /\ new.availableAt = now + delay /\ new.reservedAt = Null
  OBVIOUS
<1>. HIDE DEF new
<1>7. /\ DOMAIN job' = 1 .. n /\ Len(job') = n
      /\ \A o \in DOMAIN job : job'[o] = job[o]
      /\ job'[n] = new
  BY <1>1, <1>2, <1>5, AppendFacts
<1>9. /\ DOMAIN queue' = 1 .. Len(queue) + 1
      /\ \A i \in 1 .. Len(queue) + 1 :
            queue'[i] = IF i < k THEN queue[i] ELSE IF i = k THEN n ELSE queue[i - 1]
  <2>1. /\ queue' \in Seq(1 .. n) /\ Len(queue') = Len(queue) + 1
        /\ \A i \in 1 .. Len(queue) + 1 :
              queue'[i] = IF i < k THEN queue[i] ELSE IF i = k THEN n ELSE queue[i - 1]
    <3> DEFINE D == 1 .. n
    <3>1. n \in D /\ DOMAIN job \subseteq D
      BY <1>1
    <3>. HIDE DEF n, D
    <3>2. queue \in Seq(D)
      BY <3>1, SeqMonotonic DEF TypeOK
    <3>3. Len(InsertAt(queue, k, n)) = Len(queue) + 1 /\ InsertAt(queue, k, n) \in Seq(D)
          /\ \A i \in 1 .. Len(queue) + 1 : InsertAt(queue, k, n)[i] =
                IF i < k THEN queue[i] ELSE IF i = k THEN n ELSE queue[i - 1]
      BY <3>1, <3>2, InsertAtLemma
    <3>. QED
      BY <1>3, <3>3 DEF D
  <2>. QED
    BY <2>1, LenProperties
<1>. HIDE DEF n
<1>10. n = Len(job) + 1 /\ n \notin DOMAIN job /\ \A o \in DOMAIN job : o < n
  BY <1>1 DEF n
<1>11. \A o \in DOMAIN job' : o \in DOMAIN job \/ o = n
  BY <1>1, <1>7, <1>10
<1>12. \A o \in DOMAIN job : job[o].id # j
  BY <1>2 DEF OnlyPushed
<1>13. runs[j] = 0
  BY <1>2 DEF OnlyPushed
<1>14. \A i \in DOMAIN queue' : \/ i < k /\ i \in DOMAIN queue /\ queue'[i] = queue[i]
                                \/ i = k /\ queue'[i] = n
                                \/ i > k /\ i - 1 \in DOMAIN queue /\ queue'[i] = queue[i - 1]
  BY <1>1, <1>9
<1>8. ASSUME NEW i \in DOMAIN queue', queue'[i] # n
      PROVE  \E x \in DOMAIN queue :
                queue'[i] = queue[x] /\ ((i < k /\ x = i) \/ (i > k /\ x = i - 1))
  <2>1. CASE i < k /\ i \in DOMAIN queue /\ queue'[i] = queue[i]
    BY <2>1
  <2>2. CASE i > k /\ i - 1 \in DOMAIN queue /\ queue'[i] = queue[i - 1]
    BY <2>2
  <2>. QED
    BY <1>8, <1>14, <2>1, <2>2
<1> DEFINE Later(o) == job'[o].attempts = 0 /\ job'[o].availableAt = job'[o].createdAt
<1>15. /\ \A o \in DOMAIN job : Later(o) <=> Immediate(o)
       /\ Later(n) => k = Len(queue) + 1
  BY <1>1, <1>4, <1>6, <1>7 DEF Immediate
<1>16. ASSUME NEW o \in DOMAIN job'
       PROVE  /\ job'[o].createdAt <= now'
              /\ job'[o].attempts > 0 \/ job'[o].reservedAt # Null => runs'[job'[o].id] > 0
  <2>1. CASE o \in DOMAIN job
    BY <1>2, <1>7, <2>1 DEF ArrivalOrder
  <2>2. CASE o = n
    BY <1>1, <1>2, <1>6, <1>7, <2>2
  <2>. QED
    BY <1>11, <2>1, <2>2
<1>17. \A o, p \in DOMAIN job' :
          job'[o].id = job'[p].id /\ job'[o].attempts = 0 /\ job'[p].attempts = 0 => o = p
  BY <1>6, <1>7, <1>11, <1>12 DEF ArrivalOrder
<1>18. ASSUME NEW t \in Ticks, Holds(t)'
       PROVE  runs'[HeldId(t)'] > 0
  <2>1. Holds(t) /\ tick[t].obj \in DOMAIN job /\ HeldId(t)' = HeldId(t)
    BY <1>1, <1>2, <1>7, <1>18 DEF Holds, HeldId
  <2>. QED
    BY <1>2, <2>1 DEF ArrivalOrder
<1>19. ASSUME NEW i \in DOMAIN queue', NEW l \in DOMAIN queue',
              Later(queue'[i]), Later(queue'[l]), queue'[i] < queue'[l]
       PROVE  i < l
  <2>1. CASE queue'[l] = n
    <3>1. l = k
      BY <1>1, <1>10, <1>14, <2>1
    <3>2. k = Len(queue) + 1
      BY <1>15, <1>19, <2>1
    <3>3. i # l
      BY <1>10, <1>14, <1>19, <2>1, <1>1
    <3>. QED
      BY <1>1, <1>9, <3>1, <3>2, <3>3
  <2>2. CASE queue'[l] # n /\ queue'[i] # n
    <3>1. PICK x \in DOMAIN queue :
             queue'[i] = queue[x] /\ ((i < k /\ x = i) \/ (i > k /\ x = i - 1))
      BY <1>8, <2>2
    <3>2. PICK y \in DOMAIN queue :
             queue'[l] = queue[y] /\ ((l < k /\ y = l) \/ (l > k /\ y = l - 1))
      BY <1>8, <2>2
    <3>3. Immediate(queue[x]) /\ Immediate(queue[y]) /\ queue[x] < queue[y]
      BY <1>1, <1>15, <1>19, <3>1, <3>2
    <3>4. x < y
      BY <3>3 DEF ArrivalOrder
    <3>5. i # k /\ l # k
      BY <1>1, <1>14, <2>2
    <3>. QED
      BY <1>1, <1>9, <3>1, <3>2, <3>4, <3>5
  <2>3. CASE queue'[l] # n /\ queue'[i] = n
    <3>1. queue'[l] \in DOMAIN job
      BY <1>1, <1>14, <2>3
    <3>. QED
      BY <1>1, <1>10, <1>19, <2>3, <3>1
  <2>. QED
    BY <2>1, <2>2, <2>3
<1>20. ASSUME NEW i \in DOMAIN queue', NEW o \in queue'[i] + 1 .. Len(job'),
              Later(queue'[i]), runs'[job'[queue'[i]].id] = 0, Later(o)
       PROVE  runs'[job'[o].id] = 0
  <2>1. queue'[i] \in DOMAIN job \/ queue'[i] = n
    BY <1>1, <1>14
  <2>2. queue'[i] \in DOMAIN job' /\ o \in DOMAIN job'
    BY <1>1, <1>7, <1>10, <2>1
  <2>3. CASE o = n
    BY <1>2, <1>6, <1>7, <1>13, <2>3
  <2>4. CASE o \in DOMAIN job
    <3>1. queue'[i] # n
      BY <1>1, <1>10, <2>4
    <3>2. PICK x \in DOMAIN queue : queue'[i] = queue[x]
      BY <1>14, <3>1
    <3>3. Immediate(queue[x]) /\ runs[job[queue[x]].id] = 0 /\ Immediate(o)
      BY <1>1, <1>2, <1>7, <1>15, <1>20, <2>4, <3>2
    <3>4. o \in queue[x] + 1 .. Len(job)
      BY <1>1, <2>4, <3>2
    <3>5. runs[job[o].id] = 0
      BY <3>3, <3>4 DEF NoOvertaking
    <3>. QED
      BY <1>2, <1>7, <2>4, <3>5
  <2>. QED
    BY <1>11, <2>2, <2>3, <2>4
<1>. QED
  BY <1>16, <1>17, <1>18, <1>19, <1>20 DEF ArrivalOrder, NoOvertaking, Immediate

\* pop(): when an entry runs for the first time, those that came before it ran.
LEMMA PopInOrder ==
    ASSUME QueueAssumption, IInv, ArrivalOrder, NoOvertaking,
           NEW t \in Ticks, NEW round \in 0 .. BatchSize - 1, PopAs(t, round)
    PROVE  ArrivalOrder' /\ NoOvertaking'
<1>. TypeOK /\ UniqueEntries
  BY DEF IInv
<1>1. PICK k \in DOMAIN queue :
         /\ Eligible(queue[k])
         /\ \A i \in 1 .. k - 1 : ~Eligible(queue[i])
         /\ job' = [job EXCEPT ![queue[k]].reservedAt = now]
         /\ runs' = [runs EXCEPT ![job[queue[k]].id] = @ + 1]
         /\ tick' = [tick EXCEPT ![t] = [pc |-> "process", n |-> round,
                                        obj |-> queue[k], since |-> now]]
         /\ UNCHANGED <<now, queue>>
  BY DEF PopAs, Goto
<1> DEFINE q == queue[k]
           j == job[q].id
<1>2. /\ Len(job) \in Nat /\ DOMAIN job = 1 .. Len(job)
      /\ \A o \in DOMAIN job : job[o] \in JobPayload
      /\ Len(queue) \in Nat /\ DOMAIN queue = 1 .. Len(queue)
      /\ \A i \in DOMAIN queue : queue[i] \in DOMAIN job
      /\ \A u \in Ticks : Holds(u) => tick[u].obj \in DOMAIN job
      /\ now \in Nat /\ q \in DOMAIN job /\ j \in Jobs
      /\ runs \in [Jobs -> Nat]
  BY ObjectFacts DEF TypeOK, JobPayload
<1>3. /\ DOMAIN job' = DOMAIN job /\ Len(job') = Len(job)
      /\ \A o \in DOMAIN job : o # q => job'[o] = job[o]
      /\ \A o \in DOMAIN job :
            /\ job'[o].id = job[o].id
            /\ job'[o].attempts = job[o].attempts
            /\ job'[o].createdAt = job[o].createdAt
            /\ job'[o].availableAt = job[o].availableAt
  <2>1. DOMAIN job' = DOMAIN job /\ \A o \in DOMAIN job : o # q => job'[o] = job[o]
    BY <1>1
  <2>2. /\ job'[q].id = job[q].id /\ job'[q].attempts = job[q].attempts
        /\ job'[q].createdAt = job[q].createdAt /\ job'[q].availableAt = job[q].availableAt
    BY <1>1, <1>2 DEF JobPayload
  <2>3. Len(job') = Len(job)
    BY <1>1, ExceptSeq, <1>2 DEF TypeOK
  <2>. QED
    BY <2>1, <2>2, <2>3
<1>4. /\ runs'[j] > 0 /\ (runs[j] > 0 \/ runs[j] = 0)
      /\ \A i \in Jobs : i # j => runs'[i] = runs[i]
      /\ \A i \in Jobs : runs[i] > 0 => runs'[i] > 0
  BY <1>1, <1>2
<1>5. \A o \in DOMAIN job : job[o].id \in Jobs
  BY <1>2 DEF JobPayload
<1>6. ASSUME NEW u \in Ticks, Holds(u)'
      PROVE  runs'[HeldId(u)'] > 0
  <2>1. CASE u = t
    <3>1. tick'[u].obj = q
      BY <1>1, <2>1 DEF TypeOK
    <3>2. HeldId(u)' = j
      BY <1>2, <1>3, <3>1 DEF HeldId
    <3>. QED
      BY <1>4, <3>2
  <2>2. CASE u # t
    <3>1. tick'[u] = tick[u] /\ Holds(u)
      BY <1>1, <1>6, <2>2 DEF TypeOK, Holds
    <3>2. HeldId(u)' = HeldId(u) /\ HeldId(u) \in Jobs
      BY <1>2, <1>3, <1>5, <3>1 DEF HeldId
    <3>3. runs[HeldId(u)] > 0
      BY <3>1 DEF ArrivalOrder
    <3>. QED
      BY <1>4, <3>2, <3>3
  <2>. QED
    BY <2>1, <2>2
<1>7. ASSUME NEW o \in DOMAIN job
      PROVE  job'[o].attempts > 0 \/ job'[o].reservedAt # Null => runs'[job'[o].id] > 0
  <2>1. CASE o = q
    BY <1>3, <1>4, <2>1
  <2>2. CASE o # q
    <3>1. job[o].attempts > 0 \/ job[o].reservedAt # Null => runs[job[o].id] > 0
      BY DEF ArrivalOrder
    <3>. QED
      BY <1>3, <1>4, <1>5, <2>2, <3>1
  <2>. QED
    BY <2>1, <2>2
<1> DEFINE Later(o) == job'[o].attempts = 0 /\ job'[o].availableAt = job'[o].createdAt
<1>8. \A o \in DOMAIN job : Later(o) <=> Immediate(o)
  BY <1>3 DEF Immediate
<1>9. ArrivalOrder'
  <2>1. \A o \in DOMAIN job : job'[o].createdAt <= now'
    BY <1>1, <1>3 DEF ArrivalOrder
  <2>2. \A o, p \in DOMAIN job :
           job'[o].id = job'[p].id /\ job'[o].attempts = 0 /\ job'[p].attempts = 0 => o = p
    BY <1>3 DEF ArrivalOrder
  <2>3. \A i, l \in DOMAIN queue :
           Later(queue[i]) /\ Later(queue[l]) /\ queue[i] < queue[l] => i < l
    BY <1>2, <1>8 DEF ArrivalOrder
  <2>. QED
    BY <1>1, <1>3, <1>6, <1>7, <2>1, <2>2, <2>3 DEF ArrivalOrder, Immediate
<1>10. ASSUME NEW i \in DOMAIN queue, NEW o \in queue[i] + 1 .. Len(job),
              Immediate(queue[i]), runs'[job[queue[i]].id] = 0, Immediate(o)
       PROVE  runs'[job[o].id] = 0
  <2>1. /\ queue[i] \in DOMAIN job /\ job[queue[i]].id \in Jobs
        /\ o \in DOMAIN job /\ job[o].id \in Jobs
    <3>1. queue[i] \in DOMAIN job
      BY <1>2
    <3>2. o \in 1 .. Len(job)
      BY <1>2, <3>1
    <3>. QED
      BY <1>2, <1>5, <3>1, <3>2
  <2>2. job[queue[i]].id # j /\ runs[job[queue[i]].id] = 0
    BY <1>4, <1>10, <2>1
  <2>3. runs[job[o].id] = 0
    BY <1>10, <2>2 DEF NoOvertaking
  <2>4. CASE job[o].id # j
    BY <1>4, <2>1, <2>3, <2>4
  <2>5. CASE job[o].id = j
    <3>1. runs[j] = 0
      BY <2>3, <2>5
    <3>2. job[q].attempts = 0
      <4>1. ~(job[q].attempts > 0)
        BY <1>2, <3>1 DEF ArrivalOrder
      <4>2. job[q].attempts \in Nat
        BY <1>2 DEF JobPayload
      <4>. QED
        BY <4>1, <4>2
    <3>3. o = q
      BY <1>2, <1>10, <2>1, <2>5, <3>2 DEF ArrivalOrder, Immediate
    <3>4. queue[i] < q
      BY <1>2, <1>10, <2>1, <3>3
    <3>5. i < k
      BY <1>10, <3>3, <3>4 DEF ArrivalOrder
    <3>6. Eligible(queue[i])
      <4>1. job[queue[i]].reservedAt = Null
        BY <2>1, <2>2 DEF ArrivalOrder
      <4>2. job[queue[i]].availableAt <= now
        BY <1>10, <2>1 DEF ArrivalOrder, Immediate
      <4>. QED
        BY <4>1, <4>2 DEF Eligible
    <3>7. i \in 1 .. k - 1
      BY <1>2, <3>5
    <3>. QED
      BY <1>1, <3>6, <3>7
  <2>. QED
    BY <2>4, <2>5
<1>11. ASSUME NEW i \in DOMAIN queue', NEW o \in queue'[i] + 1 .. Len(job'),
              Later(queue'[i]), runs'[job'[queue'[i]].id] = 0, Later(o)
       PROVE  runs'[job'[o].id] = 0
  <2>1. queue' = queue /\ Len(job') = Len(job)
    BY <1>1, <1>3
  <2>2. i \in DOMAIN queue /\ queue'[i] = queue[i] /\ queue[i] \in DOMAIN job
    BY <1>2, <2>1
  <2>3. o \in queue[i] + 1 .. Len(job) /\ o \in DOMAIN job
    BY <1>2, <2>1, <2>2
  <2>4. Immediate(queue[i]) /\ Immediate(o) /\ runs'[job[queue[i]].id] = 0
    BY <1>3, <1>8, <1>11, <2>2, <2>3
  <2>5. runs'[job[o].id] = 0
    BY <1>10, <2>2, <2>3, <2>4
  <2>. QED
    BY <1>3, <2>3, <2>5
<1>12. NoOvertaking'
  BY <1>11 DEF NoOvertaking, Immediate
<1>. QED
  BY <1>9, <1>12

\* No step lets a job overtake another.
LEMMA ArrivalStep ==
    ASSUME IInv, ArrivalOrder, NoOvertaking, [Next]_vars
    PROVE  ArrivalOrder' /\ NoOvertaking'
<1>. USE QueueAssumption
<1>. TypeOK /\ UniqueEntries
  BY DEF IInv
<1>. TypeOK'
  BY IInvStep DEF IInv
<1>. now \in Nat
  BY DEF TypeOK
<1>1. ASSUME NEW j \in Jobs, NEW delay \in Delays, Push(j, delay)
      PROVE  ArrivalOrder' /\ NoOvertaking'
  BY <1>1, PushArrives
<1>2. ASSUME NEW t \in Ticks, Pop(t) \/ PopManually(t)
      PROVE  ArrivalOrder' /\ NoOvertaking'
  <2>1. tick[t].n \in 0 .. BatchSize - 1 /\ BatchSize - 1 \in 0 .. BatchSize - 1
    BY DEF TypeOK, TickState, QueueAssumption
  <2>. QED
    BY <1>2, <2>1, PopInOrder DEF Pop, PopManually
<1>3. ASSUME recoverTimeout, UNCHANGED <<now, queue, runs>>,
             \A t \in Ticks : Holds(t)' => Holds(t) /\ tick'[t].obj = tick[t].obj
      PROVE  ArrivalOrder' /\ NoOvertaking'
  <2>1. DOMAIN job' = DOMAIN job
    BY <1>3 DEF recoverTimeout
  <2>2. \A o \in DOMAIN job :
           /\ job'[o].id = job[o].id
           /\ job'[o].createdAt = job[o].createdAt
           /\ job'[o].availableAt = job[o].availableAt
           /\ \/ job'[o].attempts = job[o].attempts
              \/ job'[o].attempts > 0 /\ job[o].reservedAt # Null
           /\ job'[o].reservedAt # Null => job[o].reservedAt # Null
    BY <1>3, RecoverDates
  <2>3. \A t \in Ticks : Holds(t)' => Holds(t) /\ HeldId(t)' = HeldId(t)
    BY <1>3, <2>2, ObjectFacts DEF HeldId
  <2>4. now <= now'
    BY <1>3
  <2>. QED
    BY <1>3, <2>1, <2>2, <2>3, <2>4, ArrivalKept
<1>4. ASSUME NEW t \in Ticks, StartTick(t)
      PROVE  ArrivalOrder' /\ NoOvertaking'
  <2>1. tick' = [tick EXCEPT ![t] = Popping(0)] /\ recoverTimeout /\ UNCHANGED <<now, queue, runs>>
    BY <1>4 DEF StartTick, Goto
  <2>2. \A u \in Ticks : Holds(u)' => Holds(u) /\ tick'[u].obj = tick[u].obj
    BY <2>1 DEF Popping, Holds, TypeOK
  <2>. QED
    BY <1>3, <2>1, <2>2
<1>5. CASE RecoverNow
  BY <1>3, <1>5 DEF RecoverNow, Holds
<1>6. ASSUME NEW t \in Ticks, NoHandler(t) \/ HandlerError(t)
      PROVE  ArrivalOrder' /\ NoOvertaking'
  <2>1. /\ fail(tick[t].obj) /\ Holds(t) /\ tick' = [tick EXCEPT ![t] = NextRound(t)]
        /\ UNCHANGED <<now, runs>>
    BY <1>6 DEF NoHandler, HandlerError, Holds, Goto, history
  <2> DEFINE o == tick[t].obj
  <2>2. o \in DOMAIN job /\ runs[job[o].id] > 0
    BY <2>1, ObjectFacts DEF ArrivalOrder, HeldId
  <2>3. /\ \A i, l \in DOMAIN queue' :
              i < l /\ queue'[i] \in DOMAIN job /\ queue'[l] \in DOMAIN job =>
                 \E x, y \in DOMAIN queue : x < y /\ queue'[i] = queue[x] /\ queue'[l] = queue[y]
        /\ \A k \in DOMAIN queue' : queue'[k] \in DOMAIN job =>
              \E x \in DOMAIN queue : queue'[k] = queue[x]
        /\ \A p \in DOMAIN job : job'[p] = job[p]
        /\ DOMAIN job \subseteq DOMAIN job'
        /\ \A p \in DOMAIN job' \ DOMAIN job :
              /\ job'[p].id = job[o].id
              /\ job'[p].createdAt = job[o].createdAt
              /\ job'[p].attempts > 0
    BY <2>1, <2>2, FailOrder
  <2>4. \A u \in Ticks : Holds(u)' => Holds(u) /\ HeldId(u)' = HeldId(u)
    <3>1. \A u \in Ticks : Holds(u)' => Holds(u) /\ tick'[u] = tick[u]
      BY <2>1, NextRoundType
    <3>. QED
      BY <2>3, <3>1, ObjectFacts DEF HeldId
  <2>5. now <= now' /\ job[o].createdAt <= now'
    BY <2>1, <2>2 DEF ArrivalOrder
  <2>. HIDE DEF o
  <2>6. \A p \in DOMAIN job' \ DOMAIN job :
           job'[p].createdAt <= now' /\ job'[p].attempts > 0 /\ runs[job'[p].id] > 0
    BY <2>2, <2>3, <2>5
  <2>. QED
    BY <2>1, <2>3, <2>4, <2>5, <2>6, ArrivalKept
<1>7. ASSUME NEW t \in Ticks, HandlerOk(t)
      PROVE  ArrivalOrder' /\ NoOvertaking'
  <2>1. /\ tick' = [tick EXCEPT ![t] = NextRound(t)] /\ queue' = WithoutId(HeldId(t))
        /\ UNCHANGED <<now, job, runs>>
    BY <1>7 DEF HandlerOk, Goto
  <2>2. /\ \A k \in DOMAIN queue' : \E x \in DOMAIN queue : queue'[k] = queue[x]
        /\ \A i, l \in DOMAIN queue' : i < l =>
              \E x, y \in DOMAIN queue : x < y /\ queue'[i] = queue[x] /\ queue'[l] = queue[y]
    BY <2>1, CompleteLemma, WithoutIdOrder
  <2>3. \A u \in Ticks : Holds(u)' => Holds(u) /\ HeldId(u)' = HeldId(u)
    <3>1. \A u \in Ticks : Holds(u)' => Holds(u) /\ tick'[u] = tick[u]
      BY <2>1, NextRoundType
    <3>. QED
      BY <2>1, <3>1 DEF HeldId
  <2>4. now <= now'
    BY <2>1
  <2>. QED
    BY <2>1, <2>2, <2>3, <2>4, ArrivalKept
<1>8. ASSUME UNCHANGED <<job, runs>>, queue' \in {queue, <<>>}, now <= now',
             \A t \in Ticks : Holds(t)' => Holds(t) /\ tick'[t].obj = tick[t].obj
      PROVE  ArrivalOrder' /\ NoOvertaking'
  <2>1. /\ \A k \in DOMAIN queue' : \E x \in DOMAIN queue : queue'[k] = queue[x]
        /\ \A i, l \in DOMAIN queue' : i < l =>
              \E x, y \in DOMAIN queue : x < y /\ queue'[i] = queue[x] /\ queue'[l] = queue[y]
    BY <1>8
  <2>2. \A u \in Ticks : Holds(u)' => Holds(u) /\ HeldId(u)' = HeldId(u)
    BY <1>8 DEF HeldId
  <2>. QED
    BY <1>8, <2>1, <2>2, ArrivalKept
<1>9. ASSUME NEW t \in Ticks, PopNothing(t) \/ CallHandler(t)
      PROVE  ArrivalOrder' /\ NoOvertaking'
  <2>1. UNCHANGED <<now, job, queue, runs>>
    BY <1>9 DEF PopNothing, CallHandler, history
  <2>2. \A u \in Ticks : Holds(u)' => Holds(u) /\ tick'[u].obj = tick[u].obj
    <3>1. CASE PopNothing(t)
      BY <3>1 DEF PopNothing, Goto, Idle, Holds, TypeOK
    <3>2. CASE CallHandler(t)
      <4>1. tick[t].pc = "process" /\ tick' = [tick EXCEPT ![t].pc = "handler"]
        BY <3>2 DEF CallHandler
      <4>. QED
        BY <4>1 DEF Holds, TypeOK, TickState
    <3>. QED
      BY <1>9, <3>1, <3>2
  <2>. QED
    BY <1>8, <2>1, <2>2
<1>10. CASE \/ \E j \in Jobs : Register(j)
            \/ Work \/ Stop \/ FlushFailed \/ Configure \/ TimePasses \/ UNCHANGED vars
  <2>1. UNCHANGED <<job, tick, runs>> /\ queue' \in {queue, <<>>} /\ now' \in {now, now + 1}
    BY <1>10 DEF Register, Work, Stop, FlushFailed, Configure, TimePasses, history, vars
  <2>. QED
    BY <1>8, <2>1 DEF Holds
<1>. QED
  BY <1>1, <1>2, <1>4, <1>5, <1>6, <1>7, <1>9, <1>10 DEF Next, Worker

\* Jobs pushed without a delay get their first run in the order they were pushed,
\* whatever delayed jobs, retries and recoveries come between them.
THEOREM NoOvertakingHolds == Spec => []NoOvertaking
<1>1. Init => ArrivalOrder /\ NoOvertaking
  BY DEF Init, ArrivalOrder, NoOvertaking, Holds, Idle
<1>2. IInv /\ (ArrivalOrder /\ NoOvertaking) /\ [Next]_vars => (ArrivalOrder /\ NoOvertaking)'
  BY ArrivalStep
<1>3. ArrivalOrder /\ NoOvertaking => NoOvertaking
  OBVIOUS
<1>. QED
  BY <1>1, <1>2, <1>3, InductiveInvariant, PTL DEF Spec

(***************************************************************************)
(* Handlers that finish within jobTimeout.                                 *)
(***************************************************************************)

\* While no handler outlives jobTimeout, no step recovers a job: the clock is
\* held back by the very handler whose reservation would time out.
LEMMA PunctualStep ==
    ASSUME IInv, Punctual, [Next]_vars
    PROVE  Punctual'
<1>. USE QueueAssumption
<1>. SUFFICES ASSUME MaxRun <= JobTimeout
              PROVE  Punctual'
  BY DEF Punctual
<1>. /\ TypeOK /\ UniqueEntries /\ ReservedHeld /\ OneHolder
     /\ recovered = {} /\ MaxRun \in Nat /\ JobTimeout \in Nat /\ now \in Nat
  BY DEF IInv, Punctual, QueueAssumption, TypeOK
<1>1. \A t \in Ticks : Holds(t) =>
         /\ job[tick[t].obj].reservedAt = tick[t].since
         /\ tick[t].since <= now
         /\ now <= tick[t].since + MaxRun
         /\ tick[t].since \in Nat
  BY DEF Punctual, TypeOK, TickState
<1>2. \A o \in DOMAIN job : ~TimedOut(o)
  <2>. SUFFICES ASSUME NEW o \in DOMAIN job, TimedOut(o)
                PROVE  FALSE
    OBVIOUS
  <2>1. PICK k \in DOMAIN queue : queue[k] = o
    BY DEF TimedOut
  <2>2. job[o].reservedAt # Null /\ now - job[o].reservedAt > JobTimeout
    BY DEF TimedOut
  <2>3. PICK t \in Ticks : Holds(t) /\ tick[t].obj = o
    BY <2>1, <2>2 DEF ReservedHeld
  <2>. QED
    BY <1>1, <2>2, <2>3
<1>3. ASSUME recoverTimeout
      PROVE  recovered' = {} /\ \A o \in DOMAIN job : job'[o] = job[o]
  BY <1>2, <1>3 DEF recoverTimeout
<1>4. ASSUME recovered' = {}, now' = now,
             \A t \in Ticks : Holds(t)' =>
                /\ Holds(t)
                /\ tick'[t].obj = tick[t].obj
                /\ tick'[t].since = tick[t].since
                /\ job'[tick[t].obj].reservedAt = job[tick[t].obj].reservedAt
      PROVE  Punctual'
  BY <1>1, <1>4 DEF Punctual
<1>5. ASSUME NEW j \in Jobs, NEW delay \in Delays, Push(j, delay)
      PROVE  Punctual'
  <2>1. \A p \in DOMAIN job : job'[p] = job[p]
    BY <1>5, PushLemma
  <2>2. recovered' = recovered /\ tick' = tick /\ now' = now
    BY <1>5 DEF Push
  <2>. QED
    BY <1>4, <2>1, <2>2, ObjectFacts DEF Holds
<1>6. ASSUME recoverTimeout, now' = now,
             \A t \in Ticks : Holds(t)' => Holds(t) /\ tick'[t] = tick[t]
      PROVE  Punctual'
  BY <1>3, <1>4, <1>6, ObjectFacts
<1>7. ASSUME NEW t \in Ticks, StartTick(t)
      PROVE  Punctual'
  <2>1. recoverTimeout /\ now' = now /\ tick' = [tick EXCEPT ![t] = Popping(0)]
    BY <1>7 DEF StartTick, Goto
  <2>2. \A u \in Ticks : Holds(u)' => Holds(u) /\ tick'[u] = tick[u]
    BY <2>1 DEF Popping, Holds, TypeOK
  <2>. QED
    BY <1>6, <2>1, <2>2
<1>8. ASSUME NEW t \in Ticks, NEW round \in 0 .. BatchSize - 1, ~Holds(t), PopAs(t, round)
      PROVE  Punctual'
  <2>1. PICK k \in DOMAIN queue :
           /\ Eligible(queue[k])
           /\ job' = [job EXCEPT ![queue[k]].reservedAt = now]
           /\ tick' = [tick EXCEPT ![t] = [pc |-> "process", n |-> round,
                                          obj |-> queue[k], since |-> now]]
           /\ UNCHANGED <<now, recovered>>
    BY <1>8 DEF PopAs, Goto
  <2>2. queue[k] \in DOMAIN job /\ job[queue[k]] \in JobPayload
    BY ObjectFacts
  <2>3. job'[queue[k]].reservedAt = now /\ \A o \in DOMAIN job : o # queue[k] => job'[o] = job[o]
    BY <2>1, <2>2 DEF JobPayload
  <2>4. \A u \in Ticks \ {t} : Holds(u) => tick[u].obj # queue[k]
    BY <2>1 DEF OneHolder, Eligible, HeldId
  <2>5. tick'[t].obj = queue[k] /\ tick'[t].since = now
    BY <2>1 DEF TypeOK
  <2>6. \A u \in Ticks \ {t} : tick'[u] = tick[u] /\ (Holds(u)' <=> Holds(u))
    BY <2>1 DEF Holds, TypeOK
  <2>7. \A u \in Ticks : Holds(u)' =>
           /\ job'[tick'[u].obj].reservedAt = tick'[u].since
           /\ tick'[u].since <= now
           /\ now <= tick'[u].since + MaxRun
    <3>. SUFFICES ASSUME NEW u \in Ticks, Holds(u)'
                  PROVE  /\ job'[tick'[u].obj].reservedAt = tick'[u].since
                         /\ tick'[u].since <= now
                         /\ now <= tick'[u].since + MaxRun
      OBVIOUS
    <3>1. CASE u = t
      BY <2>3, <2>5, <3>1
    <3>2. CASE u # t
      BY <1>1, <2>3, <2>4, <2>6, <3>2, ObjectFacts
    <3>. QED
      BY <3>1, <3>2
  <2>. QED
    BY <2>1, <2>7 DEF Punctual
<1>9. ASSUME NEW t \in Ticks, Pop(t) \/ PopManually(t)
      PROVE  Punctual'
  <2>1. ~Holds(t) /\ tick[t].n \in 0 .. BatchSize - 1 /\ BatchSize - 1 \in 0 .. BatchSize - 1
    BY <1>9 DEF Pop, PopManually, Holds, TypeOK, TickState, QueueAssumption
  <2>. QED
    BY <1>8, <1>9, <2>1 DEF Pop, PopManually
<1>10. ASSUME NEW t \in Ticks, NoHandler(t) \/ HandlerError(t)
       PROVE  Punctual'
  <2>1. /\ fail(tick[t].obj) /\ Holds(t)
        /\ tick' = [tick EXCEPT ![t] = NextRound(t)]
        /\ UNCHANGED <<now, recovered>>
    BY <1>10 DEF NoHandler, HandlerError, Holds, Goto, history
  <2>2. \A p \in DOMAIN job : job'[p] = job[p]
    BY <2>1, FailLemma, ObjectFacts
  <2>3. \A u \in Ticks : Holds(u)' => Holds(u) /\ tick'[u] = tick[u]
    BY <2>1, NextRoundType
  <2>. QED
    BY <1>4, <2>1, <2>2, <2>3, ObjectFacts
<1>11. ASSUME NEW t \in Ticks, HandlerOk(t)
       PROVE  Punctual'
  <2>1. tick' = [tick EXCEPT ![t] = NextRound(t)] /\ UNCHANGED <<now, job, recovered>>
    BY <1>11 DEF HandlerOk, Goto
  <2>2. \A u \in Ticks : Holds(u)' => Holds(u) /\ tick'[u] = tick[u]
    BY <2>1, NextRoundType
  <2>. QED
    BY <1>4, <2>1, <2>2
<1>12. ASSUME NEW t \in Ticks, PopNothing(t) \/ CallHandler(t)
       PROVE  Punctual'
  <2>1. UNCHANGED <<now, job, recovered>>
    BY <1>12 DEF PopNothing, CallHandler, history
  <2>2. \A u \in Ticks : Holds(u)' => /\ Holds(u)
                                      /\ tick'[u].obj = tick[u].obj
                                      /\ tick'[u].since = tick[u].since
    <3>1. CASE PopNothing(t)
      BY <3>1 DEF PopNothing, Goto, Idle, Holds, TypeOK
    <3>2. CASE CallHandler(t)
      <4>1. tick[t].pc = "process" /\ tick' = [tick EXCEPT ![t].pc = "handler"]
        BY <3>2 DEF CallHandler
      <4>. QED
        BY <4>1 DEF Holds, TypeOK, TickState
    <3>. QED
      BY <1>12, <3>1, <3>2
  <2>. QED
    BY <1>4, <2>1, <2>2
<1>13. CASE TimePasses
  <2>1. now' = now + 1 /\ UNCHANGED <<job, tick, recovered>>
    BY <1>13 DEF TimePasses, history
  <2>2. \A t \in Ticks : Holds(t) => now - tick[t].since < MaxRun
    BY <1>13 DEF TimePasses
  <2>3. \A t \in Ticks : Holds(t)' <=> Holds(t)
    BY <2>1 DEF Holds
  <2>4. \A t \in Ticks : Holds(t) => tick[t].since <= now + 1 /\ now + 1 <= tick[t].since + MaxRun
    BY <1>1, <2>2
  <2>. QED
    BY <1>1, <2>1, <2>3, <2>4 DEF Punctual
<1>14. CASE \/ \E j \in Jobs : Register(j)
           \/ Work \/ Stop \/ FlushFailed \/ Configure \/ UNCHANGED vars
  <2>1. UNCHANGED <<now, job, tick, recovered>>
    BY <1>14 DEF Register, Work, Stop, FlushFailed, Configure, history, vars
  <2>. QED
    BY <1>4, <2>1 DEF Holds
<1>15. CASE RecoverNow
  <2>1. recoverTimeout /\ UNCHANGED <<now, tick>>
    BY <1>15 DEF RecoverNow
  <2>. QED
    BY <1>6, <2>1 DEF Holds
<1>. QED
  BY <1>5, <1>7, <1>9, <1>10, <1>11, <1>12, <1>13, <1>14, <1>15 DEF Next, Worker

\* Punctual holds throughout: the step above from an empty queue.
THEOREM PunctualHolds == Spec => []Punctual
<1>1. Init => Punctual
  BY DEF Init, Punctual, Holds, Idle
<1>2. IInv /\ Punctual /\ [Next]_vars => Punctual'
  BY PunctualStep
<1>. QED
  BY <1>1, <1>2, InductiveInvariant, PTL DEF Spec

\* If every handler settles within jobTimeout of its pop, recoverTimeout() never
\* takes a job away from a running handler; with OnceAtATimeHolds, no job of such
\* an application is ever run twice at once or after it ended.
THEOREM NeverRecoveredHolds == Spec => []NeverRecovered
<1>1. Punctual => NeverRecovered
  BY DEF Punctual, NeverRecovered
<1>. QED
  BY <1>1, PunctualHolds, PTL

(***************************************************************************)
(* Every step of the queue is a step of the life cycle of its jobs.        *)
(***************************************************************************)

\* The ids of the jobs some tick holds.
Held == {HeldId(t) : t \in {u \in Ticks : Holds(u)}}

\* The phase of a job depends on five sets of ids only.
LEMMA PhaseForm ==
    \A j \in Jobs :
       phase[j] = IF j \notin pushed THEN "absent"
                  ELSE IF j \in Held THEN "running"
                  ELSE IF j \in QueuedIds THEN "waiting"
                  ELSE IF j \in done THEN "done"
                  ELSE IF j \in ToSet(failedQueue) THEN "failed"
                  ELSE "discarded"
<1>. SUFFICES ASSUME NEW j \in Jobs
              PROVE  phase[j] = IF j \notin pushed THEN "absent"
                                ELSE IF j \in Held THEN "running"
                                ELSE IF j \in QueuedIds THEN "waiting"
                                ELSE IF j \in done THEN "done"
                                ELSE IF j \in ToSet(failedQueue) THEN "failed"
                                ELSE "discarded"
  OBVIOUS
<1>1. (\E t \in Ticks : Holds(t) /\ HeldId(t) = j) <=> j \in Held
  BY DEF Held
<1>2. phase[j] = PhaseOf(j)
  BY DEF phase
<1>. QED
  BY <1>1, <1>2 DEF PhaseOf

\* The same of the next state.
LEMMA PhaseFormNext ==
    \A j \in Jobs :
       phase'[j] = IF j \notin pushed' THEN "absent"
                   ELSE IF j \in Held' THEN "running"
                   ELSE IF j \in QueuedIds' THEN "waiting"
                   ELSE IF j \in done' THEN "done"
                   ELSE IF j \in ToSet(failedQueue') THEN "failed"
                   ELSE "discarded"
<1>1. (\A j \in Jobs :
         phase[j] = IF j \notin pushed THEN "absent"
                    ELSE IF j \in Held THEN "running"
                    ELSE IF j \in QueuedIds THEN "waiting"
                    ELSE IF j \in done THEN "done"
                    ELSE IF j \in ToSet(failedQueue) THEN "failed"
                    ELSE "discarded")'
  BY PhaseForm, PTL
<1>. QED
  BY <1>1

\* A step that moves one job leaves the function of phases alone elsewhere.
LEMMA OneMoves ==
    ASSUME NEW j \in Jobs, NEW from, NEW to, phase[j] = from, phase'[j] = to,
           \A i \in Jobs \ {j} : phase'[i] = phase[i]
    PROVE  Lifecycle!Move(j, from, to)
<1>1. phase = [i \in Jobs |-> phase[i]] /\ phase' = [i \in Jobs |-> phase'[i]]
  BY DEF phase
<1>. QED
  BY <1>1 DEF Lifecycle!Move

\* A step that keeps who is pushed, held, queued, done and failed is a stutter of
\* the life cycle.
LEMMA SamePhases ==
    ASSUME UNCHANGED <<pushed, done, runs>>, Held' = Held, QueuedIds' = QueuedIds,
           ToSet(failedQueue') = ToSet(failedQueue)
    PROVE  UNCHANGED Lifecycle!lifecycleVars
<1>1. \A j \in Jobs : phase'[j] = phase[j]
  BY PhaseForm, PhaseFormNext
<1>2. phase = [i \in Jobs |-> phase[i]] /\ phase' = [i \in Jobs |-> phase'[i]]
  BY DEF phase
<1>. QED
  BY <1>1, <1>2 DEF Lifecycle!lifecycleVars

\* push() submits a job nobody knew.
LEMMA PushSubmits ==
    ASSUME QueueAssumption, IInv, NEW j \in Jobs, NEW delay \in Delays, Push(j, delay)
    PROVE  Lifecycle!Submit(j)
<1>. TypeOK /\ OnlyPushed
  BY DEF IInv
<1>1. /\ j \notin pushed
      /\ pushed' = pushed \cup {j}
      /\ UNCHANGED <<failedQueue, tick, done, runs>>
  BY DEF Push
<1>2. /\ DOMAIN job' = 1 .. Len(job) + 1
      /\ \A p \in DOMAIN job : job'[p] = job[p]
      /\ job'[Len(job) + 1].id = j
  BY PushLemma
<1>3. PICK at \in 1 .. Len(queue) + 1 :
         /\ DOMAIN queue' = 1 .. Len(queue) + 1
         /\ \A i \in DOMAIN queue' :
               queue'[i] = IF i < at THEN queue[i]
                           ELSE IF i = at THEN Len(job) + 1 ELSE queue[i - 1]
  BY PushLemma
<1>4. \A t \in Ticks : /\ Holds(t)' <=> Holds(t)
                       /\ Holds(t) => HeldId(t)' = HeldId(t)
  BY <1>1, <1>2, ObjectFacts DEF Holds, HeldId
<1>5. Held' = Held
  BY <1>4 DEF Held
<1>6. j \notin Held
  BY <1>1, ObjectFacts DEF Held, HeldId, OnlyPushed
<1>7. QueuedIds' = QueuedIds \cup {j}
  <2>1. \A i \in DOMAIN queue' :
           \/ job'[queue'[i]].id = j
           \/ \E l \in DOMAIN queue : job'[queue'[i]].id = job[queue[l]].id
    <3>. SUFFICES ASSUME NEW i \in DOMAIN queue', i # at
                  PROVE  \E l \in DOMAIN queue : job'[queue'[i]].id = job[queue[l]].id
      BY <1>2, <1>3
    <3> DEFINE l == IF i < at THEN i ELSE i - 1
    <3>1. l \in DOMAIN queue /\ queue'[i] = queue[l]
      BY <1>3, ObjectFacts
    <3>. QED
      BY <1>2, <3>1, ObjectFacts
  <2>2. \A l \in DOMAIN queue : \E i \in DOMAIN queue' : job'[queue'[i]].id = job[queue[l]].id
    <3>. SUFFICES ASSUME NEW l \in DOMAIN queue
                  PROVE  \E i \in DOMAIN queue' : job'[queue'[i]].id = job[queue[l]].id
      OBVIOUS
    <3> DEFINE i == IF l < at THEN l ELSE l + 1
    <3>1. i \in DOMAIN queue' /\ queue'[i] = queue[l]
      BY <1>3, ObjectFacts
    <3>. QED
      BY <1>2, <3>1, ObjectFacts
  <2>3. at \in DOMAIN queue' /\ job'[queue'[at]].id = j
    BY <1>2, <1>3, ObjectFacts
  <2>. QED
    BY <2>1, <2>2, <2>3 DEF QueuedIds
<1>8. phase[j] = "absent" /\ phase'[j] = "waiting"
  BY <1>1, <1>5, <1>6, <1>7, PhaseForm, PhaseFormNext
<1>9. \A i \in Jobs \ {j} : phase'[i] = phase[i]
  BY <1>1, <1>5, <1>7, PhaseForm, PhaseFormNext
<1>. QED
  BY <1>1, <1>8, <1>9, OneMoves DEF Lifecycle!Submit

\* pop() starts a waiting job that nobody holds.
LEMMA PopStarts ==
    ASSUME QueueAssumption, IInv, recovered = {}, NEW t \in Ticks,
           NEW round \in 0 .. BatchSize - 1, ~Holds(t), PopAs(t, round)
    PROVE  \E j \in Jobs : Lifecycle!Start(j)
<1>. TypeOK /\ OnlyPushed /\ OneHolder
  BY DEF IInv
<1>1. PICK k \in DOMAIN queue :
         /\ job[queue[k]].reservedAt = Null
         /\ \A o \in DOMAIN job : o # queue[k] => job'[o] = job[o]
         /\ job'[queue[k]].id = job[queue[k]].id
         /\ tick' = [tick EXCEPT ![t] = [pc |-> "process", n |-> round,
                                        obj |-> queue[k], since |-> now]]
         /\ runs' = [runs EXCEPT ![job[queue[k]].id] = @ + 1]
  BY PopLemma
<1> DEFINE j == job[queue[k]].id
<1>2. UNCHANGED <<queue, failedQueue, pushed, done>>
  BY DEF PopAs
<1>3. j \in Jobs /\ j \in pushed /\ j \in QueuedIds
  BY ObjectFacts DEF JobPayload, OnlyPushed, QueuedIds
<1>4. \A o \in DOMAIN job : job'[o].id = job[o].id
  BY <1>1
<1>5. QueuedIds' = QueuedIds
  BY <1>2, <1>4, ObjectFacts DEF QueuedIds
<1>6. j \notin Held
  <2>. SUFFICES ASSUME NEW u \in Ticks, Holds(u), HeldId(u) = j
                PROVE  FALSE
    BY DEF Held
  <2>. QED
    BY <1>1 DEF OneHolder
<1>7. /\ Holds(t)' /\ HeldId(t)' = j
      /\ \A u \in Ticks \ {t} : /\ Holds(u)' <=> Holds(u)
                                /\ Holds(u) => HeldId(u)' = HeldId(u)
  BY <1>1, <1>4, ObjectFacts DEF TypeOK, Holds, HeldId
<1>. HIDE DEF j
<1>8. Held' = Held \cup {j}
  BY <1>7 DEF Held
<1>9. phase[j] = "waiting" /\ phase'[j] = "running"
  BY <1>2, <1>3, <1>5, <1>6, <1>8, PhaseForm, PhaseFormNext
<1>10. \A i \in Jobs \ {j} : phase'[i] = phase[i]
  BY <1>2, <1>5, <1>8, PhaseForm, PhaseFormNext
<1>11. runs' = [runs EXCEPT ![j] = @ + 1]
  BY <1>1 DEF j
<1>. QED
  BY <1>3, <1>9, <1>10, <1>11, OneMoves DEF Lifecycle!Start

\* A tick that lets go of its job leaves the other ticks' jobs held, and its own
\* held by nobody.
LEMMA LetsGo ==
    ASSUME QueueAssumption, IInv, recovered = {}, NEW t \in Ticks, Holds(t),
           tick' = [tick EXCEPT ![t] = NextRound(t)],
           \A o \in DOMAIN job : job'[o].id = job[o].id
    PROVE  Held' = Held \ {HeldId(t)}
<1>. TypeOK /\ OneHolder
  BY DEF IInv
<1>1. \A u \in Ticks : Holds(u)' => u # t /\ Holds(u) /\ tick'[u] = tick[u]
  BY NextRoundType
<1>2. \A u \in Ticks \ {t} : tick'[u] = tick[u]
  BY DEF TypeOK
<1>3. \A u \in Ticks \ {t} : Holds(u) => Holds(u)' /\ HeldId(u)' = HeldId(u)
  BY <1>2, ObjectFacts DEF Holds, HeldId
<1>4. \A u \in Ticks \ {t} : Holds(u) => HeldId(u) # HeldId(t)
  BY DEF OneHolder
<1>. QED
  BY <1>1, <1>3, <1>4 DEF Held

\* A handler that resolves makes its running job a done one.
LEMMA HandlerSucceeds ==
    ASSUME QueueAssumption, IInv, recovered = {}, NEW t \in Ticks, HandlerOk(t)
    PROVE  HeldId(t) \in Jobs /\ Lifecycle!Succeed(HeldId(t))
<1>. TypeOK /\ UniqueEntries /\ OnlyPushed
  BY DEF IInv
<1> DEFINE j == HeldId(t)
<1>1. /\ Holds(t)
      /\ queue' = WithoutId(j)
      /\ done' = done \cup {j}
      /\ tick' = [tick EXCEPT ![t] = NextRound(t)]
      /\ UNCHANGED <<job, failedQueue, pushed, runs>>
  BY DEF HandlerOk, Holds, Goto
<1>2. j \in Jobs /\ j \in pushed /\ j \in Held
  BY <1>1, ObjectFacts DEF OnlyPushed, HeldId, Held
<1>3. Held' = Held \ {j}
  BY <1>1, LetsGo
<1>4. /\ \A k \in DOMAIN queue' :
            \E l \in DOMAIN queue : queue'[k] = queue[l] /\ job[queue[l]].id # j
      /\ \A l \in DOMAIN queue : job[queue[l]].id # j =>
            \E k \in DOMAIN queue' : queue'[k] = queue[l]
  BY <1>1, CompleteLemma
<1>. HIDE DEF j
<1>5. QueuedIds' = QueuedIds \ {j}
  BY <1>1, <1>4 DEF QueuedIds
<1>6. phase[j] = "running" /\ phase'[j] = "done"
  BY <1>1, <1>2, <1>3, <1>5, PhaseForm, PhaseFormNext
<1>7. \A i \in Jobs \ {j} : phase'[i] = phase[i]
  BY <1>1, <1>3, <1>5, PhaseForm, PhaseFormNext
<1>8. Lifecycle!Succeed(j)
  BY <1>1, <1>2, <1>6, <1>7, OneMoves DEF Lifecycle!Succeed
<1>. QED
  BY <1>2, <1>8 DEF j

\* fail() either makes a running job wait for another run, which it has left, or
\* gives it up after its last one.
LEMMA FailDecides ==
    ASSUME QueueAssumption, IInv, recovered = {}, NEW t \in Ticks, Holds(t),
           fail(tick[t].obj), tick' = [tick EXCEPT ![t] = NextRound(t)],
           UNCHANGED <<pushed, done, runs>>
    PROVE  /\ HeldId(t) \in Jobs
           /\ Lifecycle!Retry(HeldId(t)) \/ Lifecycle!GiveUp(HeldId(t))
<1>. TypeOK /\ UniqueEntries /\ OnlyPushed /\ Finished /\ Counted
  BY DEF IInv
<1> DEFINE o == tick[t].obj
           j == HeldId(t)
<1>1. /\ o \in DOMAIN job /\ job[o].id = j /\ j \in Jobs /\ j \in pushed /\ j \in Held
      /\ job[o].attempts \in Nat /\ MaxRetries \in Nat
  BY ObjectFacts DEF HeldId, OnlyPushed, JobPayload, QueueAssumption, Held
<1>2. /\ \A p \in DOMAIN job : job'[p] = job[p]
      /\ \A k \in DOMAIN queue' :
            \/ \E l \in DOMAIN queue : /\ queue'[k] = queue[l]
                                       /\ job[queue[l]].id # job[o].id
            \/ /\ job[o].attempts < MaxRetries
               /\ job'[queue'[k]].id = job[o].id
      /\ \A l \in DOMAIN queue : job[queue[l]].id # job[o].id =>
            \E k \in DOMAIN queue' : queue'[k] = queue[l]
      /\ \/ /\ job[o].attempts < MaxRetries
            /\ failedQueue' = failedQueue
            /\ \E k \in DOMAIN queue' : job'[queue'[k]].id = job[o].id
         \/ /\ job[o].attempts >= MaxRetries
            /\ ToSet(failedQueue') = ToSet(failedQueue) \cup {job[o].id}
  BY <1>1, FailLemma
<1>3. job[o].attempts <= MaxRetries /\ runs[j] = job[o].attempts + 1
  BY DEF Counted
<1>4. j \notin done
  BY DEF Finished
<1>5. Held' = Held \ {j}
  BY <1>2, LetsGo
<1>. HIDE DEF o, j
<1>6. QueuedIds \ {j} = QueuedIds' \ {j}
  BY <1>1, <1>2, ObjectFacts DEF QueuedIds
<1>7. phase[j] = "running"
  BY <1>1, PhaseForm
<1>8. \A i \in Jobs \ {j} : phase'[i] = phase[i]
  <2>1. \A i \in Jobs \ {j} : i \in ToSet(failedQueue') <=> i \in ToSet(failedQueue)
    BY <1>1, <1>2
  <2>. QED
    BY <1>5, <1>6, <2>1, PhaseForm, PhaseFormNext
<1>9. CASE job[o].attempts < MaxRetries
  <2>1. j \in QueuedIds' /\ runs[j] <= MaxRetries
    BY <1>1, <1>2, <1>3, <1>9 DEF QueuedIds
  <2>2. phase'[j] = "waiting"
    BY <1>1, <1>5, <2>1, PhaseFormNext
  <2>. QED
    BY <1>1, <1>7, <1>8, <2>1, <2>2, OneMoves DEF Lifecycle!Retry, j
<1>10. CASE job[o].attempts >= MaxRetries
  <2>1. j \notin QueuedIds'
    BY <1>1, <1>2, <1>10, ObjectFacts DEF QueuedIds
  <2>2. j \in ToSet(failedQueue') /\ runs[j] = MaxRetries + 1
    BY <1>1, <1>2, <1>3, <1>10
  <2>3. phase'[j] = "failed"
    BY <1>1, <1>4, <1>5, <2>1, <2>2, PhaseFormNext
  <2>. QED
    BY <1>1, <1>7, <1>8, <2>2, <2>3, OneMoves DEF Lifecycle!GiveUp, j
<1>. QED
  BY <1>1, <1>9, <1>10

\* flushFailed() and configure() discard jobs that had failed or were waiting,
\* and no job in another phase.
LEMMA FlushDiscards ==
    ASSUME IInv, recovered = {}, FlushFailed \/ Configure
    PROVE  Lifecycle!DiscardAll({"failed"}) \/ Lifecycle!DiscardAll({"failed", "waiting"})
<1>. Finished
  BY DEF IInv
<1>1. UNCHANGED <<job, tick, pushed, done, runs>> /\ failedQueue' = <<>>
  BY DEF FlushFailed, Configure
<1>2. Held' = Held
  BY <1>1 DEF Held, Holds, HeldId
<1>3. ToSet(failedQueue') = {}
  BY <1>1 DEF ToSet
<1>4. phase' = [j \in Jobs |-> phase'[j]]
  BY DEF phase
<1>5. CASE FlushFailed
  <2>1. QueuedIds' = QueuedIds
    BY <1>1, <1>5 DEF FlushFailed, QueuedIds
  <2>2. \A j \in Jobs : phase'[j] = IF phase[j] \in {"failed"} THEN "discarded" ELSE phase[j]
    BY <1>1, <1>2, <1>3, <2>1, PhaseForm, PhaseFormNext
  <2>. QED
    BY <1>1, <1>4, <2>2 DEF Lifecycle!DiscardAll
<1>6. CASE Configure
  <2>1. QueuedIds' = {}
    BY <1>6 DEF Configure, QueuedIds
  <2>2. \A j \in Jobs : j \in QueuedIds => j \notin done
    BY DEF Finished
  <2>3. \A j \in Jobs :
           phase'[j] = IF phase[j] \in {"failed", "waiting"} THEN "discarded" ELSE phase[j]
    BY <1>1, <1>2, <1>3, <2>1, <2>2, PhaseForm, PhaseFormNext
  <2>. QED
    BY <1>1, <1>4, <2>3 DEF Lifecycle!DiscardAll
<1>. QED
  BY <1>5, <1>6

\* A step that leaves payload ids, queue and holders alone is a stutter.
LEMMA KeptIds ==
    ASSUME TypeOK, UNCHANGED <<queue, failedQueue, pushed, done, runs>>,
           \A o \in DOMAIN job : job'[o].id = job[o].id,
           \A t \in Ticks : /\ Holds(t)' <=> Holds(t)
                            /\ Holds(t) => tick'[t].obj = tick[t].obj
    PROVE  UNCHANGED Lifecycle!lifecycleVars
<1>1. \A t \in Ticks : Holds(t) => HeldId(t)' = HeldId(t)
  BY ObjectFacts DEF HeldId
<1>2. Held' = Held
  BY <1>1 DEF Held
<1>3. QueuedIds' = QueuedIds
  BY ObjectFacts DEF QueuedIds
<1>. QED
  BY <1>2, <1>3, SamePhases

\* As long as nothing is recovered, each step of the queue submits, starts, ends,
\* retries or discards jobs as JobLifecycle allows, or moves none.
LEMMA LifecycleStep ==
    ASSUME IInv, recovered = {}, [Next]_vars
    PROVE  [Lifecycle!LifecycleNext]_(Lifecycle!lifecycleVars)
<1>. USE QueueAssumption
<1>. TypeOK
  BY DEF IInv
<1>1. ASSUME NEW j \in Jobs, NEW delay \in Delays, Push(j, delay)
      PROVE  Lifecycle!LifecycleNext
  BY <1>1, PushSubmits DEF Lifecycle!LifecycleNext
<1>2. ASSUME NEW t \in Ticks, Pop(t) \/ PopManually(t)
      PROVE  Lifecycle!LifecycleNext
  <2>1. ~Holds(t) /\ tick[t].n \in 0 .. BatchSize - 1 /\ BatchSize - 1 \in 0 .. BatchSize - 1
    BY <1>2 DEF Pop, PopManually, Holds, TypeOK, TickState, QueueAssumption
  <2>2. \E j \in Jobs : Lifecycle!Start(j)
    BY <1>2, <2>1, PopStarts DEF Pop, PopManually
  <2>. QED
    BY <2>2 DEF Lifecycle!LifecycleNext
<1>3. ASSUME NEW t \in Ticks, HandlerOk(t)
      PROVE  Lifecycle!LifecycleNext
  BY <1>3, HandlerSucceeds DEF Lifecycle!LifecycleNext
<1>4. ASSUME NEW t \in Ticks, NoHandler(t) \/ HandlerError(t)
      PROVE  Lifecycle!LifecycleNext
  <2>1. /\ fail(tick[t].obj) /\ Holds(t)
        /\ tick' = [tick EXCEPT ![t] = NextRound(t)]
        /\ UNCHANGED <<pushed, done, runs>>
    BY <1>4 DEF NoHandler, HandlerError, Holds, Goto, history
  <2>. QED
    BY <2>1, FailDecides DEF Lifecycle!LifecycleNext
<1>5. CASE FlushFailed \/ Configure
  BY <1>5, FlushDiscards DEF Lifecycle!LifecycleNext
<1>6. ASSUME NEW t \in Ticks, StartTick(t)
      PROVE  UNCHANGED Lifecycle!lifecycleVars
  <2>1. /\ recoverTimeout /\ tick[t].pc = "idle"
        /\ tick' = [tick EXCEPT ![t] = Popping(0)]
        /\ UNCHANGED <<queue, failedQueue, pushed, done, runs>>
    BY <1>6 DEF StartTick, Goto
  <2>2. \A u \in Ticks : /\ Holds(u)' <=> Holds(u)
                         /\ Holds(u) => tick'[u].obj = tick[u].obj
    BY <2>1 DEF Popping, Holds, TypeOK
  <2>. QED
    BY <2>1, <2>2, RecoverLemma, KeptIds
<1>7. CASE RecoverNow
  <2>1. /\ recoverTimeout
        /\ UNCHANGED <<queue, failedQueue, tick, pushed, done, runs>>
    BY <1>7 DEF RecoverNow
  <2>2. \A t \in Ticks : /\ Holds(t)' <=> Holds(t)
                         /\ Holds(t) => tick'[t].obj = tick[t].obj
    BY <2>1 DEF Holds
  <2>. QED
    BY <2>1, <2>2, RecoverLemma, KeptIds
<1>8. ASSUME NEW t \in Ticks, PopNothing(t) \/ CallHandler(t)
      PROVE  UNCHANGED Lifecycle!lifecycleVars
  <2>1. UNCHANGED <<job, queue, failedQueue, pushed, done, runs>>
    BY <1>8 DEF PopNothing, CallHandler, history
  <2>2. \A u \in Ticks : /\ Holds(u)' <=> Holds(u)
                         /\ Holds(u) => tick'[u].obj = tick[u].obj
    <3>1. CASE PopNothing(t)
      BY <3>1 DEF PopNothing, Goto, Idle, Holds, TypeOK
    <3>2. CASE CallHandler(t)
      <4>1. tick[t].pc = "process" /\ tick' = [tick EXCEPT ![t].pc = "handler"]
        BY <3>2 DEF CallHandler
      <4>. QED
        BY <4>1 DEF Holds, TypeOK, TickState
    <3>. QED
      BY <1>8, <3>1, <3>2
  <2>. QED
    BY <2>1, <2>2, KeptIds
<1>9. CASE \/ \E j \in Jobs : Register(j)
           \/ Work \/ Stop \/ TimePasses \/ UNCHANGED vars
  <2>1. UNCHANGED <<job, queue, failedQueue, tick, pushed, done, runs>>
    BY <1>9 DEF Register, Work, Stop, TimePasses, history, vars
  <2>. QED
    BY <2>1, KeptIds DEF Holds
<1>. QED
  BY <1>1, <1>2, <1>3, <1>4, <1>5, <1>6, <1>7, <1>8, <1>9 DEF Next, Worker

\* An application whose handlers finish within jobTimeout gets the life cycle
\* JobLifecycle promises: one run at a time, a retry only after a failure and only
\* while runs are left, one end, and no job gone but by flushFailed() or
\* configure().
THEOREM ImplementsLifecycleHolds ==
    ASSUME MaxRun <= JobTimeout
    PROVE  Spec => ImplementsLifecycle
<1>1. Init => Lifecycle!LifecycleInit
  <2>. SUFFICES ASSUME Init
                PROVE  Lifecycle!LifecycleInit
    OBVIOUS
  <2>1. \A j \in Jobs : phase[j] = "absent"
    BY PhaseForm DEF Init
  <2>2. phase = [j \in Jobs |-> phase[j]]
    BY DEF phase
  <2>. QED
    BY <2>1, <2>2 DEF Lifecycle!LifecycleInit, Init
<1>2. IInv /\ Punctual /\ [Next]_vars => [Lifecycle!LifecycleNext]_(Lifecycle!lifecycleVars)
  BY LifecycleStep DEF Punctual
<1>. QED
  BY <1>1, <1>2, InductiveInvariant, PunctualHolds, PTL
     DEF Spec, ImplementsLifecycle, Lifecycle!LifecycleSpec
=============================================================================
