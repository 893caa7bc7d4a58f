-------------------------- MODULE WorkerPoolProofs --------------------------
(***************************************************************************)
(* Proofs about WorkerPool, for every number of jobs and worker threads,   *)
(* every configuration and any number of errors, timeouts and stops.       *)
(***************************************************************************)
EXTENDS WorkerPool, SeqLemmas, WellFoundedInduction, TLAPS

\* The smallest of some slots is one of them: find() returns an idle worker.
LEMMA MinLemma ==
    ASSUME NEW T, T \subseteq Nat, T # {}
    PROVE  Min(T) \in T
<1> DEFINE R == {ss \in Nat \X Nat : ss[1] < ss[2]}
<1>1. IsWellFoundedOn(R, Nat)
  BY NatLessThanWellFounded, Zenon DEF OpToRel
<1>. HIDE DEF R
<1>2. PICK x \in T : \A y \in T : ~ (<<y, x>> \in R)
  BY <1>1, WFMin
<1>3. \A y \in Nat : y < x => <<y, x>> \in R
  BY <1>2 DEF R
<1>4. ASSUME NEW y \in T
      PROVE  x <= y
  <2>1. x \in Nat /\ y \in Nat
    BY <1>2
  <2>2. <<y, x>> \notin R
    BY <1>2
  <2>3. ~(y < x)
    BY <1>3, <2>1, <2>2
  <2>. QED
    BY <2>1, <2>3
<1>5. \E z \in T : \A y \in T : z <= y
  BY <1>2, <1>4
<1>. QED
  BY <1>5 DEF Min

(***************************************************************************)
(* One slot: in and out are the messages to and from its thread, h the     *)
(* jobs with a handler, cur its current job, and timeouts whether a job of *)
(* its timed out.                                                          *)
(***************************************************************************)

Single(box) == \A i, k \in DOMAIN box : box[i].job # NoJob /\ box[k].job # NoJob => i = k

InOnePlace(in, h, out, cur) ==
    /\ Single(in) /\ Single(out)
    /\ JobsOf(in) # {} => h = {}
    /\ JobsOf(in) \cup h # {} => JobsOf(out) = {}
    /\ JobsOf(in) \cup h \cup JobsOf(out) \subseteq {cur}

SlotOK(in, h, out, cur, timeouts) ==
    /\ in \in Seq(InMessage) /\ out \in Seq(OutMessage)
    /\ h \subseteq Jobs /\ cur \in Jobs \cup {NoJob}
    /\ \A m \in Range(in) : m.job \in Jobs <=> m.type = "job"
    /\ \A m \in Range(out) : m.job \in Jobs <=> m.type = "answer"
    /\ timeouts \/ InOnePlace(in, h, out, cur)

SlotJobs(in, h, out, cur) == JobsOf(in) \cup h \cup JobsOf(out) \cup ({cur} \ {NoJob})

\* What postMessage() and the delivery of a message do to the jobs in a box.
LEMMA JobsOfAppend ==
    ASSUME NEW M, NEW box \in Seq(M), NEW m \in M
    PROVE  JobsOf(Append(box, m)) = JobsOf(box) \cup ({m.job} \ {NoJob})
  BY AppendFacts DEF JobsOf

\* The jobs in a box are those of its first message and of the rest.
LEMMA JobsOfTail ==
    ASSUME NEW M, NEW box \in Seq(M), box # <<>>
    PROVE  JobsOf(box) = JobsOf(Tail(box)) \cup ({Head(box).job} \ {NoJob})
  BY TailFacts DEF JobsOf

\* An empty box has no job.
LEMMA JobsOfEmpty == JobsOf(<<>>) = {} /\ Single(<<>>) /\ Range(<<>>) = {}
  BY DEF JobsOf, Single, Range

\* At most one message names a job: it still holds when one comes to none, or to
\* others that name no job, and when the first one goes.
LEMMA SingleAppend ==
    ASSUME NEW M, NEW box \in Seq(M), NEW m \in M,
           (Single(box) /\ m.job = NoJob) \/ JobsOf(box) = {}
    PROVE  Single(Append(box, m))
<1>1. /\ Len(box) \in Nat /\ DOMAIN box = 1 .. Len(box)
      /\ DOMAIN Append(box, m) = 1 .. Len(box) + 1
      /\ \A i \in 1 .. Len(box) : Append(box, m)[i] = box[i]
      /\ Append(box, m)[Len(box) + 1] = m
  BY AppendFacts, LenProperties
<1>2. JobsOf(box) = {} => \A i \in 1 .. Len(box) : box[i].job = NoJob
  BY <1>1 DEF JobsOf, Range
<1>. QED
  BY <1>1, <1>2 DEF Single

\* When the first message goes, at most one message names a job still, and none if
\* the first did.
LEMMA SingleTail ==
    ASSUME NEW M, NEW box \in Seq(M), box # <<>>, Single(box)
    PROVE  /\ Single(Tail(box))
           /\ Head(box).job # NoJob => JobsOf(Tail(box)) = {}
<1>1. /\ Len(box) \in Nat /\ Len(box) > 0 /\ Head(box) = box[1]
      /\ DOMAIN box = 1 .. Len(box) /\ DOMAIN Tail(box) = 1 .. Len(box) - 1
      /\ \A i \in 1 .. Len(box) - 1 : Tail(box)[i] = box[i + 1]
  BY TailFacts
<1>2. \A i \in 1 .. Len(box) - 1 : i + 1 \in 1 .. Len(box) /\ i + 1 # 1
  BY <1>1
<1>3. Single(Tail(box))
  BY <1>1, <1>2 DEF Single
<1>4. ASSUME Head(box).job # NoJob, NEW i \in 1 .. Len(box) - 1
      PROVE  Tail(box)[i].job = NoJob
  BY <1>1, <1>2, <1>4 DEF Single
<1>5. Head(box).job # NoJob => JobsOf(Tail(box)) = {}
  BY <1>1, <1>4 DEF JobsOf, Range
<1>. QED
  BY <1>3, <1>5

\* The messages of the pool.
LEMMA MessageLemma ==
    ASSUME PoolAssumption, NEW j \in Jobs
    PROVE  /\ Message("job", j) \in InMessage /\ Message("stop", NoJob) \in InMessage
           /\ Message("answer", j) \in OutMessage /\ Message("ready", NoJob) \in OutMessage
           /\ Message("error", NoJob) \in OutMessage
           /\ j # NoJob /\ NoJob \notin Jobs
           /\ \A type, job : Message(type, job).type = type /\ Message(type, job).job = job
  BY DEF PoolAssumption, Message, InMessage, OutMessage

\* assignJob() on a free slot: the message may be lost.
LEMMA SlotAssign ==
    ASSUME PoolAssumption, NEW in, NEW h, NEW out, NEW timeouts, NEW j \in Jobs,
           SlotOK(in, h, out, NoJob, timeouts)
    PROVE  /\ SlotOK(in, h, out, j, timeouts)
           /\ SlotOK(Append(in, Message("job", j)), h, out, j, timeouts)
           /\ SlotJobs(in, h, out, j) \subseteq SlotJobs(in, h, out, NoJob) \cup {j}
           /\ SlotJobs(Append(in, Message("job", j)), h, out, j)
                 \subseteq SlotJobs(in, h, out, NoJob) \cup {j}
<1> DEFINE m == Message("job", j)
<1>1. m \in InMessage /\ m.job = j /\ m.type = "job" /\ j # NoJob /\ NoJob \notin Jobs
  BY MessageLemma
<1>. HIDE DEF m
<1>2. in \in Seq(InMessage)
  BY DEF SlotOK
<1>3. /\ Append(in, m) \in Seq(InMessage) /\ Range(Append(in, m)) = Range(in) \cup {m}
      /\ JobsOf(Append(in, m)) = JobsOf(in) \cup {j}
  BY <1>1, <1>2, AppendFacts, JobsOfAppend
<1>4. ASSUME ~timeouts
      PROVE  InOnePlace(in, h, out, j) /\ InOnePlace(Append(in, m), h, out, j)
  <2>1. JobsOf(in) \cup h \cup JobsOf(out) \subseteq {NoJob}
    BY <1>4 DEF SlotOK, InOnePlace
  <2>2. JobsOf(in) = {} /\ h = {} /\ JobsOf(out) = {}
    BY <1>1, <2>1 DEF SlotOK, JobsOf
  <2>3. Single(in) /\ Single(out) /\ Single(Append(in, m))
    BY <1>1, <1>2, <1>4, <2>2, SingleAppend DEF SlotOK, InOnePlace
  <2>. QED
    BY <1>3, <2>2, <2>3 DEF InOnePlace
<1>5. SlotOK(in, h, out, j, timeouts)
  BY <1>4 DEF SlotOK
<1>6. SlotOK(Append(in, m), h, out, j, timeouts)
  BY <1>1, <1>3, <1>4 DEF SlotOK
<1>. QED
  BY <1>3, <1>5, <1>6 DEF SlotJobs, m

\* A message from the thread arrives, or is dropped: an answer frees the slot.
LEMMA SlotReceives ==
    ASSUME PoolAssumption, NEW in, NEW h, NEW out, NEW cur, NEW timeouts,
           SlotOK(in, h, out, cur, timeouts), out # <<>>
    PROVE  /\ SlotOK(in, h, Tail(out), cur, timeouts)
           /\ SlotJobs(in, h, Tail(out), cur) \subseteq SlotJobs(in, h, out, cur)
           /\ Head(out).type = "answer" =>
                 /\ Head(out).job \in Jobs
                 /\ Head(out).job \in SlotJobs(in, h, out, cur)
                 /\ SlotOK(in, h, Tail(out), NoJob, timeouts)
                 /\ SlotJobs(in, h, Tail(out), NoJob) \subseteq SlotJobs(in, h, out, cur)
<1>1. /\ out \in Seq(OutMessage) /\ Tail(out) \in Seq(OutMessage)
      /\ Head(out) \in Range(out) /\ Range(Tail(out)) \subseteq Range(out)
      /\ JobsOf(out) = JobsOf(Tail(out)) \cup ({Head(out).job} \ {NoJob})
  BY TailFacts, JobsOfTail DEF SlotOK
<1>2. ~timeouts => InOnePlace(in, h, Tail(out), cur)
  BY <1>1, SingleTail DEF SlotOK, InOnePlace
<1>3. SlotOK(in, h, Tail(out), cur, timeouts)
  BY <1>1, <1>2 DEF SlotOK
<1>4. SlotJobs(in, h, Tail(out), cur) \subseteq SlotJobs(in, h, out, cur)
  BY <1>1 DEF SlotJobs
<1>5. ASSUME Head(out).type = "answer"
      PROVE  /\ Head(out).job \in Jobs
             /\ Head(out).job \in SlotJobs(in, h, out, cur)
             /\ SlotOK(in, h, Tail(out), NoJob, timeouts)
             /\ SlotJobs(in, h, Tail(out), NoJob) \subseteq SlotJobs(in, h, out, cur)
  <2>1. Head(out).job \in Jobs /\ Head(out).job # NoJob
    BY <1>1, <1>5 DEF SlotOK, PoolAssumption
  <2>2. ASSUME ~timeouts
        PROVE  InOnePlace(in, h, Tail(out), NoJob)
    <3>1. Single(Tail(out)) /\ JobsOf(Tail(out)) = {}
      BY <1>1, <2>1, <2>2, SingleTail DEF SlotOK, InOnePlace
    <3>2. JobsOf(in) \cup h = {}
      BY <1>1, <2>1, <2>2 DEF SlotOK, InOnePlace
    <3>. QED
      BY <2>2, <3>1, <3>2 DEF SlotOK, InOnePlace
  <2>3. SlotOK(in, h, Tail(out), NoJob, timeouts)
    BY <1>3, <2>2 DEF SlotOK
  <2>. QED
    BY <1>1, <2>1, <2>3 DEF SlotJobs
<1>. QED
  BY <1>3, <1>4, <1>5

\* The timer frees the slot: from now on anything of its may be on its way.
LEMMA SlotTimesOut ==
    ASSUME NEW in, NEW h, NEW out, NEW cur, NEW timeouts, SlotOK(in, h, out, cur, timeouts)
    PROVE  /\ SlotOK(in, h, out, NoJob, TRUE)
           /\ SlotJobs(in, h, out, NoJob) \subseteq SlotJobs(in, h, out, cur)
  BY DEF SlotOK, SlotJobs

\* A message that names no job.
LEMMA SlotAppends ==
    ASSUME PoolAssumption, NEW in, NEW h, NEW out, NEW cur, NEW timeouts,
           SlotOK(in, h, out, cur, timeouts)
    PROVE  /\ SlotOK(Append(in, Message("stop", NoJob)), h, out, cur, timeouts)
           /\ SlotJobs(Append(in, Message("stop", NoJob)), h, out, cur) = SlotJobs(in, h, out, cur)
           /\ SlotOK(in, h, Append(out, Message("error", NoJob)), cur, timeouts)
           /\ SlotJobs(in, h, Append(out, Message("error", NoJob)), cur) = SlotJobs(in, h, out, cur)
<1> DEFINE m == Message("stop", NoJob)
           e == Message("error", NoJob)
<1>1. /\ m \in InMessage /\ e \in OutMessage
      /\ m.job = NoJob /\ e.job = NoJob /\ m.type = "stop" /\ e.type = "error"
  BY DEF Message, InMessage, OutMessage
<1>. HIDE DEF m, e
<1>2. in \in Seq(InMessage) /\ out \in Seq(OutMessage) /\ NoJob \notin Jobs
  BY DEF SlotOK, PoolAssumption
<1>3. /\ Append(in, m) \in Seq(InMessage) /\ Range(Append(in, m)) = Range(in) \cup {m}
      /\ JobsOf(Append(in, m)) = JobsOf(in)
  <2>1. JobsOf(Append(in, m)) = JobsOf(in) \cup ({m.job} \ {NoJob})
    BY <1>1, <1>2, JobsOfAppend
  <2>. QED
    BY <1>1, <1>2, <2>1, AppendFacts
<1>4. /\ Append(out, e) \in Seq(OutMessage) /\ Range(Append(out, e)) = Range(out) \cup {e}
      /\ JobsOf(Append(out, e)) = JobsOf(out)
  <2>1. JobsOf(Append(out, e)) = JobsOf(out) \cup ({e.job} \ {NoJob})
    BY <1>1, <1>2, JobsOfAppend
  <2>. QED
    BY <1>1, <1>2, <2>1, AppendFacts
<1>5. ~timeouts => InOnePlace(Append(in, m), h, out, cur)
  BY <1>1, <1>2, <1>3, SingleAppend DEF SlotOK, InOnePlace
<1>6. ~timeouts => InOnePlace(in, h, Append(out, e), cur)
  BY <1>1, <1>2, <1>4, SingleAppend DEF SlotOK, InOnePlace
<1>7. SlotOK(Append(in, m), h, out, cur, timeouts)
  BY <1>1, <1>2, <1>3, <1>5 DEF SlotOK
<1>8. SlotOK(in, h, Append(out, e), cur, timeouts)
  BY <1>1, <1>2, <1>4, <1>6 DEF SlotOK
<1>. QED
  BY <1>3, <1>4, <1>7, <1>8 DEF SlotJobs, m, e

\* The thread ends: what it posted may still arrive, or not.
LEMMA SlotTerminates ==
    ASSUME NEW in, NEW h, NEW out, NEW cur, NEW timeouts, SlotOK(in, h, out, cur, timeouts)
    PROVE  /\ SlotOK(<<>>, {}, out, cur, timeouts) /\ SlotOK(<<>>, {}, <<>>, cur, timeouts)
           /\ SlotOK(in, h, <<>>, cur, timeouts)
           /\ SlotJobs(<<>>, {}, out, cur) \subseteq SlotJobs(in, h, out, cur)
           /\ SlotJobs(<<>>, {}, <<>>, cur) \subseteq SlotJobs(in, h, out, cur)
           /\ SlotJobs(in, h, <<>>, cur) \subseteq SlotJobs(in, h, out, cur)
<1>1. <<>> \in Seq(InMessage) /\ <<>> \in Seq(OutMessage)
  BY EmptySeq
<1>. QED
  BY <1>1, JobsOfEmpty DEF SlotOK, SlotJobs, InOnePlace

\* The thread takes a message: a job goes to its handler.
LEMMA SlotTakes ==
    ASSUME PoolAssumption, NEW in, NEW h, NEW out, NEW cur, NEW timeouts,
           SlotOK(in, h, out, cur, timeouts), in # <<>>
    PROVE  /\ Head(in).type = "job" =>
                 /\ SlotOK(Tail(in), h \cup {Head(in).job}, out, cur, timeouts)
                 /\ SlotJobs(Tail(in), h \cup {Head(in).job}, out, cur)
                       \subseteq SlotJobs(in, h, out, cur)
           /\ SlotOK(Tail(in), h, out, cur, timeouts)
           /\ SlotJobs(Tail(in), h, out, cur) \subseteq SlotJobs(in, h, out, cur)
<1>1. /\ in \in Seq(InMessage) /\ Tail(in) \in Seq(InMessage)
      /\ Head(in) \in Range(in) /\ Range(Tail(in)) \subseteq Range(in)
      /\ JobsOf(in) = JobsOf(Tail(in)) \cup ({Head(in).job} \ {NoJob})
  BY TailFacts, JobsOfTail DEF SlotOK
<1>2. ~timeouts => InOnePlace(Tail(in), h, out, cur)
  BY <1>1, SingleTail DEF SlotOK, InOnePlace
<1>3. SlotOK(Tail(in), h, out, cur, timeouts)
  BY <1>1, <1>2 DEF SlotOK
<1>4. ASSUME Head(in).type = "job"
      PROVE  /\ SlotOK(Tail(in), h \cup {Head(in).job}, out, cur, timeouts)
             /\ SlotJobs(Tail(in), h \cup {Head(in).job}, out, cur)
                   \subseteq SlotJobs(in, h, out, cur)
  <2>1. Head(in).job \in Jobs /\ Head(in).job # NoJob
    BY <1>1, <1>4 DEF SlotOK, PoolAssumption
  <2>2. ASSUME ~timeouts
        PROVE  InOnePlace(Tail(in), h \cup {Head(in).job}, out, cur)
    <3>1. Single(Tail(in)) /\ JobsOf(Tail(in)) = {}
      BY <1>1, <2>1, <2>2, SingleTail DEF SlotOK, InOnePlace
    <3>2. JobsOf(out) = {} /\ h = {}
      BY <1>1, <2>1, <2>2 DEF SlotOK, InOnePlace
    <3>3. Head(in).job = cur
      BY <1>1, <2>1, <2>2 DEF SlotOK, InOnePlace
    <3>. QED
      BY <2>2, <3>1, <3>2, <3>3 DEF SlotOK, InOnePlace
  <2>3. SlotOK(Tail(in), h \cup {Head(in).job}, out, cur, timeouts)
    BY <1>3, <2>1, <2>2 DEF SlotOK
  <2>. QED
    BY <1>1, <2>1, <2>3 DEF SlotJobs
<1>. QED
  BY <1>1, <1>3, <1>4 DEF SlotJobs

\* A handler ends, and the thread posts the answer.
LEMMA SlotAnswers ==
    ASSUME PoolAssumption, NEW in, NEW h, NEW out, NEW cur, NEW timeouts, NEW j \in h,
           SlotOK(in, h, out, cur, timeouts)
    PROVE  /\ SlotOK(in, h \ {j}, Append(out, Message("answer", j)), cur, timeouts)
           /\ SlotJobs(in, h \ {j}, Append(out, Message("answer", j)), cur)
                 \subseteq SlotJobs(in, h, out, cur)
<1> DEFINE m == Message("answer", j)
<1>1. j \in Jobs
  BY DEF SlotOK
<1>2. m \in OutMessage /\ m.job = j /\ m.type = "answer" /\ j # NoJob
  BY <1>1, MessageLemma
<1>. HIDE DEF m
<1>3. out \in Seq(OutMessage)
  BY DEF SlotOK
<1>4. /\ Append(out, m) \in Seq(OutMessage) /\ Range(Append(out, m)) = Range(out) \cup {m}
      /\ JobsOf(Append(out, m)) = JobsOf(out) \cup {j}
  BY <1>2, <1>3, AppendFacts, JobsOfAppend
<1>5. ASSUME ~timeouts
      PROVE  InOnePlace(in, h \ {j}, Append(out, m), cur)
  <2>1. JobsOf(in) = {} /\ JobsOf(out) = {} /\ h = {cur} /\ j = cur
    BY <1>5 DEF SlotOK, InOnePlace
  <2>2. Single(in) /\ Single(Append(out, m))
    BY <1>2, <1>3, <1>5, <2>1, SingleAppend DEF SlotOK, InOnePlace
  <2>. QED
    BY <1>4, <2>1, <2>2 DEF InOnePlace
<1>6. SlotOK(in, h \ {j}, Append(out, m), cur, timeouts)
  BY <1>1, <1>2, <1>4, <1>5 DEF SlotOK
<1>. QED
  BY <1>4, <1>6 DEF SlotJobs, m

\* A new worker's greeting.
LEMMA SlotGreeted ==
    ASSUME PoolAssumption, NEW in, NEW h, NEW cur, NEW timeouts,
           SlotOK(in, h, <<>>, cur, timeouts)
    PROVE  /\ SlotOK(in, h, <<Message("ready", NoJob)>>, cur, timeouts)
           /\ SlotJobs(in, h, <<Message("ready", NoJob)>>, cur) = SlotJobs(in, h, <<>>, cur)
<1> DEFINE m == Message("ready", NoJob)
<1>1. m \in OutMessage /\ m.job = NoJob /\ m.type = "ready" /\ NoJob \notin Jobs
  BY DEF Message, OutMessage, PoolAssumption
<1>. HIDE DEF m
<1>2. <<m>> \in Seq(OutMessage) /\ Range(<<m>>) = {m} /\ Single(<<m>>) /\ JobsOf(<<m>>) = {}
  BY <1>1 DEF Range, Single, JobsOf
<1>3. SlotOK(in, h, <<m>>, cur, timeouts)
  BY <1>1, <1>2, JobsOfEmpty DEF SlotOK, InOnePlace
<1>. QED
  BY <1>2, <1>3, JobsOfEmpty DEF SlotJobs, m

-----------------------------------------------------------------------------
(* The inductive invariant, slot by slot.                                  *)

SlotsOK == \A s \in Slots : SlotOK(inbox[s], handling[s], outbox[s], currentJob[s], s \in late)

Apart ==
    /\ \A s \in Slots, t \in Slots : s # t => JobsAt(s) \cap JobsAt(t) = {}
    /\ \A s \in Slots : JobsAt(s) \cap Range(jobQueue) = {}

Ordered == Apart /\ Known /\ InOrder

PInv == TypeOK /\ ReadyFirst /\ WorkConserving /\ SlotsOK /\ Ordered /\ StopsBounded

\* JobsAt as an operator of the slot's parts.
LEMMA JobsAtForm ==
    /\ \A s : JobsAt(s) = SlotJobs(inbox[s], handling[s], outbox[s], currentJob[s])
    /\ \A s : JobsAt(s)' = SlotJobs(inbox'[s], handling'[s], outbox'[s], currentJob'[s])
  BY DEF JobsAt, InFlight, SlotJobs, JobsOf

\* PInv is IInv, put slot by slot.
LEMMA PInvForm == PInv <=> IInv
<1>1. ASSUME PInv
      PROVE  IInv
  <2>1. ASSUME NEW s \in Slots \ late
        PROVE  InOnePlace(inbox[s], handling[s], outbox[s], currentJob[s])
    BY <1>1 DEF PInv, SlotsOK, SlotOK
  <2>2. Labelled
    BY <1>1 DEF PInv, SlotsOK, SlotOK, Labelled
  <2>3. OnePlace
    BY <2>1 DEF OnePlace, InOnePlace, Single
  <2>4. \A s \in Slots \ late : InFlight(s) \subseteq {currentJob[s]}
    BY <2>1 DEF InFlight, InOnePlace
  <2>. QED
    BY <1>1, <2>2, <2>3, <2>4 DEF PInv, IInv, OneJobPerWorker, Ordered, Apart
<1>2. ASSUME IInv
      PROVE  PInv
  <2>1. ASSUME NEW s \in Slots
        PROVE  SlotOK(inbox[s], handling[s], outbox[s], currentJob[s], s \in late)
    <3>1. /\ inbox[s] \in Seq(InMessage) /\ outbox[s] \in Seq(OutMessage)
          /\ handling[s] \subseteq Jobs /\ currentJob[s] \in Jobs \cup {NoJob}
      BY <1>2 DEF IInv, TypeOK
    <3>2. ASSUME s \notin late
          PROVE  InOnePlace(inbox[s], handling[s], outbox[s], currentJob[s])
      BY <1>2, <3>2 DEF IInv, OnePlace, OneJobPerWorker, InFlight, InOnePlace, Single
    <3>. QED
      BY <1>2, <3>1, <3>2 DEF SlotOK, IInv, Labelled
  <2>. QED
    BY <1>2, <2>1 DEF PInv, IInv, SlotsOK, Ordered, Apart, OneJobPerWorker
<1>. QED
  BY <1>1, <1>2

\* The pool starts with nothing.
LEMMA PInvInit == ASSUME PoolAssumption, Init PROVE PInv
<1>1. <<>> \in Seq(InMessage) /\ <<>> \in Seq(OutMessage) /\ <<>> \in Seq(Jobs)
  BY EmptySeq
<1>2. TypeOK /\ StopsBounded
  <2>1. MaxWorkers \in Nat /\ MaxStops \in Nat /\ MaxErrors \in Nat
    BY DEF PoolAssumption
  <2>2. /\ stopping \in 0 .. MaxStops /\ strays \in 0 .. MaxStops
        /\ spawned \in 0 .. MaxWorkers /\ errors \in 0 .. MaxErrors /\ starts \in Nat
        /\ stopping + strays <= MaxStops
    BY <2>1 DEF Init
  <2>3. /\ currentJob \in [Slots -> Jobs \cup {NoJob}]
        /\ restartCounts \in [Slots -> Nat]
        /\ inbox \in [Slots -> Seq(InMessage)] /\ outbox \in [Slots -> Seq(OutMessage)]
        /\ handling \in [Slots -> SUBSET Jobs]
    BY <1>1 DEF Init
  <2>. QED
    BY <1>1, <2>2, <2>3 DEF Init, TypeOK, StopsBounded
<1>3. ASSUME NEW s \in Slots
      PROVE  /\ SlotOK(inbox[s], handling[s], outbox[s], currentJob[s], s \in late)
             /\ JobsAt(s) = {} /\ inbox[s] = <<>> /\ outbox[s] = <<>>
  BY <1>1, JobsOfEmpty DEF Init, SlotOK, InOnePlace, JobsAt, InFlight
<1>4. InOrder
  <2>1. Len(<<>>) = 0
    OBVIOUS
  <2>2. IsSuffix(<<>>, <<>>) <=>
           /\ Len(<<>>) <= Len(<<>>)
           /\ \A i \in 1 .. Len(<<>>) : <<>>[i] = <<>>[Len(<<>>) - Len(<<>>) + i]
    BY <1>1, SuffixForm, Zenon
  <2>. QED
    BY <2>1, <2>2 DEF Init, InOrder
<1>5. Ordered
  BY <1>3, <1>4 DEF Init, Ordered, Apart, Known, IsInjective
<1>. QED
  BY <1>2, <1>3, <1>5 DEF Init, PInv, ReadyFirst, WorkConserving, SlotsOK

\* A step that gives no slot a job and frees none that was ready.
LEMMA Quiet ==
    ASSUME PInv, TypeOK', StopsBounded',
           UNCHANGED <<jobQueue, dispatched>>,
           Idle' \subseteq Idle, active' = active,
           \A t \in Slots :
              /\ SlotOK(inbox'[t], handling'[t], outbox'[t], currentJob'[t], t \in late')
              /\ SlotJobs(inbox'[t], handling'[t], outbox'[t], currentJob'[t])
                    \subseteq SlotJobs(inbox[t], handling[t], outbox[t], currentJob[t])
              /\ t > spawned' => inbox'[t] = <<>> /\ outbox'[t] = <<>>
    PROVE  PInv'
<1>1. \A t \in Slots : JobsAt(t)' \subseteq JobsAt(t)
  BY JobsAtForm
<1>2. Ordered'
  BY <1>1 DEF PInv, Ordered, Apart, Known, InOrder
<1>3. ReadyFirst'
  BY <1>1 DEF PInv, ReadyFirst
<1>4. WorkConserving'
  BY DEF PInv, WorkConserving
<1>5. SlotsOK'
  BY DEF SlotsOK
<1>. QED
  BY <1>2, <1>3, <1>4, <1>5 DEF PInv

-----------------------------------------------------------------------------
(* The steps that give no slot a job.                                      *)

\* New worker threads.
LEMMA StartStep == ASSUME PoolAssumption, PInv, start PROVE PInv'
<1> DEFINE k == config.concurrency
<1>1. config \in Configs /\ k \in Nat /\ k > 0
  BY DEF PInv, TypeOK, PoolAssumption, Config
<1>. HIDE DEF k
<1>2. /\ spawned \in 0 .. MaxWorkers /\ errors \in 0 .. MaxErrors
      /\ MaxWorkers \in Nat /\ MaxErrors \in Nat
      /\ workers \subseteq 1 .. spawned /\ active \subseteq 1 .. spawned
      /\ threads \subseteq 1 .. spawned
      /\ outbox \in [Slots -> Seq(OutMessage)]
  BY DEF PInv, TypeOK, PoolAssumption
<1>3. spawned + k + (MaxErrors - errors) <= MaxWorkers
  BY DEF start, MayStart, k
<1>4. /\ spawned' = spawned + k /\ spawned' \in 0 .. MaxWorkers
      /\ NewSlots(k) \subseteq 1 .. spawned' /\ 1 .. spawned \subseteq 1 .. spawned'
      /\ workers' = workers \cup NewSlots(k) /\ threads' = threads \cup NewSlots(k)
  BY <1>1, <1>2, <1>3 DEF start, spawnWorkers, NewSlots, k
<1>5. /\ outbox' = Greeted(outbox, k)
      /\ UNCHANGED <<config, stopping, strays, active, restartCounts, currentJob, jobQueue,
                     inbox, handling, errors, dispatched, reported, masked, late>>
  BY DEF start, k
<1>6. ASSUME NEW t \in Slots
      PROVE  /\ SlotOK(inbox'[t], handling'[t], outbox'[t], currentJob'[t], t \in late')
             /\ SlotJobs(inbox'[t], handling'[t], outbox'[t], currentJob'[t])
                   \subseteq SlotJobs(inbox[t], handling[t], outbox[t], currentJob[t])
             /\ t > spawned' => inbox'[t] = <<>> /\ outbox'[t] = <<>>
             /\ outbox'[t] \in Seq(OutMessage)
  <2>1. SlotOK(inbox[t], handling[t], outbox[t], currentJob[t], t \in late)
    BY DEF PInv, SlotsOK
  <2>2. t \in Nat
    BY <1>2 DEF Slots
  <2>3. t > spawned => inbox[t] = <<>> /\ outbox[t] = <<>>
    BY DEF PInv, ReadyFirst
  <2>4. CASE t \in NewSlots(k)
    <3>1. t > spawned /\ ~(t > spawned')
      BY <1>1, <1>2, <1>4, <2>2, <2>4 DEF NewSlots
    <3>2. outbox'[t] = <<Message("ready", NoJob)>> /\ outbox[t] = <<>>
      BY <1>5, <2>3, <2>4, <3>1 DEF Greeted
    <3>3. /\ SlotOK(inbox[t], handling[t], <<Message("ready", NoJob)>>, currentJob[t], t \in late)
          /\ SlotJobs(inbox[t], handling[t], <<Message("ready", NoJob)>>, currentJob[t])
                = SlotJobs(inbox[t], handling[t], <<>>, currentJob[t])
      BY <2>1, <3>2, SlotGreeted
    <3>. QED
      BY <1>5, <3>1, <3>2, <3>3 DEF SlotOK
  <2>5. CASE t \notin NewSlots(k)
    <3>1. outbox'[t] = outbox[t]
      BY <1>5, <2>5 DEF Greeted
    <3>2. t > spawned' => t > spawned
      BY <1>1, <1>2, <1>4, <2>2
    <3>. QED
      BY <1>5, <2>1, <2>3, <3>1, <3>2 DEF SlotOK
  <2>. QED
    BY <2>4, <2>5
<1>7. outbox' \in [Slots -> Seq(OutMessage)]
  BY <1>5, <1>6 DEF Greeted
<1>8. TypeOK'
  <2>1. /\ workers' \subseteq 1 .. spawned' /\ active' \subseteq 1 .. spawned'
        /\ threads' \subseteq 1 .. spawned'
    BY <1>2, <1>4, <1>5
  <2>2. started' \in BOOLEAN /\ starts' \in Nat
    BY DEF PInv, TypeOK, start
  <2>. QED
    BY <1>4, <1>5, <1>7, <2>1, <2>2 DEF PInv, TypeOK
<1>9. Idle' \subseteq Idle
  <2>1. NewSlots(k) \cap active = {}
    BY <1>1, <1>2 DEF NewSlots
  <2>. QED
    BY <1>4, <1>5, <2>1 DEF Idle
<1>10. StopsBounded'
  BY <1>5 DEF PInv, StopsBounded
<1>. QED
  BY <1>5, <1>6, <1>8, <1>9, <1>10, Quiet

\* Every worker of the pool is told to stop.
LEMMA StopStep == ASSUME PoolAssumption, PInv, stop PROVE PInv'
<1> DEFINE m == Message("stop", NoJob)
<1>1. UNCHANGED <<config, started, strays, workers, spawned, active, restartCounts,
                  currentJob, jobQueue, threads, handling, outbox, history>>
  BY DEF stop
<1>2. /\ stopping \in 0 .. MaxStops /\ strays \in 0 .. MaxStops /\ MaxStops \in Nat
      /\ stopping' = stopping + 1 /\ stopping + strays < MaxStops
  BY DEF PInv, TypeOK, stop, PoolAssumption
<1>3. stopping' \in 0 .. MaxStops /\ stopping' + strays' <= MaxStops
  BY <1>1, <1>2
<1>4. ASSUME NEW t \in Slots
      PROVE  /\ SlotOK(inbox'[t], handling'[t], outbox'[t], currentJob'[t], t \in late')
             /\ SlotJobs(inbox'[t], handling'[t], outbox'[t], currentJob'[t])
                   \subseteq SlotJobs(inbox[t], handling[t], outbox[t], currentJob[t])
             /\ t > spawned' => inbox'[t] = <<>> /\ outbox'[t] = <<>>
             /\ inbox'[t] \in Seq(InMessage)
  <2>1. SlotOK(inbox[t], handling[t], outbox[t], currentJob[t], t \in late)
    BY DEF PInv, SlotsOK
  <2>2. t > spawned => inbox[t] = <<>> /\ outbox[t] = <<>>
    BY DEF PInv, ReadyFirst
  <2>3. CASE t \in workers \cap threads
    <3>1. inbox'[t] = Append(inbox[t], m)
      BY <2>3 DEF stop
    <3>2. /\ SlotOK(Append(inbox[t], m), handling[t], outbox[t], currentJob[t], t \in late)
          /\ SlotJobs(Append(inbox[t], m), handling[t], outbox[t], currentJob[t])
                = SlotJobs(inbox[t], handling[t], outbox[t], currentJob[t])
      BY <2>1, SlotAppends
    <3>3. ~(t > spawned)
      BY <2>3 DEF PInv, TypeOK, Slots
    <3>. QED
      BY <1>1, <3>1, <3>2, <3>3 DEF SlotOK, history
  <2>4. CASE t \notin workers \cap threads
    <3>1. inbox'[t] = inbox[t]
      BY <2>4 DEF stop
    <3>. QED
      BY <1>1, <2>1, <2>2, <3>1 DEF SlotOK, history
  <2>. QED
    BY <2>3, <2>4
<1>5. inbox' \in [Slots -> Seq(InMessage)]
  BY <1>4 DEF stop
<1>6. TypeOK'
  BY <1>1, <1>3, <1>5 DEF PInv, TypeOK, history
<1>7. Idle' \subseteq Idle
  BY <1>1 DEF Idle
<1>8. StopsBounded'
  BY <1>3 DEF StopsBounded
<1>. QED
  BY <1>1, <1>4, <1>6, <1>7, <1>8, Quiet DEF history

\* The threads of S end.
LEMMA EndedThreads ==
    ASSUME PInv, NEW S \in SUBSET workers,
           terminate(S), outbox' \in Silenced(S),
           UNCHANGED <<currentJob, late, spawned>>
    PROVE  /\ inbox' \in [Slots -> Seq(InMessage)]
           /\ handling' \in [Slots -> SUBSET Jobs]
           /\ outbox' \in [Slots -> Seq(OutMessage)]
           /\ \A t \in Slots :
                 /\ SlotOK(inbox'[t], handling'[t], outbox'[t], currentJob'[t], t \in late')
                 /\ SlotJobs(inbox'[t], handling'[t], outbox'[t], currentJob'[t])
                       \subseteq SlotJobs(inbox[t], handling[t], outbox[t], currentJob[t])
                 /\ t > spawned' => inbox'[t] = <<>> /\ outbox'[t] = <<>>
<1>1. PICK lost \in SUBSET (S \cap threads) :
         outbox' = [s \in Slots |-> IF s \in lost THEN <<>> ELSE outbox[s]]
  BY DEF Silenced
<1>2. /\ handling' = [s \in Slots |-> IF s \in S THEN {} ELSE handling[s]]
      /\ inbox' = [s \in Slots |-> IF s \in S THEN <<>> ELSE inbox[s]]
  BY DEF terminate
<1>3. ASSUME NEW t \in Slots
      PROVE  /\ SlotOK(inbox'[t], handling'[t], outbox'[t], currentJob'[t], t \in late')
             /\ SlotJobs(inbox'[t], handling'[t], outbox'[t], currentJob'[t])
                   \subseteq SlotJobs(inbox[t], handling[t], outbox[t], currentJob[t])
             /\ t > spawned' => inbox'[t] = <<>> /\ outbox'[t] = <<>>
             /\ inbox'[t] \in Seq(InMessage) /\ outbox'[t] \in Seq(OutMessage)
             /\ handling'[t] \subseteq Jobs
  <2>1. SlotOK(inbox[t], handling[t], outbox[t], currentJob[t], t \in late)
    BY DEF PInv, SlotsOK
  <2>2. t > spawned => inbox[t] = <<>> /\ outbox[t] = <<>>
    BY DEF PInv, ReadyFirst
  <2>3. \/ inbox'[t] = inbox[t] /\ handling'[t] = handling[t] /\ outbox'[t] = outbox[t]
        \/ inbox'[t] = <<>> /\ handling'[t] = {} /\ outbox'[t] \in {<<>>, outbox[t]}
    BY <1>1, <1>2
  <2>4. CASE inbox'[t] = inbox[t] /\ handling'[t] = handling[t] /\ outbox'[t] = outbox[t]
    BY <2>1, <2>2, <2>4 DEF SlotOK
  <2>5. CASE inbox'[t] = <<>> /\ handling'[t] = {} /\ outbox'[t] \in {<<>>, outbox[t]}
    <3>1. /\ SlotOK(<<>>, {}, outbox'[t], currentJob[t], t \in late)
          /\ SlotJobs(<<>>, {}, outbox'[t], currentJob[t])
                \subseteq SlotJobs(inbox[t], handling[t], outbox[t], currentJob[t])
      BY <2>1, <2>5, SlotTerminates
    <3>. QED
      BY <2>2, <2>5, <3>1 DEF SlotOK
  <2>. QED
    BY <2>3, <2>4, <2>5
<1>. QED
  BY <1>1, <1>2, <1>3

\* A stop() that waited is over.
LEMMA StoppedStep == ASSUME PoolAssumption, PInv, stopped PROVE PInv'
<1>1. /\ stopping \in 0 .. MaxStops /\ strays \in 0 .. MaxStops /\ MaxStops \in Nat
      /\ stopping + strays <= MaxStops
      /\ stopping > 0 /\ stopping' = stopping - 1 /\ strays' \in {strays, strays + 1}
  BY DEF PInv, TypeOK, stopped, PoolAssumption, StopsBounded
<1>2. /\ stopping' \in 0 .. MaxStops /\ strays' \in 0 .. MaxStops
      /\ stopping' + strays' <= MaxStops
  <2>1. CASE strays' = strays
    BY <1>1, <2>1
  <2>2. CASE strays' = strays + 1
    BY <1>1, <2>2
  <2>. QED
    BY <1>1, <2>1, <2>2
<1>3. /\ started' = FALSE /\ workers' = {} /\ threads' = threads \ workers
      /\ UNCHANGED <<config, spawned, active, restartCounts, currentJob, jobQueue, history>>
  BY DEF stopped
<1>4. /\ inbox' \in [Slots -> Seq(InMessage)]
      /\ handling' \in [Slots -> SUBSET Jobs]
      /\ outbox' \in [Slots -> Seq(OutMessage)]
      /\ \A t \in Slots :
            /\ SlotOK(inbox'[t], handling'[t], outbox'[t], currentJob'[t], t \in late')
            /\ SlotJobs(inbox'[t], handling'[t], outbox'[t], currentJob'[t])
                  \subseteq SlotJobs(inbox[t], handling[t], outbox[t], currentJob[t])
            /\ t > spawned' => inbox'[t] = <<>> /\ outbox'[t] = <<>>
  BY <1>3, EndedThreads DEF stopped, history
<1>5. TypeOK'
  BY <1>2, <1>3, <1>4 DEF PInv, TypeOK, history
<1>6. Idle' \subseteq Idle
  BY <1>3 DEF Idle
<1>7. StopsBounded'
  BY <1>2 DEF StopsBounded
<1>. QED
  BY <1>3, <1>4, <1>5, <1>6, <1>7, Quiet DEF history

\* An interval that went on ends the workers it finds.
LEMMA StrayStep == ASSUME PoolAssumption, PInv, strayInterval PROVE PInv'
<1>1. /\ stopping \in 0 .. MaxStops /\ strays \in 0 .. MaxStops /\ MaxStops \in Nat
      /\ stopping + strays <= MaxStops
      /\ strays > 0 /\ strays' = strays - 1 /\ stopping' = stopping
  BY DEF PInv, TypeOK, strayInterval, PoolAssumption, StopsBounded
<1>2. strays' \in 0 .. MaxStops /\ stopping' + strays' <= MaxStops
  BY <1>1
<1>3. /\ threads' = threads \ workers
      /\ UNCHANGED <<config, started, stopping, workers, spawned, active, restartCounts,
                     currentJob, jobQueue, history>>
  BY DEF strayInterval
<1>4. /\ inbox' \in [Slots -> Seq(InMessage)]
      /\ handling' \in [Slots -> SUBSET Jobs]
      /\ outbox' \in [Slots -> Seq(OutMessage)]
      /\ \A t \in Slots :
            /\ SlotOK(inbox'[t], handling'[t], outbox'[t], currentJob'[t], t \in late')
            /\ SlotJobs(inbox'[t], handling'[t], outbox'[t], currentJob'[t])
                  \subseteq SlotJobs(inbox[t], handling[t], outbox[t], currentJob[t])
            /\ t > spawned' => inbox'[t] = <<>> /\ outbox'[t] = <<>>
  BY <1>3, EndedThreads DEF strayInterval, history
<1>5. TypeOK'
  BY <1>2, <1>3, <1>4 DEF PInv, TypeOK, history
<1>6. Idle' \subseteq Idle
  BY <1>3 DEF Idle
<1>7. StopsBounded'
  BY <1>2 DEF StopsBounded
<1>. QED
  BY <1>3, <1>4, <1>5, <1>6, <1>7, Quiet DEF history

\* A worker fails: it may be replaced, and its slot goes.
LEMMA RestartStep ==
    ASSUME PoolAssumption, PInv, NEW s \in Slots, Receives(s, "error"), restartWorker(s),
           UNCHANGED <<config, started, stopping, strays, active, currentJob, jobQueue, history>>
    PROVE  PInv'
<1> DEFINE k == IF config.handlerScript /\ restartCounts[s] + 1 <= config.maxWorkerRestarts
                THEN 1 ELSE 0
<1>1. k \in 0 .. 1
  OBVIOUS
<1>2. PICK rest \in Silenced({s}) :
         outbox' = Greeted([rest EXCEPT ![s] = IF @ = <<>> THEN @ ELSE Tail(@)], k)
  BY DEF restartWorker
<1>3. /\ s \in workers /\ spawned + k <= MaxWorkers /\ spawned' = spawned + k
      /\ workers' = (workers \cup NewSlots(k)) \ {s}
      /\ threads' = (threads \cup NewSlots(k)) \ {s}
      /\ terminate({s})
  BY DEF restartWorker
<1>4. restartCounts' \in [Slots -> Nat]
  <2>1. restartCounts \in [Slots -> Nat]
    BY DEF PInv, TypeOK
  <2>2. \/ restartCounts' = restartCounts
        \/ restartCounts' = [restartCounts EXCEPT ![s] = restartCounts[s] + 1]
    BY DEF restartWorker
  <2>3. restartCounts[s] + 1 \in Nat
    BY <2>1
  <2>. QED
    BY <2>1, <2>2, <2>3
<1>. HIDE DEF k
<1>5. /\ spawned \in 0 .. MaxWorkers /\ MaxWorkers \in Nat
      /\ workers \subseteq 1 .. spawned /\ active \subseteq 1 .. spawned
      /\ threads \subseteq 1 .. spawned
      /\ outbox \in [Slots -> Seq(OutMessage)]
  BY DEF PInv, TypeOK, PoolAssumption
<1>6. /\ spawned' \in 0 .. MaxWorkers /\ s \in 1 .. spawned
      /\ NewSlots(k) \subseteq 1 .. spawned' /\ 1 .. spawned \subseteq 1 .. spawned'
      /\ NewSlots(k) \cap 1 .. spawned = {}
  BY <1>1, <1>3, <1>5 DEF NewSlots
<1>7. rest \in [Slots -> Seq(OutMessage)] /\ rest[s] \in {<<>>, outbox[s]}
      /\ \A t \in Slots : t # s => rest[t] = outbox[t]
  <2>1. PICK lost \in SUBSET ({s} \cap threads) :
           rest = [t \in Slots |-> IF t \in lost THEN <<>> ELSE outbox[t]]
    BY <1>2 DEF Silenced
  <2>2. <<>> \in Seq(OutMessage)
    BY EmptySeq
  <2>. QED
    BY <1>5, <2>1, <2>2
<1>8. ASSUME NEW t \in Slots
      PROVE  /\ SlotOK(inbox'[t], handling'[t], outbox'[t], currentJob'[t], t \in late')
             /\ SlotJobs(inbox'[t], handling'[t], outbox'[t], currentJob'[t])
                   \subseteq SlotJobs(inbox[t], handling[t], outbox[t], currentJob[t])
             /\ t > spawned' => inbox'[t] = <<>> /\ outbox'[t] = <<>>
             /\ inbox'[t] \in Seq(InMessage) /\ outbox'[t] \in Seq(OutMessage)
             /\ handling'[t] \subseteq Jobs
  <2>1. SlotOK(inbox[t], handling[t], outbox[t], currentJob[t], t \in late)
    BY DEF PInv, SlotsOK
  <2>2. t > spawned => inbox[t] = <<>> /\ outbox[t] = <<>>
    BY DEF PInv, ReadyFirst
  <2>3. t \in Nat /\ currentJob'[t] = currentJob[t] /\ (t \in late' <=> t \in late)
    BY <1>5 DEF Slots, history
  <2>4. CASE t = s
    <3>1. inbox'[t] = <<>> /\ handling'[t] = {}
      BY <1>3, <2>4 DEF terminate
    <3>2. t \notin NewSlots(k) /\ ~(t > spawned')
      BY <1>6, <2>4
    <3>3. outbox[t] # <<>>
      BY <2>4 DEF Receives
    <3>4. outbox'[t] \in {<<>>, Tail(outbox[t])}
      <4>1. outbox'[t] = IF rest[s] = <<>> THEN rest[s] ELSE Tail(rest[s])
        BY <1>2, <1>7, <2>4, <3>2 DEF Greeted
      <4>. QED
        BY <1>7, <2>4, <3>3, <4>1
    <3>5. /\ SlotOK(<<>>, {}, outbox[t], currentJob[t], t \in late)
          /\ SlotJobs(<<>>, {}, outbox[t], currentJob[t])
                \subseteq SlotJobs(inbox[t], handling[t], outbox[t], currentJob[t])
          /\ SlotOK(<<>>, {}, <<>>, currentJob[t], t \in late)
          /\ SlotJobs(<<>>, {}, <<>>, currentJob[t])
                \subseteq SlotJobs(inbox[t], handling[t], outbox[t], currentJob[t])
      BY <2>1, SlotTerminates
    <3>6. /\ SlotOK(<<>>, {}, Tail(outbox[t]), currentJob[t], t \in late)
          /\ SlotJobs(<<>>, {}, Tail(outbox[t]), currentJob[t])
                \subseteq SlotJobs(<<>>, {}, outbox[t], currentJob[t])
      BY <3>3, <3>5, SlotReceives
    <3>7. /\ SlotOK(<<>>, {}, outbox'[t], currentJob[t], t \in late)
          /\ SlotJobs(<<>>, {}, outbox'[t], currentJob[t])
                \subseteq SlotJobs(inbox[t], handling[t], outbox[t], currentJob[t])
      BY <3>4, <3>5, <3>6
    <3>. QED
      BY <2>3, <3>1, <3>2, <3>7 DEF SlotOK
  <2>5. CASE t # s /\ t \in NewSlots(k)
    <3>1. t > spawned /\ ~(t > spawned')
      BY <1>1, <1>3, <1>5, <2>3, <2>5 DEF NewSlots
    <3>2. /\ outbox'[t] = <<Message("ready", NoJob)>> /\ outbox[t] = <<>>
          /\ inbox'[t] = inbox[t] /\ handling'[t] = handling[t]
      BY <1>2, <1>3, <2>2, <2>5, <3>1 DEF Greeted, terminate
    <3>3. /\ SlotOK(inbox[t], handling[t], <<Message("ready", NoJob)>>, currentJob[t], t \in late)
          /\ SlotJobs(inbox[t], handling[t], <<Message("ready", NoJob)>>, currentJob[t])
                = SlotJobs(inbox[t], handling[t], <<>>, currentJob[t])
      BY <2>1, <3>2, SlotGreeted
    <3>. QED
      BY <2>3, <3>1, <3>2, <3>3 DEF SlotOK
  <2>6. CASE t # s /\ t \notin NewSlots(k)
    <3>1. outbox'[t] = outbox[t] /\ inbox'[t] = inbox[t] /\ handling'[t] = handling[t]
      BY <1>2, <1>3, <1>7, <2>6 DEF Greeted, terminate
    <3>2. t > spawned' => t > spawned
      BY <1>1, <1>3, <1>5, <2>3
    <3>. QED
      BY <2>1, <2>2, <2>3, <3>1, <3>2 DEF SlotOK
  <2>. QED
    BY <2>4, <2>5, <2>6
<1>9. /\ inbox' \in [Slots -> Seq(InMessage)]
      /\ handling' \in [Slots -> SUBSET Jobs]
      /\ outbox' \in [Slots -> Seq(OutMessage)]
  BY <1>2, <1>3, <1>8 DEF Greeted, terminate
<1>10. TypeOK'
  <2>1. /\ workers' \subseteq 1 .. spawned' /\ active' \subseteq 1 .. spawned'
        /\ threads' \subseteq 1 .. spawned'
    BY <1>3, <1>5, <1>6
  <2>. QED
    BY <1>4, <1>6, <1>9, <2>1 DEF PInv, TypeOK, history
<1>11. Idle' \subseteq Idle
  <2>1. NewSlots(k) \cap active = {}
    BY <1>5, <1>6
  <2>. QED
    BY <1>3, <2>1 DEF Idle
<1>12. StopsBounded'
  BY DEF PInv, StopsBounded
<1>. QED
  BY <1>8, <1>10, <1>11, <1>12, Quiet DEF history

\* An error event of a slot that is no longer in the map is dropped.
LEMMA ErrorStep ==
    ASSUME PoolAssumption, PInv, NEW s \in Slots, onError(s)
    PROVE  PInv'
<1>1. CASE restartWorker(s)
  BY <1>1, RestartStep DEF onError
<1>2. CASE /\ s \notin workers
           /\ outbox' = [outbox EXCEPT ![s] = Tail(@)]
           /\ UNCHANGED <<workers, spawned, restartCounts, threads, inbox, handling>>
  <2>1. /\ outbox \in [Slots -> Seq(OutMessage)] /\ outbox[s] # <<>>
        /\ UNCHANGED <<config, started, stopping, strays, active, currentJob, jobQueue, history>>
    BY DEF PInv, TypeOK, onError, Receives
  <2>2. ASSUME NEW t \in Slots
        PROVE  /\ SlotOK(inbox'[t], handling'[t], outbox'[t], currentJob'[t], t \in late')
               /\ SlotJobs(inbox'[t], handling'[t], outbox'[t], currentJob'[t])
                     \subseteq SlotJobs(inbox[t], handling[t], outbox[t], currentJob[t])
               /\ t > spawned' => inbox'[t] = <<>> /\ outbox'[t] = <<>>
               /\ outbox'[t] \in Seq(OutMessage)
    <3>1. SlotOK(inbox[t], handling[t], outbox[t], currentJob[t], t \in late)
      BY DEF PInv, SlotsOK
    <3>2. t > spawned => inbox[t] = <<>> /\ outbox[t] = <<>>
      BY DEF PInv, ReadyFirst
    <3>3. CASE t = s
      <4>1. outbox'[t] = Tail(outbox[t]) /\ ~(t > spawned)
        BY <1>2, <2>1, <3>2, <3>3
      <4>2. /\ SlotOK(inbox[t], handling[t], Tail(outbox[t]), currentJob[t], t \in late)
            /\ SlotJobs(inbox[t], handling[t], Tail(outbox[t]), currentJob[t])
                  \subseteq SlotJobs(inbox[t], handling[t], outbox[t], currentJob[t])
        BY <2>1, <3>1, <3>3, SlotReceives
      <4>. QED
        BY <1>2, <2>1, <4>1, <4>2 DEF SlotOK, history
    <3>4. CASE t # s
      BY <1>2, <2>1, <3>1, <3>2, <3>4 DEF SlotOK, history
    <3>. QED
      BY <3>3, <3>4
  <2>3. outbox' \in [Slots -> Seq(OutMessage)]
    BY <1>2, <2>1, <2>2
  <2>4. TypeOK' /\ StopsBounded' /\ Idle' \subseteq Idle
    BY <1>2, <2>1, <2>3 DEF PInv, TypeOK, StopsBounded, Idle, history
  <2>. QED
    BY <1>2, <2>1, <2>2, <2>4, Quiet DEF history
<1>. QED
  BY <1>1, <1>2 DEF onError

\* A step of the thread of s: only that slot's messages and handlers change.
LEMMA ThreadStep ==
    ASSUME PInv, NEW s \in Slots, s \in threads,
           UNCHANGED <<config, pool, currentJob, jobQueue, starts, dispatched, reported,
                       masked, late>>,
           threads' \subseteq threads, errors' \in 0 .. MaxErrors,
           inbox' \in [Slots -> Seq(InMessage)],
           handling' \in [Slots -> SUBSET Jobs],
           outbox' \in [Slots -> Seq(OutMessage)],
           \A t \in Slots : t # s =>
              inbox'[t] = inbox[t] /\ handling'[t] = handling[t] /\ outbox'[t] = outbox[t],
           SlotOK(inbox'[s], handling'[s], outbox'[s], currentJob[s], s \in late),
           SlotJobs(inbox'[s], handling'[s], outbox'[s], currentJob[s])
              \subseteq SlotJobs(inbox[s], handling[s], outbox[s], currentJob[s])
    PROVE  PInv'
<1>1. ~(s > spawned) /\ spawned' = spawned
  BY DEF PInv, TypeOK, Slots, pool
<1>2. ASSUME NEW t \in Slots
      PROVE  /\ SlotOK(inbox'[t], handling'[t], outbox'[t], currentJob'[t], t \in late')
             /\ SlotJobs(inbox'[t], handling'[t], outbox'[t], currentJob'[t])
                   \subseteq SlotJobs(inbox[t], handling[t], outbox[t], currentJob[t])
             /\ t > spawned' => inbox'[t] = <<>> /\ outbox'[t] = <<>>
  <2>1. CASE t = s
    BY <1>1, <2>1 DEF SlotOK
  <2>2. CASE t # s
    BY <1>1, <2>2 DEF PInv, SlotsOK, SlotOK, ReadyFirst
  <2>. QED
    BY <2>1, <2>2
<1>3. TypeOK'
  BY DEF PInv, TypeOK, pool
<1>4. StopsBounded' /\ Idle' \subseteq Idle
  BY DEF PInv, StopsBounded, Idle, pool
<1>. QED
  BY <1>2, <1>3, <1>4, Quiet DEF pool

\* The thread takes a message.
LEMMA TakeStep ==
    ASSUME PoolAssumption, PInv, NEW s \in Slots, takeMessage(s)
    PROVE  PInv'
<1> DEFINE msg == Head(inbox[s])
<1>1. /\ s \in threads /\ inbox[s] # <<>>
      /\ UNCHANGED <<config, pool, currentJob, jobQueue, outbox, history>>
  BY DEF takeMessage
<1>2. /\ inbox \in [Slots -> Seq(InMessage)] /\ handling \in [Slots -> SUBSET Jobs]
      /\ outbox' \in [Slots -> Seq(OutMessage)] /\ errors' \in 0 .. MaxErrors
      /\ Tail(inbox[s]) \in Seq(InMessage) /\ <<>> \in Seq(InMessage)
  BY <1>1, TailFacts, EmptySeq DEF PInv, TypeOK, history
<1>3. SlotOK(inbox[s], handling[s], outbox[s], currentJob[s], s \in late)
  BY DEF PInv, SlotsOK
<1>4. /\ msg.type = "job" =>
            /\ SlotOK(Tail(inbox[s]), handling[s] \cup {msg.job}, outbox[s], currentJob[s], s \in late)
            /\ SlotJobs(Tail(inbox[s]), handling[s] \cup {msg.job}, outbox[s], currentJob[s])
                  \subseteq SlotJobs(inbox[s], handling[s], outbox[s], currentJob[s])
      /\ SlotOK(Tail(inbox[s]), handling[s], outbox[s], currentJob[s], s \in late)
      /\ SlotJobs(Tail(inbox[s]), handling[s], outbox[s], currentJob[s])
            \subseteq SlotJobs(inbox[s], handling[s], outbox[s], currentJob[s])
  BY <1>1, <1>3, SlotTakes
<1>5. /\ SlotOK(<<>>, {}, outbox[s], currentJob[s], s \in late)
      /\ SlotJobs(<<>>, {}, outbox[s], currentJob[s])
            \subseteq SlotJobs(inbox[s], handling[s], outbox[s], currentJob[s])
  BY <1>3, SlotTerminates
<1>6. CASE /\ msg.type = "job"
           /\ handling' = [handling EXCEPT ![s] = @ \cup {msg.job}]
           /\ inbox' = [inbox EXCEPT ![s] = Tail(@)]
           /\ UNCHANGED threads
  <2>1. handling[s] \cup {msg.job} \subseteq Jobs
    BY <1>4, <1>6 DEF SlotOK
  <2>2. /\ inbox' \in [Slots -> Seq(InMessage)] /\ handling' \in [Slots -> SUBSET Jobs]
        /\ inbox'[s] = Tail(inbox[s]) /\ handling'[s] = handling[s] \cup {msg.job}
        /\ outbox'[s] = outbox[s]
        /\ \A t \in Slots : t # s =>
              inbox'[t] = inbox[t] /\ handling'[t] = handling[t] /\ outbox'[t] = outbox[t]
    BY <1>1, <1>2, <1>6, <2>1
  <2>. QED
    BY <1>1, <1>2, <1>4, <1>6, <2>2, ThreadStep DEF history
<1>7. CASE /\ msg.type = "stop" /\ ~config.handlerScript
           /\ threads' = threads \ {s}
           /\ terminate({s})
  <2>1. /\ inbox' \in [Slots -> Seq(InMessage)] /\ handling' \in [Slots -> SUBSET Jobs]
        /\ inbox'[s] = <<>> /\ handling'[s] = {} /\ outbox'[s] = outbox[s]
        /\ \A t \in Slots : t # s =>
              inbox'[t] = inbox[t] /\ handling'[t] = handling[t] /\ outbox'[t] = outbox[t]
    BY <1>1, <1>2, <1>7 DEF terminate
  <2>. QED
    BY <1>1, <1>2, <1>5, <1>7, <2>1, ThreadStep DEF history
<1>8. CASE /\ msg.type = "stop" /\ config.handlerScript
           /\ inbox' = [inbox EXCEPT ![s] = Tail(@)]
           /\ UNCHANGED <<threads, handling>>
  <2>1. /\ inbox' \in [Slots -> Seq(InMessage)] /\ handling' \in [Slots -> SUBSET Jobs]
        /\ inbox'[s] = Tail(inbox[s]) /\ handling'[s] = handling[s] /\ outbox'[s] = outbox[s]
        /\ \A t \in Slots : t # s =>
              inbox'[t] = inbox[t] /\ handling'[t] = handling[t] /\ outbox'[t] = outbox[t]
    BY <1>1, <1>2, <1>8
  <2>. QED
    BY <1>1, <1>2, <1>4, <1>8, <2>1, ThreadStep DEF history
<1>. QED
  BY <1>6, <1>7, <1>8 DEF takeMessage

\* A handler ends.
LEMMA EndsStep ==
    ASSUME PoolAssumption, PInv, NEW s \in Slots, NEW j \in Jobs, handlerEnds(s, j)
    PROVE  PInv'
<1> DEFINE m == Message("answer", j)
<1>1. /\ s \in threads /\ j \in handling[s]
      /\ handling' = [handling EXCEPT ![s] = @ \ {j}]
      /\ outbox' = [outbox EXCEPT ![s] = Append(@, m)]
      /\ UNCHANGED <<config, pool, currentJob, jobQueue, threads, inbox, history>>
  BY DEF handlerEnds
<1>2. /\ inbox' \in [Slots -> Seq(InMessage)] /\ handling \in [Slots -> SUBSET Jobs]
      /\ outbox \in [Slots -> Seq(OutMessage)] /\ errors' \in 0 .. MaxErrors
      /\ m \in OutMessage
  BY <1>1, MessageLemma DEF PInv, TypeOK, history
<1>3. SlotOK(inbox[s], handling[s], outbox[s], currentJob[s], s \in late)
  BY DEF PInv, SlotsOK
<1>4. /\ SlotOK(inbox[s], handling[s] \ {j}, Append(outbox[s], m), currentJob[s], s \in late)
      /\ SlotJobs(inbox[s], handling[s] \ {j}, Append(outbox[s], m), currentJob[s])
            \subseteq SlotJobs(inbox[s], handling[s], outbox[s], currentJob[s])
  BY <1>1, <1>3, SlotAnswers
<1>. HIDE DEF m
<1>5. Append(outbox[s], m) \in Seq(OutMessage)
  BY <1>2, AppendFacts
<1>6. /\ handling' \in [Slots -> SUBSET Jobs] /\ outbox' \in [Slots -> Seq(OutMessage)]
      /\ inbox'[s] = inbox[s] /\ handling'[s] = handling[s] \ {j}
      /\ outbox'[s] = Append(outbox[s], m)
      /\ \A t \in Slots : t # s =>
            inbox'[t] = inbox[t] /\ handling'[t] = handling[t] /\ outbox'[t] = outbox[t]
  BY <1>1, <1>2, <1>5
<1>. QED
  BY <1>1, <1>2, <1>4, <1>6, ThreadStep DEF history

\* An error that nothing catches.
LEMMA ThrowsStep ==
    ASSUME PoolAssumption, PInv, NEW s \in Slots, workerThrows(s)
    PROVE  PInv'
<1> DEFINE m == Message("error", NoJob)
<1>1. PICK said \in {outbox[s], IF Receives(s, "ready") THEN Tail(outbox[s]) ELSE outbox[s]} :
         outbox' = [outbox EXCEPT ![s] = Append(said, m)]
  BY DEF workerThrows
<1>2. /\ s \in threads /\ errors < MaxErrors /\ errors' = errors + 1
      /\ UNCHANGED <<config, pool, currentJob, jobQueue, threads, inbox, handling,
                     starts, dispatched, reported, masked, late>>
  BY DEF workerThrows
<1>3. /\ inbox' \in [Slots -> Seq(InMessage)] /\ handling' \in [Slots -> SUBSET Jobs]
      /\ outbox \in [Slots -> Seq(OutMessage)]
      /\ errors \in 0 .. MaxErrors /\ MaxErrors \in Nat
      /\ m \in OutMessage
  BY <1>2 DEF PInv, TypeOK, PoolAssumption, Message, OutMessage
<1>4. errors' \in 0 .. MaxErrors
  BY <1>2, <1>3
<1>5. SlotOK(inbox[s], handling[s], outbox[s], currentJob[s], s \in late)
  BY DEF PInv, SlotsOK
<1>6. /\ SlotOK(inbox[s], handling[s], said, currentJob[s], s \in late)
      /\ SlotJobs(inbox[s], handling[s], said, currentJob[s])
            \subseteq SlotJobs(inbox[s], handling[s], outbox[s], currentJob[s])
      /\ said \in Seq(OutMessage)
  <2>1. CASE said = outbox[s]
    BY <1>3, <1>5, <2>1
  <2>2. CASE said = Tail(outbox[s]) /\ outbox[s] # <<>>
    BY <1>5, <2>2, SlotReceives DEF SlotOK
  <2>. QED
    BY <1>1, <2>1, <2>2 DEF Receives
<1>7. /\ SlotOK(inbox[s], handling[s], Append(said, m), currentJob[s], s \in late)
      /\ SlotJobs(inbox[s], handling[s], Append(said, m), currentJob[s])
            = SlotJobs(inbox[s], handling[s], said, currentJob[s])
  BY <1>6, SlotAppends
<1>. HIDE DEF m
<1>8. Append(said, m) \in Seq(OutMessage)
  BY <1>3, <1>6, AppendFacts
<1>9. /\ outbox' \in [Slots -> Seq(OutMessage)]
      /\ inbox'[s] = inbox[s] /\ handling'[s] = handling[s] /\ outbox'[s] = Append(said, m)
      /\ \A t \in Slots : t # s =>
            inbox'[t] = inbox[t] /\ handling'[t] = handling[t] /\ outbox'[t] = outbox[t]
  BY <1>1, <1>2, <1>3, <1>8
<1>. QED
  BY <1>2, <1>3, <1>4, <1>6, <1>7, <1>9, ThreadStep

-----------------------------------------------------------------------------
(* The steps that give a slot a job.                                       *)

\* The first of the pending jobs goes to one slot.
LEMMA TakesNext ==
    ASSUME Ordered, jobQueue \in Seq(Jobs), dispatched \in Seq(Jobs), NEW s \in Slots,
           jobQueue # <<>>, jobQueue' = Tail(jobQueue), dispatched' = dispatched,
           JobsAt(s)' \subseteq JobsAt(s) \cup {Head(jobQueue)},
           \A t \in Slots : t # s => JobsAt(t)' \subseteq JobsAt(t)
    PROVE  Ordered'
<1>1. /\ IsSuffix(jobQueue, dispatched) /\ IsInjective(dispatched)
      /\ \A t \in Slots : JobsAt(t) \cap Range(jobQueue) = {}
      /\ \A t \in Slots, u \in Slots : t # u => JobsAt(t) \cap JobsAt(u) = {}
      /\ \A t \in Slots : JobsAt(t) \subseteq Range(dispatched)
  BY DEF Ordered, InOrder, Known, Apart
<1>2. /\ Head(jobQueue) \notin Range(Tail(jobQueue))
      /\ Range(jobQueue) \subseteq Range(dispatched)
      /\ Head(jobQueue) \in Range(jobQueue) /\ Range(Tail(jobQueue)) \subseteq Range(jobQueue)
  BY <1>1, SuffixHead, TailFacts
<1>3. ASSUME NEW t \in Slots
      PROVE  /\ JobsAt(t)' \cap Range(jobQueue)' = {}
             /\ JobsAt(t)' \subseteq Range(dispatched)'
  <2>1. CASE t = s
    BY <1>1, <1>2, <2>1
  <2>2. CASE t # s
    BY <1>1, <1>2, <2>2
  <2>. QED
    BY <2>1, <2>2
<1>4. ASSUME NEW t \in Slots, NEW u \in Slots, t # u
      PROVE  JobsAt(t)' \cap JobsAt(u)' = {}
  <2>1. CASE t = s
    BY <1>1, <1>2, <1>4, <2>1
  <2>2. CASE u = s
    BY <1>1, <1>2, <1>4, <2>2
  <2>3. CASE t # s /\ u # s
    BY <1>1, <1>4, <2>3
  <2>. QED
    BY <2>1, <2>2, <2>3
<1>5. InOrder'
  BY <1>1, SuffixTail DEF InOrder
<1>. QED
  BY <1>1, <1>3, <1>4, <1>5 DEF Ordered, Apart, Known

\* A job is new, and goes to one slot while none is pending.
LEMMA TakesNew ==
    ASSUME Ordered, dispatched \in Seq(Jobs), NEW s \in Slots, NEW j \in Jobs,
           j \notin Range(dispatched), dispatched' = Append(dispatched, j),
           jobQueue = <<>>, jobQueue' = jobQueue,
           JobsAt(s)' \subseteq JobsAt(s) \cup {j},
           \A t \in Slots : t # s => JobsAt(t)' \subseteq JobsAt(t)
    PROVE  Ordered'
<1>1. /\ IsInjective(dispatched)
      /\ \A t \in Slots, u \in Slots : t # u => JobsAt(t) \cap JobsAt(u) = {}
      /\ \A t \in Slots : JobsAt(t) \subseteq Range(dispatched)
  BY DEF Ordered, Known, Apart
<1>2. /\ dispatched' \in Seq(Jobs) /\ Range(dispatched)' = Range(dispatched) \cup {j}
      /\ Range(jobQueue)' = {}
  BY AppendFacts, JobsOfEmpty
<1>3. IsInjective(dispatched')
  <2>1. /\ Len(dispatched) \in Nat /\ DOMAIN dispatched = 1 .. Len(dispatched)
        /\ DOMAIN dispatched' = 1 .. Len(dispatched) + 1
        /\ \A i \in 1 .. Len(dispatched) : dispatched'[i] = dispatched[i]
        /\ dispatched'[Len(dispatched) + 1] = j
    BY AppendFacts, LenProperties
  <2>2. \A i \in 1 .. Len(dispatched) : dispatched[i] # j
    BY <2>1 DEF Range
  <2>. QED
    BY <1>1, <2>1, <2>2 DEF IsInjective
<1>4. ASSUME NEW t \in Slots
      PROVE  /\ JobsAt(t)' \cap Range(jobQueue)' = {}
             /\ JobsAt(t)' \subseteq Range(dispatched)'
  <2>1. CASE t = s
    BY <1>1, <1>2, <2>1
  <2>2. CASE t # s
    BY <1>1, <1>2, <2>2
  <2>. QED
    BY <2>1, <2>2
<1>5. ASSUME NEW t \in Slots, NEW u \in Slots, t # u
      PROVE  JobsAt(t)' \cap JobsAt(u)' = {}
  <2>1. CASE t = s
    BY <1>1, <1>5, <2>1
  <2>2. CASE u = s
    BY <1>1, <1>5, <2>2
  <2>3. CASE t # s /\ u # s
    BY <1>1, <1>5, <2>3
  <2>. QED
    BY <2>1, <2>2, <2>3
<1>6. InOrder'
  <2>1. <<>> \in Seq(Jobs) /\ Len(<<>>) = 0 /\ Len(dispatched') \in Nat
    BY <1>2, EmptySeq, LenProperties
  <2>2. IsSuffix(<<>>, dispatched') <=>
           /\ Len(<<>>) <= Len(dispatched')
           /\ \A i \in 1 .. Len(<<>>) : <<>>[i] = dispatched'[Len(dispatched') - Len(<<>>) + i]
    BY <1>2, <2>1, SuffixForm, Zenon
  <2>. QED
    BY <2>1, <2>2 DEF InOrder
<1>. QED
  BY <1>3, <1>4, <1>5, <1>6 DEF Ordered, Apart, Known

\* A job is new, and waits.
LEMMA Queues ==
    ASSUME Ordered, jobQueue \in Seq(Jobs), dispatched \in Seq(Jobs), NEW j \in Jobs,
           j \notin Range(dispatched), dispatched' = Append(dispatched, j),
           jobQueue' = Append(jobQueue, j),
           \A t \in Slots : JobsAt(t)' = JobsAt(t)
    PROVE  Ordered'
<1>1. /\ IsSuffix(jobQueue, dispatched) /\ IsInjective(dispatched)
      /\ \A t \in Slots : JobsAt(t) \cap Range(jobQueue) = {}
      /\ \A t \in Slots, u \in Slots : t # u => JobsAt(t) \cap JobsAt(u) = {}
      /\ \A t \in Slots : JobsAt(t) \subseteq Range(dispatched)
  BY DEF Ordered, InOrder, Known, Apart
<1>2. /\ Range(dispatched)' = Range(dispatched) \cup {j}
      /\ Range(jobQueue)' = Range(jobQueue) \cup {j}
  BY AppendFacts
<1>3. IsInjective(dispatched')
  <2>1. /\ Len(dispatched) \in Nat /\ DOMAIN dispatched = 1 .. Len(dispatched)
        /\ DOMAIN dispatched' = 1 .. Len(dispatched) + 1
        /\ \A i \in 1 .. Len(dispatched) : dispatched'[i] = dispatched[i]
        /\ dispatched'[Len(dispatched) + 1] = j
    BY AppendFacts, LenProperties
  <2>2. \A i \in 1 .. Len(dispatched) : dispatched[i] # j
    BY <2>1 DEF Range
  <2>. QED
    BY <1>1, <2>1, <2>2 DEF IsInjective
<1>4. InOrder'
  BY <1>1, SuffixAppend DEF InOrder
<1>. QED
  BY <1>1, <1>2, <1>3, <1>4 DEF Ordered, Apart, Known

\* dispatchPending(): slot s, left with the job current, takes the next pending
\* job when it is free.
LEMMA PendingStep ==
    ASSUME PoolAssumption, PInv, NEW s \in Slots, NEW current \in Jobs \cup {NoJob},
           dispatchPending(s, current),
           UNCHANGED <<config, started, stopping, strays, workers, spawned, restartCounts,
                       threads, handling, starts, errors, dispatched>>,
           s \in active', active \subseteq active', active' \subseteq active \cup {s},
           s \in 1 .. spawned,
           outbox' \in [Slots -> Seq(OutMessage)],
           \A t \in Slots : t # s => outbox'[t] = outbox[t],
           reported' \subseteq Jobs, masked' \subseteq Jobs, late' \subseteq Slots,
           \A t \in Slots : t # s => (t \in late' <=> t \in late),
           SlotOK(inbox[s], handling[s], outbox'[s], current, s \in late'),
           SlotJobs(inbox[s], handling[s], outbox'[s], current) \subseteq JobsAt(s)
    PROVE  PInv'
<1>1. /\ jobQueue \in Seq(Jobs) /\ dispatched \in Seq(Jobs)
      /\ currentJob \in [Slots -> Jobs \cup {NoJob}] /\ NoJob \notin Jobs
      /\ inbox \in [Slots -> Seq(InMessage)] /\ active \subseteq 1 .. spawned
  BY DEF PInv, TypeOK, PoolAssumption
<1>2. ASSUME NEW t \in Slots, t # s
      PROVE  /\ SlotOK(inbox[t], handling[t], outbox[t], currentJob[t], t \in late)
             /\ JobsAt(t) = SlotJobs(inbox[t], handling[t], outbox[t], currentJob[t])
             /\ t > spawned => inbox[t] = <<>> /\ outbox[t] = <<>>
  BY JobsAtForm DEF PInv, SlotsOK, ReadyFirst
<1>3. s \notin {t \in Slots : t > spawned}
  BY DEF PInv, TypeOK
<1>4. workers' = workers /\ workers \subseteq Slots
  <2>1. /\ workers \subseteq 1 .. spawned /\ spawned \in 0 .. MaxWorkers
        /\ MaxWorkers \in Nat
    BY DEF PInv, TypeOK, PoolAssumption
  <2>. QED
    BY <2>1 DEF Slots
<1>5. CASE ~(jobQueue # <<>> /\ current = NoJob)
  <2>1. /\ currentJob' = [currentJob EXCEPT ![s] = current]
        /\ UNCHANGED <<jobQueue, inbox>>
    BY <1>5 DEF dispatchPending
  <2>2. currentJob' \in [Slots -> Jobs \cup {NoJob}] /\ currentJob'[s] = current
        /\ \A t \in Slots : t # s => currentJob'[t] = currentJob[t]
    BY <1>1, <2>1
  <2>3. SlotsOK'
    BY <1>2, <2>1, <2>2 DEF SlotsOK, SlotOK
  <2>4. \A t \in Slots : JobsAt(t)' \subseteq JobsAt(t)
    BY <1>2, <2>1, <2>2, JobsAtForm
  <2>5. Ordered'
    BY <2>1, <2>4 DEF PInv, Ordered, Apart, Known, InOrder
  <2>6. ReadyFirst'
    BY <1>2, <1>3, <2>1, <2>4 DEF PInv, ReadyFirst
  <2>7. ASSUME jobQueue' # <<>>
        PROVE  Idle' = {}
    <3>1. Idle = {} /\ current # NoJob
      BY <1>5, <2>1, <2>7 DEF PInv, WorkConserving
    <3>2. ASSUME NEW t \in Idle'
          PROVE  FALSE
      <4>1. t \in Slots /\ t \in workers /\ t \in active' /\ currentJob'[t] = NoJob
        BY <1>4, <3>2 DEF Idle
      <4>2. t # s
        BY <2>2, <3>1, <4>1
      <4>. QED
        BY <2>2, <3>1, <4>1, <4>2 DEF Idle
    <3>. QED
      BY <3>2
  <2>8. TypeOK'
    BY <2>1, <2>2 DEF PInv, TypeOK
  <2>. QED
    BY <2>3, <2>5, <2>6, <2>7, <2>8 DEF PInv, StopsBounded, WorkConserving
<1>6. CASE jobQueue # <<>> /\ current = NoJob
  <2> DEFINE j == Head(jobQueue)
             m == Message("job", j)
  <2>1. /\ jobQueue' = Tail(jobQueue)
        /\ currentJob' = [currentJob EXCEPT ![s] = j]
        /\ inbox' = IF s \in threads THEN [inbox EXCEPT ![s] = Append(@, m)] ELSE inbox
    BY <1>6 DEF dispatchPending, assignJob, Post
  <2>2. j \in Jobs /\ j # NoJob /\ Tail(jobQueue) \in Seq(Jobs)
    BY <1>1, <1>6, TailFacts
  <2>3. m \in InMessage
    BY <2>2, MessageLemma
  <2>4. /\ SlotOK(inbox[s], handling[s], outbox'[s], j, s \in late')
        /\ SlotOK(Append(inbox[s], m), handling[s], outbox'[s], j, s \in late')
        /\ SlotJobs(inbox[s], handling[s], outbox'[s], j) \subseteq JobsAt(s) \cup {j}
        /\ SlotJobs(Append(inbox[s], m), handling[s], outbox'[s], j) \subseteq JobsAt(s) \cup {j}
    <3>1. SlotOK(inbox[s], handling[s], outbox'[s], NoJob, s \in late')
      BY <1>6
    <3>2. SlotJobs(inbox[s], handling[s], outbox'[s], NoJob) \subseteq JobsAt(s)
      BY <1>6
    <3>. HIDE DEF j
    <3>. QED
      BY <2>2, <3>1, <3>2, SlotAssign
  <2>. HIDE DEF j, m
  <2>5. /\ currentJob' \in [Slots -> Jobs \cup {NoJob}] /\ currentJob'[s] = j
        /\ \A t \in Slots : t # s => currentJob'[t] = currentJob[t]
    BY <1>1, <2>1, <2>2
  <2>6. /\ inbox' \in [Slots -> Seq(InMessage)] /\ inbox'[s] \in {inbox[s], Append(inbox[s], m)}
        /\ \A t \in Slots : t # s => inbox'[t] = inbox[t]
    <3>1. Append(inbox[s], m) \in Seq(InMessage)
      BY <1>1, <2>3, AppendFacts
    <3>. QED
      BY <1>1, <2>1, <3>1
  <2>7. SlotsOK'
    BY <1>2, <2>4, <2>5, <2>6 DEF SlotsOK, SlotOK
  <2>8. /\ JobsAt(s)' \subseteq JobsAt(s) \cup {j}
        /\ \A t \in Slots : t # s => JobsAt(t)' \subseteq JobsAt(t)
    BY <1>2, <2>4, <2>5, <2>6, JobsAtForm
  <2>9. Ordered'
    BY <1>1, <1>6, <2>1, <2>8, TakesNext DEF PInv, j
  <2>10. ReadyFirst'
    BY <1>2, <1>3, <2>6, <2>8 DEF PInv, ReadyFirst
  <2>11. WorkConserving'
    <3>1. Idle = {}
      BY <1>6 DEF PInv, WorkConserving
    <3>2. ASSUME NEW t \in Idle'
          PROVE  FALSE
      <4>1. t \in Slots /\ t \in workers /\ t \in active' /\ currentJob'[t] = NoJob
        BY <1>4, <3>2 DEF Idle
      <4>2. t # s
        BY <2>2, <2>5, <4>1
      <4>. QED
        BY <2>5, <3>1, <4>1, <4>2 DEF Idle
    <3>. QED
      BY <3>2 DEF WorkConserving
  <2>12. TypeOK'
    BY <2>1, <2>2, <2>5, <2>6 DEF PInv, TypeOK
  <2>. QED
    BY <2>7, <2>9, <2>10, <2>11, <2>12 DEF PInv, StopsBounded
<1>. QED
  BY <1>5, <1>6

\* A worker says it is ready.
LEMMA ReadyStep ==
    ASSUME PoolAssumption, PInv, NEW s \in Slots, onReady(s)
    PROVE  PInv'
<1>1. /\ outbox[s] # <<>> /\ active' = active \cup {s}
      /\ dispatchPending(s, currentJob[s])
      /\ outbox' = [outbox EXCEPT ![s] = Tail(@)]
      /\ UNCHANGED <<config, started, stopping, strays, workers, spawned, restartCounts,
                     threads, handling, history>>
  BY DEF onReady, Receives
<1>2. outbox \in [Slots -> Seq(OutMessage)] /\ currentJob[s] \in Jobs \cup {NoJob}
  BY DEF PInv, TypeOK
<1>3. SlotOK(inbox[s], handling[s], outbox[s], currentJob[s], s \in late)
  BY DEF PInv, SlotsOK
<1>4. /\ SlotOK(inbox[s], handling[s], Tail(outbox[s]), currentJob[s], s \in late)
      /\ SlotJobs(inbox[s], handling[s], Tail(outbox[s]), currentJob[s]) \subseteq JobsAt(s)
  BY <1>1, <1>3, SlotReceives, JobsAtForm
<1>5. Tail(outbox[s]) \in Seq(OutMessage)
  BY <1>1, <1>2, TailFacts
<1>6. /\ outbox' \in [Slots -> Seq(OutMessage)] /\ outbox'[s] = Tail(outbox[s])
      /\ \A t \in Slots : t # s => outbox'[t] = outbox[t]
  BY <1>1, <1>2, <1>5
<1>7. s \in 1 .. spawned
  BY <1>1 DEF PInv, ReadyFirst, TypeOK, Slots, PoolAssumption
<1>8. reported' \subseteq Jobs /\ masked' \subseteq Jobs /\ late' \subseteq Slots
  BY <1>1 DEF PInv, TypeOK, history
<1> DEFINE cur == currentJob[s]
<1>9. /\ cur \in Jobs \cup {NoJob} /\ dispatchPending(s, cur)
      /\ SlotOK(inbox[s], handling[s], outbox'[s], cur, s \in late')
      /\ SlotJobs(inbox[s], handling[s], outbox'[s], cur) \subseteq JobsAt(s)
  BY <1>1, <1>2, <1>4, <1>6 DEF history
<1>. HIDE DEF cur
<1>10. UNCHANGED <<config, started, stopping, strays, workers, spawned, restartCounts,
                   threads, handling, starts, errors, dispatched, late>>
  BY <1>1 DEF history
<1>. QED
  BY <1>1, <1>6, <1>7, <1>8, <1>9, <1>10, PendingStep

\* A slot with a job is active.
LEMMA BusyIsActive ==
    ASSUME PInv, NEW s \in Slots, JobsAt(s) # {}
    PROVE  s \in active /\ s \in 1 .. spawned
  BY DEF PInv, ReadyFirst, TypeOK

\* A worker answers: its slot is free.
LEMMA AnswerStep ==
    ASSUME PoolAssumption, PInv, NEW s \in Slots, onAnswer(s)
    PROVE  PInv'
<1> DEFINE job == Head(outbox[s]).job
<1>1. /\ outbox[s] # <<>> /\ Head(outbox[s]).type = "answer"
      /\ reported' = reported \cup {job}
      /\ masked' = masked \cup ({currentJob[s]} \ {NoJob, job})
      /\ dispatchPending(s, NoJob)
      /\ outbox' = [outbox EXCEPT ![s] = Tail(@)]
      /\ UNCHANGED <<config, pool, threads, handling, starts, errors, dispatched, late>>
  BY DEF onAnswer, Receives
<1>2. outbox \in [Slots -> Seq(OutMessage)] /\ currentJob[s] \in Jobs \cup {NoJob}
  BY DEF PInv, TypeOK
<1>3. SlotOK(inbox[s], handling[s], outbox[s], currentJob[s], s \in late)
  BY DEF PInv, SlotsOK
<1>4. /\ job \in Jobs /\ job \in JobsAt(s)
      /\ SlotOK(inbox[s], handling[s], Tail(outbox[s]), NoJob, s \in late)
      /\ SlotJobs(inbox[s], handling[s], Tail(outbox[s]), NoJob) \subseteq JobsAt(s)
  BY <1>1, <1>3, SlotReceives, JobsAtForm
<1>. HIDE DEF job
<1>5. Tail(outbox[s]) \in Seq(OutMessage)
  BY <1>1, <1>2, TailFacts
<1>6. /\ outbox' \in [Slots -> Seq(OutMessage)] /\ outbox'[s] = Tail(outbox[s])
      /\ \A t \in Slots : t # s => outbox'[t] = outbox[t]
  BY <1>1, <1>2, <1>5
<1>7. s \in active /\ s \in 1 .. spawned
  BY <1>4, BusyIsActive
<1>8. reported' \subseteq Jobs /\ masked' \subseteq Jobs /\ late' \subseteq Slots
  BY <1>1, <1>2, <1>4 DEF PInv, TypeOK
<1>9. /\ SlotOK(inbox[s], handling[s], outbox'[s], NoJob, s \in late')
      /\ SlotJobs(inbox[s], handling[s], outbox'[s], NoJob) \subseteq JobsAt(s)
  BY <1>1, <1>4, <1>6
<1>10. /\ UNCHANGED <<config, started, stopping, strays, workers, spawned, restartCounts,
                      threads, handling, starts, errors, dispatched, late>>
       /\ active' = active /\ NoJob \in Jobs \cup {NoJob}
  BY <1>1 DEF pool
<1>. QED
  BY <1>1, <1>6, <1>7, <1>8, <1>9, <1>10, PendingStep

\* A job's timer fires: its slot is free, whatever its thread does.
LEMMA TimeoutStep ==
    ASSUME PoolAssumption, PInv, NEW s \in Slots, onTimeout(s)
    PROVE  PInv'
<1>1. /\ currentJob[s] # NoJob
      /\ reported' = reported \cup {currentJob[s]}
      /\ late' = late \cup {s}
      /\ dispatchPending(s, NoJob)
      /\ UNCHANGED <<config, pool, threads, handling, outbox, starts, errors, dispatched, masked>>
  BY DEF onTimeout, TimesOut
<1>2. outbox \in [Slots -> Seq(OutMessage)] /\ currentJob[s] \in Jobs
  BY <1>1 DEF PInv, TypeOK
<1>3. SlotOK(inbox[s], handling[s], outbox[s], currentJob[s], s \in late)
  BY DEF PInv, SlotsOK
<1>4. /\ SlotOK(inbox[s], handling[s], outbox[s], NoJob, TRUE)
      /\ SlotJobs(inbox[s], handling[s], outbox[s], NoJob) \subseteq JobsAt(s)
  BY <1>3, SlotTimesOut, JobsAtForm
<1>5. /\ SlotOK(inbox[s], handling[s], outbox'[s], NoJob, s \in late')
      /\ SlotJobs(inbox[s], handling[s], outbox'[s], NoJob) \subseteq JobsAt(s)
  <2>1. (s \in late') = TRUE /\ outbox'[s] = outbox[s]
    BY <1>1
  <2>. QED
    BY <1>4, <2>1 DEF SlotOK
<1>6. s \in active /\ s \in 1 .. spawned
  <2>1. JobsAt(s) # {}
    BY <1>1 DEF JobsAt
  <2>. QED
    BY <2>1, BusyIsActive
<1>7. reported' \subseteq Jobs /\ masked' \subseteq Jobs /\ late' \subseteq Slots
  BY <1>1, <1>2 DEF PInv, TypeOK
<1>8. /\ UNCHANGED <<config, started, stopping, strays, workers, spawned, restartCounts,
                     threads, handling, starts, errors, dispatched, outbox>>
      /\ active' = active /\ NoJob \in Jobs \cup {NoJob}
      /\ outbox' \in [Slots -> Seq(OutMessage)]
      /\ \A t \in Slots : t # s => (t \in late' <=> t \in late)
      /\ \A t \in Slots : t # s => outbox'[t] = outbox[t]
  BY <1>1, <1>2 DEF pool
<1>. QED
  BY <1>1, <1>5, <1>6, <1>7, <1>8, PendingStep

\* A new job goes to the first idle worker, or waits.
LEMMA DispatchStep ==
    ASSUME PoolAssumption, PInv, NEW j \in Jobs, dispatch(j)
    PROVE  PInv'
<1>1. /\ j \notin Range(dispatched) /\ dispatched' = Append(dispatched, j)
      /\ UNCHANGED <<config, pool, threads, handling, outbox,
                     starts, errors, reported, masked, late>>
  BY DEF dispatch
<1>2. /\ jobQueue \in Seq(Jobs) /\ dispatched \in Seq(Jobs)
      /\ currentJob \in [Slots -> Jobs \cup {NoJob}] /\ NoJob \notin Jobs
      /\ inbox \in [Slots -> Seq(InMessage)] /\ active \subseteq 1 .. spawned
      /\ workers \subseteq 1 .. spawned /\ spawned \in 0 .. MaxWorkers /\ MaxWorkers \in Nat
  BY DEF PInv, TypeOK, PoolAssumption
<1>3. dispatched' \in Seq(Jobs)
  BY <1>1, <1>2, AppendFacts
<1>4. \A t \in Slots :
         /\ SlotOK(inbox[t], handling[t], outbox[t], currentJob[t], t \in late)
         /\ JobsAt(t) = SlotJobs(inbox[t], handling[t], outbox[t], currentJob[t])
         /\ t > spawned => inbox[t] = <<>> /\ outbox[t] = <<>>
  BY JobsAtForm DEF PInv, SlotsOK, ReadyFirst
<1>5. CASE Idle # {}
  <2> DEFINE s == Min(Idle)
             m == Message("job", j)
  <2>1. s \in Idle
    <3>1. Idle \subseteq Nat
      <4>1. Idle \subseteq workers
        BY DEF Idle
      <4>2. 1 .. spawned \subseteq Nat
        BY <1>2
      <4>. QED
        BY <1>2, <4>1, <4>2
    <3>. QED
      BY <1>5, <3>1, MinLemma
  <2>2. assignJob(s, j) /\ jobQueue' = jobQueue
    BY <1>5 DEF dispatch
  <2>. HIDE DEF s
  <2>3. s \in Slots /\ s \in active /\ s \in 1 .. spawned /\ currentJob[s] = NoJob
    BY <1>2, <2>1 DEF Idle, Slots
  <2>4. PICK r \in Slots : r = s
    BY <2>3
  <2>5. /\ currentJob' = [currentJob EXCEPT ![r] = j]
        /\ inbox' = IF r \in threads THEN [inbox EXCEPT ![r] = Append(@, m)] ELSE inbox
    BY <2>2, <2>4 DEF assignJob, Post
  <2>6. r \in active /\ r \in 1 .. spawned /\ currentJob[r] = NoJob
    BY <2>3, <2>4
  <2>7. m \in InMessage /\ j # NoJob
    BY MessageLemma
  <2>8. /\ SlotOK(inbox[r], handling[r], outbox[r], j, r \in late)
        /\ SlotOK(Append(inbox[r], m), handling[r], outbox[r], j, r \in late)
        /\ SlotJobs(inbox[r], handling[r], outbox[r], j) \subseteq JobsAt(r) \cup {j}
        /\ SlotJobs(Append(inbox[r], m), handling[r], outbox[r], j) \subseteq JobsAt(r) \cup {j}
    <3>1. SlotOK(inbox[r], handling[r], outbox[r], NoJob, r \in late)
      BY <1>4, <2>6
    <3>2. SlotJobs(inbox[r], handling[r], outbox[r], NoJob) = JobsAt(r)
      BY <1>4, <2>6
    <3>. QED
      BY <3>1, <3>2, SlotAssign
  <2>. HIDE DEF m
  <2>9. /\ currentJob' \in [Slots -> Jobs \cup {NoJob}] /\ currentJob'[r] = j
        /\ \A t \in Slots : t # r => currentJob'[t] = currentJob[t]
    BY <1>2, <2>5
  <2>10. /\ inbox' \in [Slots -> Seq(InMessage)] /\ inbox'[r] \in {inbox[r], Append(inbox[r], m)}
         /\ \A t \in Slots : t # r => inbox'[t] = inbox[t]
    <3>1. Append(inbox[r], m) \in Seq(InMessage)
      BY <1>2, <2>7, AppendFacts
    <3>. QED
      BY <1>2, <2>5, <3>1
  <2>11. SlotsOK'
    BY <1>1, <1>4, <2>8, <2>9, <2>10 DEF SlotsOK, SlotOK
  <2>12. /\ JobsAt(r)' \subseteq JobsAt(r) \cup {j}
         /\ \A t \in Slots : t # r => JobsAt(t)' \subseteq JobsAt(t)
    BY <1>1, <1>4, <2>8, <2>9, <2>10, JobsAtForm
  <2>13. jobQueue = <<>>
    BY <1>5 DEF PInv, WorkConserving
  <2>14. Ordered'
    BY <1>1, <1>2, <2>2, <2>12, <2>13, TakesNew DEF PInv
  <2>15. ReadyFirst'
    BY <1>1, <1>2, <1>4, <2>6, <2>10, <2>12 DEF PInv, ReadyFirst, pool
  <2>16. WorkConserving'
    BY <2>2, <2>13 DEF WorkConserving
  <2>17. TypeOK'
    BY <1>1, <1>2, <1>3, <2>2, <2>9, <2>10 DEF PInv, TypeOK, pool
  <2>. QED
    BY <1>1, <2>11, <2>14, <2>15, <2>16, <2>17 DEF PInv, StopsBounded, pool
<1>6. CASE Idle = {}
  <2>1. jobQueue' = Append(jobQueue, j) /\ UNCHANGED <<currentJob, inbox>>
    BY <1>6 DEF dispatch
  <2>2. jobQueue' \in Seq(Jobs)
    BY <1>2, <2>1, AppendFacts
  <2>3. \A t \in Slots : JobsAt(t)' = JobsAt(t)
    BY <1>1, <2>1, JobsAtForm
  <2>4. Ordered'
    BY <1>1, <1>2, <2>1, <2>3, Queues DEF PInv
  <2>5. SlotsOK' /\ ReadyFirst'
    BY <1>1, <1>4, <2>1, <2>3 DEF PInv, SlotsOK, SlotOK, ReadyFirst, pool
  <2>6. Idle' = {}
    BY <1>1, <1>6, <2>1 DEF Idle, pool
  <2>7. TypeOK'
    BY <1>1, <1>3, <2>1, <2>2 DEF PInv, TypeOK, pool
  <2>. QED
    BY <1>1, <2>4, <2>5, <2>6, <2>7 DEF PInv, StopsBounded, WorkConserving, pool
<1>. QED
  BY <1>5, <1>6

-----------------------------------------------------------------------------
(* The theorems.                                                           *)

\* Every step keeps the invariant.
LEMMA PInvStep == ASSUME PoolAssumption, PInv, [Next]_vars PROVE PInv'
<1>1. CASE UNCHANGED vars
  <2>1. /\ UNCHANGED <<config, started, stopping, strays, workers, spawned, active,
                       restartCounts, currentJob, jobQueue, threads, inbox, handling, outbox,
                       starts, errors, dispatched, reported, masked, late>>
    BY <1>1 DEF vars, pool, links, history
  <2>2. TypeOK' /\ StopsBounded' /\ Idle' \subseteq Idle
    BY <2>1 DEF PInv, TypeOK, StopsBounded, Idle
  <2>3. ASSUME NEW t \in Slots
        PROVE  /\ SlotOK(inbox'[t], handling'[t], outbox'[t], currentJob'[t], t \in late')
               /\ SlotJobs(inbox'[t], handling'[t], outbox'[t], currentJob'[t])
                     \subseteq SlotJobs(inbox[t], handling[t], outbox[t], currentJob[t])
               /\ t > spawned' => inbox'[t] = <<>> /\ outbox'[t] = <<>>
    BY <2>1 DEF PInv, SlotsOK, SlotOK, ReadyFirst
  <2>. QED
    BY <2>1, <2>2, <2>3, Quiet
<1>2. CASE start
  BY <1>2, StartStep
<1>3. CASE stop
  BY <1>3, StopStep
<1>4. CASE stopped
  BY <1>4, StoppedStep
<1>5. CASE strayInterval
  BY <1>5, StrayStep
<1>6. ASSUME NEW j \in Jobs, dispatch(j)
      PROVE  PInv'
  BY <1>6, DispatchStep
<1>7. ASSUME NEW s \in Slots, onReady(s)
      PROVE  PInv'
  BY <1>7, ReadyStep
<1>8. ASSUME NEW s \in Slots, onAnswer(s)
      PROVE  PInv'
  BY <1>8, AnswerStep
<1>9. ASSUME NEW s \in Slots, onError(s)
      PROVE  PInv'
  BY <1>9, ErrorStep
<1>10. ASSUME NEW s \in Slots, onTimeout(s)
       PROVE  PInv'
  BY <1>10, TimeoutStep
<1>11. ASSUME NEW s \in Slots, takeMessage(s)
       PROVE  PInv'
  BY <1>11, TakeStep
<1>12. ASSUME NEW s \in Slots, workerThrows(s)
       PROVE  PInv'
  BY <1>12, ThrowsStep
<1>13. ASSUME NEW s \in Slots, NEW j \in Jobs, handlerEnds(s, j)
       PROVE  PInv'
  BY <1>13, EndsStep
<1>. QED
  BY <1>1, <1>2, <1>3, <1>4, <1>5, <1>6, <1>7, <1>8, <1>9, <1>10, <1>11, <1>12, <1>13 DEF Next

\* The pool's invariant: what a slot, its thread and the messages between them
\* have of jobs.
THEOREM InductiveInvariant == ASSUME PoolAssumption PROVE Spec => []IInv
<1>1. Init => PInv
  BY PInvInit
<1>2. PInv /\ [Next]_vars => PInv'
  BY PInvStep
<1>3. PInv => IInv
  BY PInvForm
<1>. QED
  BY <1>1, <1>2, <1>3, PTL DEF Spec

\* No job waits while a ready worker of the pool is idle: dispatch() and
\* dispatchPending().
THEOREM WorkConservingHolds == ASSUME PoolAssumption PROVE Spec => []WorkConserving
<1>1. IInv => WorkConserving
  BY DEF IInv
<1>. QED
  BY <1>1, InductiveInvariant, PTL

\* Jobs reach the workers in the order they were dispatched: jobQueue is a queue.
THEOREM InOrderHolds == ASSUME PoolAssumption PROVE Spec => []InOrder
<1>1. IInv => InOrder
  BY DEF IInv
<1>. QED
  BY <1>1, InductiveInvariant, PTL

\* A worker is busy with its slot's currentJob only, until a job of its times
\* out, and no job is at two slots or at a slot and in the queue.
THEOREM OneJobPerWorkerHolds == ASSUME PoolAssumption PROVE Spec => []OneJobPerWorker
<1>1. IInv => OneJobPerWorker
  BY DEF IInv
<1>. QED
  BY <1>1, InductiveInvariant, PTL
=============================================================================
