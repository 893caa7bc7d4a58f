----------------------- MODULE DistributedLockProofs -----------------------
(***************************************************************************)
(* Mutual exclusion of DistributedLock.run() under Timely, for any number  *)
(* of calls and any delays; that run() implements ExclusiveRun there; and  *)
(* the bound on how long a lock outlives its call, whatever the delays.    *)
(***************************************************************************)
EXTENDS DistributedLock, SequenceTheorems, TLAPS

\* Rounding the lease up to whole seconds never shortens it.
LEMMA CeilLemma ==
    ASSUME NEW t \in Nat, NEW s \in Nat \ {0}
    PROVE  /\ ((t + s - 1) \div s) * s \in Nat
           /\ ((t + s - 1) \div s) * s >= t
  <1> DEFINE q == (t + s - 1) \div s
  <1>1. t + s - 1 \in Nat
    OBVIOUS
  <1>2. q \in Nat
    BY <1>1, Z3
  <1>3. t + s - 1 = s * q + ((t + s - 1) % s)
    BY <1>1, Z3
  <1>4. (t + s - 1) % s < s
    BY <1>1
  <1>5. QED
    BY <1>1, <1>2, <1>3, <1>4, Z3

\* The delays the code computes from the lease.
LEMMA ConstantFacts ==
    /\ RenewInterval \in Nat
    /\ InitialTtl \in Nat
    /\ InitialTtl >= Ttl
  <1>1. RenewInterval \in Nat
    BY LockAssumption DEF RenewInterval
  <1>2. InitialTtl \in Nat /\ InitialTtl >= Ttl
    BY LockAssumption, CeilLemma DEF InitialTtl
  <1>3. QED
    BY <1>1, <1>2

\* What Timely says of each call.
LEMMA TimelyFacts ==
    ASSUME Timely
    PROVE  /\ Admin = FALSE
           /\ \A c \in AutoRenew :
                 Lossy = FALSE /\ RenewInterval + MaxLag + 2 * MaxDelay < Ttl
           /\ \A c \in Calls \ AutoRenew : MaxRun[c] + MaxDelay < Ttl
  BY LockAssumption DEF Timely

\* The end of a connection's queue, and what is left of it after a command.
LEMMA WireLemma ==
    ASSUME NEW w \in Seq(Commands)
    PROVE  /\ \A m \in Commands :
                 /\ Append(w, m) \in Seq(Commands)
                 /\ DOMAIN Append(w, m) = 1 .. Len(w) + 1
                 /\ \A i \in DOMAIN w : Append(w, m)[i] = w[i]
                 /\ Append(w, m)[Len(w) + 1] = m
                 /\ Append(w, m) # <<>>
           /\ DOMAIN w = 1 .. Len(w)
           /\ Len(w) \in Nat
           /\ \A i \in DOMAIN w : w[i] \in Commands
           /\ w # <<>> =>
                 /\ 1 \in DOMAIN w
                 /\ Head(w) = w[1]
                 /\ Tail(w) \in Seq(Commands)
                 /\ \A i \in DOMAIN Tail(w) : i + 1 \in DOMAIN w /\ Tail(w)[i] = w[i + 1]
                 /\ Len(w) = 1 => Tail(w) = <<>>
  <1>1. \A m \in Commands :
           /\ Append(w, m) \in Seq(Commands)
           /\ DOMAIN Append(w, m) = 1 .. Len(w) + 1
           /\ \A i \in DOMAIN w : Append(w, m)[i] = w[i]
           /\ Append(w, m)[Len(w) + 1] = m
           /\ Append(w, m) # <<>>
    BY AppendProperties, LenProperties
  <1>2. DOMAIN w = 1 .. Len(w) /\ Len(w) \in Nat /\ \A i \in DOMAIN w : w[i] \in Commands
    BY LenProperties, ElementOfSeq
  <1>3. ASSUME w # <<>>
        PROVE  /\ 1 \in DOMAIN w
               /\ Head(w) = w[1]
               /\ Tail(w) \in Seq(Commands)
               /\ \A i \in DOMAIN Tail(w) : i + 1 \in DOMAIN w /\ Tail(w)[i] = w[i + 1]
               /\ Len(w) = 1 => Tail(w) = <<>>
    <2>1. /\ 1 \in DOMAIN w
          /\ Head(w) = w[1]
          /\ Tail(w) \in Seq(Commands)
          /\ \A i \in DOMAIN Tail(w) : i + 1 \in DOMAIN w /\ Tail(w)[i] = w[i + 1]
      BY <1>2, <1>3, HeadTailProperties, LenProperties, EmptySeq
    <2>2. Len(Tail(w)) = Len(w) - 1
      BY <1>3, HeadTailProperties
    <2>3. Len(w) = 1 => Tail(w) = <<>>
      BY <1>2, <2>1, <2>2, EmptySeq
    <2>4. QED
      BY <2>1, <2>3
  <1>4. QED
    BY <1>1, <1>2, <1>3

\* A call between its grant and the end of its callback holds the live key.
LEMMA LeasedLocked ==
    ASSUME IInv, Timely, NEW c \in Calls, pc[c] \in {"granted", "callback"}
    PROVE  owner = c /\ expiresAt > now /\ Locked
  <1>1. owner = c
    BY DEF IInv, Leased
  <1>2. now \in Nat /\ expiresAt \in Nat /\ timer[c] \in Nat /\ since[c] \in Nat
    BY DEF IInv, TypeOK
  <1>3. CASE pc[c] = "granted"
    <2>1. expiresAt >= timer[c] + Ttl /\ now <= timer[c] + MaxDelay
      BY <1>3 DEF IInv, Leased, Prompt
    <2>2. MaxDelay < Ttl
      <3>1. CASE c \in AutoRenew
        <4>1. RenewInterval + MaxLag + 2 * MaxDelay < Ttl
          BY <3>1, TimelyFacts
        <4>2. QED
          BY <4>1, ConstantFacts, LockAssumption
      <3>2. CASE c \notin AutoRenew
        <4>1. MaxRun[c] \in Nat
          BY LockAssumption
        <4>2. QED
          BY <3>2, <4>1, TimelyFacts, LockAssumption
      <3>3. QED
        BY <3>1, <3>2
    <2>3. expiresAt > now
      BY <1>2, <2>1, <2>2, LockAssumption
    <2>4. QED
      BY <1>1, <2>3, LockAssumption DEF Locked
  <1>4. CASE pc[c] = "callback" /\ c \notin AutoRenew
    <2>1. expiresAt + MaxDelay >= since[c] + Ttl /\ now <= since[c] + MaxRun[c]
      BY <1>4 DEF IInv, Leased, Prompt
    <2>2. MaxRun[c] \in Nat /\ MaxRun[c] + MaxDelay < Ttl
      BY <1>4, TimelyFacts, LockAssumption
    <2>3. expiresAt > now
      BY <1>2, <2>1, <2>2, LockAssumption
    <2>4. QED
      BY <1>1, <2>3, LockAssumption DEF Locked
  <1>5. CASE pc[c] = "callback" /\ c \in AutoRenew
    <2>1. CASE wire[c] = <<>>
      <3>1. expiresAt > timer[c] + MaxLag + MaxDelay /\ now <= timer[c] + MaxLag
        BY <1>5, <2>1 DEF IInv, Leased, Prompt
      <3>2. expiresAt > now
        BY <1>2, <3>1, LockAssumption
      <3>3. QED
        BY <1>1, <3>2, LockAssumption DEF Locked
    <2>2. CASE wire[c] # <<>>
      <3>1. wire[c] \in Seq(Commands)
        BY DEF IInv, TypeOK
      <3>2. 1 \in DOMAIN wire[c] /\ wire[c][1] \in Commands
        BY <2>2, <3>1, WireLemma
      <3>3. wire[c][1].at \in Nat
        BY <3>2 DEF Commands
      <3>4. expiresAt > wire[c][1].at + MaxDelay /\ now <= wire[c][1].at + MaxDelay
        BY <1>5, <2>2, <3>2 DEF IInv, Leased, Prompt
      <3>5. expiresAt > now
        BY <1>2, <3>3, <3>4, LockAssumption
      <3>6. QED
        BY <1>1, <3>5, LockAssumption DEF Locked
    <2>3. QED
      BY <2>1, <2>2
  <1>6. QED
    BY <1>3, <1>4, <1>5

\* A command in the queue of connection d after a step was there before it, or
\* is sent by it.
OldOrNew(d, i) ==
    \/ \E j \in DOMAIN wire[d] : wire'[d][i] = wire[d][j]
    \/ wire'[d][i].at = now

\* Sending appends to the call's own connection.
LEMMA SendLemma ==
    ASSUME TypeOK, NEW c \in Calls, NEW cmd \in {"set", "renew", "release"}, Send(c, cmd)
    PROVE  /\ wire' \in [Calls -> Seq(Commands)]
           /\ \A d \in Calls \ {c} : wire'[d] = wire[d]
           /\ wire'[c] # <<>>
           /\ wire[c] # <<>> => wire'[c][1] = wire[c][1]
           /\ wire[c] = <<>> =>
                 wire'[c][1].at = now /\ wire'[c][1].cmd = cmd /\ Len(wire'[c]) = 1
           /\ \A i \in DOMAIN wire'[c] :
                 (i \in DOMAIN wire[c] /\ wire'[c][i] = wire[c][i]) \/ wire'[c][i].cmd = cmd
           /\ \A d \in Calls : \A i \in DOMAIN wire'[d] : OldOrNew(d, i)
  <1> DEFINE w == wire[c]
             m == [cmd |-> cmd, at |-> now]
  <1>1. w \in Seq(Commands) /\ m \in Commands
    BY DEF TypeOK, Commands
  <1>2. wire' = [wire EXCEPT ![c] = Append(w, m)]
    BY DEF Send
  <1>3. wire'[c] = Append(w, m) /\ \A d \in Calls \ {c} : wire'[d] = wire[d]
    BY <1>2 DEF TypeOK
  <1>4. m.at = now /\ m.cmd = cmd
    OBVIOUS
  <1>5. /\ Append(w, m) \in Seq(Commands)
        /\ DOMAIN Append(w, m) = 1 .. Len(w) + 1
        /\ \A i \in DOMAIN w : Append(w, m)[i] = w[i]
        /\ Append(w, m)[Len(w) + 1] = m
        /\ Append(w, m) # <<>>
        /\ DOMAIN w = 1 .. Len(w)
        /\ Len(w) \in Nat
        /\ w # <<>> => 1 \in DOMAIN w
    BY <1>1, WireLemma
  <1>6. wire' \in [Calls -> Seq(Commands)]
    BY <1>2, <1>5 DEF TypeOK
  <1>. HIDE DEF w, m
  <1>7. w = <<>> => Len(w) + 1 = 1 /\ Len(Append(w, m)) = 1
    <2> SUFFICES ASSUME w = <<>> PROVE Len(w) = 0 /\ Len(Append(w, m)) = 1
      OBVIOUS
    <2>1. Len(w) = 0
      BY EmptySeq
    <2>2. Len(Append(w, m)) = Len(w) + 1
      BY <1>1, AppendProperties
    <2>3. QED
      BY <2>1, <2>2
  <1>8. \A i \in DOMAIN Append(w, m) :
           (i \in DOMAIN w /\ Append(w, m)[i] = w[i]) \/ Append(w, m)[i] = m
    BY <1>5
  <1>9. wire[c] = w
    BY DEF w
  <1>10. \A d \in Calls : \A i \in DOMAIN wire'[d] : OldOrNew(d, i)
    <2> SUFFICES ASSUME NEW d \in Calls, NEW i \in DOMAIN wire'[d]
                 PROVE  OldOrNew(d, i)
      OBVIOUS
    <2>1. CASE d = c
      BY <1>3, <1>4, <1>8, <1>9, <2>1 DEF OldOrNew
    <2>2. CASE d # c
      BY <1>3, <2>2 DEF OldOrNew
    <2>3. QED
      BY <2>1, <2>2
  <1>11. QED
    BY <1>3, <1>4, <1>5, <1>6, <1>7, <1>8, <1>9, <1>10

\* An arrival takes the head off the call's own connection.
LEMMA ArrivesLemma ==
    ASSUME TypeOK, NEW c \in Calls, NEW cmd \in {"set", "renew", "release"}, Arrives(c, cmd)
    PROVE  /\ wire' \in [Calls -> Seq(Commands)]
           /\ \A d \in Calls \ {c} : wire'[d] = wire[d]
           /\ wire[c] # <<>>
           /\ 1 \in DOMAIN wire[c]
           /\ wire[c][1].cmd = cmd
           /\ wire[c][1].at \in Nat
           /\ \A i \in DOMAIN wire'[c] : \E j \in DOMAIN wire[c] : wire'[c][i] = wire[c][j]
           /\ wire'[c] # <<>> => 1 \in DOMAIN wire'[c]
           /\ Len(wire[c]) = 1 => wire'[c] = <<>>
           /\ \A d \in Calls : \A i \in DOMAIN wire'[d] : OldOrNew(d, i)
  <1> DEFINE w == wire[c]
  <1>1. w \in Seq(Commands)
    BY DEF TypeOK
  <1>2. w # <<>> /\ Head(w).cmd = cmd /\ wire' = [wire EXCEPT ![c] = Tail(w)]
    BY DEF Arrives
  <1>3. wire'[c] = Tail(w) /\ \A d \in Calls \ {c} : wire'[d] = wire[d]
    BY <1>2 DEF TypeOK
  <1>4. /\ 1 \in DOMAIN w
        /\ Head(w) = w[1]
        /\ w[1] \in Commands
        /\ Tail(w) \in Seq(Commands)
        /\ \A i \in DOMAIN Tail(w) : i + 1 \in DOMAIN w /\ Tail(w)[i] = w[i + 1]
        /\ Len(w) = 1 => Tail(w) = <<>>
    BY <1>1, <1>2, WireLemma
  <1>5. wire' \in [Calls -> Seq(Commands)]
    BY <1>2, <1>4 DEF TypeOK
  <1>6. Tail(w) # <<>> => 1 \in DOMAIN Tail(w)
    BY <1>4, WireLemma
  <1>7. w[1].at \in Nat
    BY <1>4 DEF Commands
  <1>8. wire[c] = w
    OBVIOUS
  <1>. HIDE DEF w
  <1>9. \A i \in DOMAIN wire'[c] : \E j \in DOMAIN wire[c] : wire'[c][i] = wire[c][j]
    BY <1>3, <1>4, <1>8
  <1>10. \A d \in Calls : \A i \in DOMAIN wire'[d] : OldOrNew(d, i)
    BY <1>3, <1>9 DEF OldOrNew
  <1>11. QED
    BY <1>2, <1>3, <1>4, <1>5, <1>6, <1>7, <1>8, <1>9, <1>10

\* In a step that takes no time nothing on the wire becomes late, and calls that
\* were over before it send nothing.
LEMMA WireOnTime ==
    ASSUME TypeOK, \A d \in Calls : Prompt(d), now' = now,
           \A d \in Calls : \A i \in DOMAIN wire'[d] : OldOrNew(d, i)
    PROVE  \A d \in Calls : \A i \in DOMAIN wire'[d] :
              wire'[d][i].at <= now /\ now <= wire'[d][i].at + MaxDelay
  <1> SUFFICES ASSUME NEW d \in Calls, NEW i \in DOMAIN wire'[d]
               PROVE  wire'[d][i].at <= now /\ now <= wire'[d][i].at + MaxDelay
    OBVIOUS
  <1>1. now \in Nat /\ MaxDelay \in Nat
    BY LockAssumption DEF TypeOK
  <1>2. CASE wire'[d][i].at = now
    BY <1>1, <1>2
  <1>3. CASE \E j \in DOMAIN wire[d] : wire'[d][i] = wire[d][j]
    BY <1>3 DEF Prompt
  <1>4. QED
    BY <1>2, <1>3 DEF OldOrNew

\* A command on the wire was sent at some time, within MaxDelay of now.
LEMMA WireTimes ==
    ASSUME TypeOK, NEW c \in Calls, NEW i \in DOMAIN wire[c]
    PROVE  wire[c][i] \in Commands /\ wire[c][i].at \in Nat
  <1>1. wire[c] \in Seq(Commands)
    BY DEF TypeOK
  <1>2. wire[c][i] \in Commands
    BY <1>1, WireLemma
  <1>3. QED
    BY <1>2 DEF Commands

\* Timely speaks of constants only.
LEMMA TimelyConstant == Timely' <=> Timely
  BY DEF Timely, RenewInterval

\* The reply OK starts the callback and the renewals in time for the lease.
LEMMA GrantedStep ==
    ASSUME IInv, NEW c \in Calls, Granted(c)
    PROVE  IInv'
  <1>. USE ConstantFacts, LockAssumption
  <1>1. /\ TypeOK
        /\ \A d \in Calls : Shape(d) /\ Prompt(d)
        /\ Timely => \A d \in Calls : Leased(d)
        /\ NoLateSends
        /\ LeaseEnds
    BY DEF IInv
  <1>3. wire' = wire
    BY DEF Granted
  <1>4. \A d \in Calls : \A i \in DOMAIN wire'[d] : OldOrNew(d, i)
    BY <1>3 DEF OldOrNew
  <1>5. TypeOK'
    BY <1>1, <1>3 DEF TypeOK, Over, Granted, Goto, With
  <1>6. \A d \in Calls : Shape(d)'
    BY <1>1, <1>3 DEF TypeOK, Shape, Over, Granted, Goto, With
  <1>7. now' = now
    BY DEF Granted
  <1>8. \A d \in Calls : \A i \in DOMAIN wire'[d] :
           wire'[d][i].at <= now /\ now <= wire'[d][i].at + MaxDelay
    BY <1>1, <1>4, <1>7, WireOnTime
  <1>9. \A d \in Calls : Prompt(d)'
    <2>1. \A d \in Calls : MaxRun[d] \in Nat
      BY LockAssumption
    <2>2. /\ \A d \in Calls \ {c} : pc'[d] = pc[d] /\ timer'[d] = timer[d] /\ since'[d] = since[d]
          /\ pc'[c] = "callback" /\ timer'[c] = now + RenewInterval /\ since'[c] = now
      BY <1>1 DEF TypeOK, Granted, Goto, With
    <2>3. Prompt(c)'
      BY <1>1, <1>7, <1>8, <2>1, <2>2 DEF TypeOK, Prompt
    <2>4. ASSUME NEW d \in Calls \ {c} PROVE Prompt(d)'
      BY <1>1, <1>7, <1>8, <2>2 DEF Prompt
    <2>5. QED
      BY <2>3, <2>4
  <1>10. NoLateSends'
    BY <1>1, <1>3, <1>7, <1>8 DEF TypeOK, NoLateSends, Over, Granted, Goto, With
  <1>11. LeaseEnds'
    BY <1>1, <1>3, <1>7 DEF TypeOK, Prompt, NoLateSends, LeaseEnds, Over, Granted, Goto, With
  <1>12. ASSUME Timely PROVE \A d \in Calls : Leased(d)'
    <2>1. /\ \A d \in Calls \ {c} : pc'[d] = pc[d] /\ timer'[d] = timer[d] /\ since'[d] = since[d]
          /\ pc[c] = "granted"
          /\ pc'[c] = "callback" /\ timer'[c] = now + RenewInterval /\ since'[c] = now
          /\ owner' = owner /\ expiresAt' = expiresAt
      BY <1>1 DEF TypeOK, Granted, Goto, With
    <2>2. /\ now \in Nat /\ expiresAt \in Nat /\ timer[c] \in Nat
          /\ owner = c /\ expiresAt >= timer[c] + Ttl /\ now <= timer[c] + MaxDelay
          /\ wire[c] = <<>>
      BY <1>1, <1>12, <2>1 DEF TypeOK, Leased, Prompt, Shape
    <2>3. expiresAt + MaxDelay >= now + Ttl
      BY <2>2
    <2>4. ASSUME c \in AutoRenew PROVE expiresAt > now + RenewInterval + MaxLag + MaxDelay
      <3>1. RenewInterval + MaxLag + 2 * MaxDelay < Ttl
        BY <1>12, <2>4, TimelyFacts
      <3>2. QED
        BY <2>2, <3>1
    <2>5. Leased(c)'
      BY <1>3, <2>1, <2>2, <2>3, <2>4 DEF Leased
    <2>6. ASSUME NEW d \in Calls \ {c} PROVE Leased(d)'
      BY <1>1, <1>3, <1>12, <2>1 DEF Leased
    <2>7. QED
      BY <2>5, <2>6
  <1>13. QED
    BY <1>5, <1>6, <1>9, <1>10, <1>11, <1>12, TimelyConstant DEF IInv

\* A refused call waits; nothing it holds is at stake.
LEMMA DeniedStep ==
    ASSUME IInv, NEW c \in Calls, Denied(c)
    PROVE  IInv'
  <1>. USE ConstantFacts, LockAssumption
  <1>1. /\ TypeOK
        /\ \A d \in Calls : Shape(d) /\ Prompt(d)
        /\ Timely => \A d \in Calls : Leased(d)
        /\ NoLateSends
        /\ LeaseEnds
    BY DEF IInv
  <1>3. wire' = wire
    BY DEF Denied
  <1>4. \A d \in Calls : \A i \in DOMAIN wire'[d] : OldOrNew(d, i)
    BY <1>3 DEF OldOrNew
  <1>5. TypeOK'
    BY <1>1, <1>3 DEF TypeOK, Over, Denied, Goto, With
  <1>6. \A d \in Calls : Shape(d)'
    BY <1>1, <1>3 DEF TypeOK, Shape, Over, Denied, Goto, With
  <1>7. now' = now
    BY DEF Denied
  <1>8. \A d \in Calls : \A i \in DOMAIN wire'[d] :
           wire'[d][i].at <= now /\ now <= wire'[d][i].at + MaxDelay
    BY <1>1, <1>4, <1>7, WireOnTime
  <1>9. \A d \in Calls : Prompt(d)'
    BY <1>1, <1>7, <1>8 DEF TypeOK, Prompt, Over, Denied, Goto, With
  <1>10. NoLateSends'
    BY <1>1, <1>3, <1>7, <1>8 DEF TypeOK, NoLateSends, Over, Denied, Goto, With
  <1>11. LeaseEnds'
    BY <1>1, <1>3, <1>7 DEF TypeOK, Prompt, NoLateSends, LeaseEnds, Over, Denied, Goto, With
  <1>12. ASSUME Timely PROVE \A d \in Calls : Leased(d)'
    BY <1>1, <1>3, <1>7, <1>12 DEF TypeOK, Prompt, Shape, Leased, Over, Denied, Goto, With
  <1>13. QED
    BY <1>5, <1>6, <1>9, <1>10, <1>11, <1>12, TimelyConstant DEF IInv

\* A renewal leaves early enough to arrive before the lease is over.
LEMMA RenewalStep ==
    ASSUME IInv, NEW c \in Calls, Renewal(c)
    PROVE  IInv'
  <1>. USE ConstantFacts, LockAssumption
  <1>1. /\ TypeOK
        /\ \A d \in Calls : Shape(d) /\ Prompt(d)
        /\ Timely => \A d \in Calls : Leased(d)
        /\ NoLateSends
        /\ LeaseEnds
    BY DEF IInv
  <1>2. Send(c, "renew")
    BY DEF Renewal
  <1>3. /\ wire' \in [Calls -> Seq(Commands)]
        /\ \A d \in Calls \ {c} : wire'[d] = wire[d]
        /\ wire'[c] # <<>>
        /\ wire[c] # <<>> => wire'[c][1] = wire[c][1]
        /\ wire[c] = <<>> =>
              wire'[c][1].at = now /\ wire'[c][1].cmd = "renew" /\ Len(wire'[c]) = 1
        /\ \A i \in DOMAIN wire'[c] :
              (i \in DOMAIN wire[c] /\ wire'[c][i] = wire[c][i]) \/ wire'[c][i].cmd = "renew"
    BY <1>1, <1>2, SendLemma
  <1>4. \A d \in Calls : \A i \in DOMAIN wire'[d] : OldOrNew(d, i)
    BY <1>1, <1>2, SendLemma
  <1>a. /\ pc' = pc /\ since' = since /\ owner' = owner /\ expiresAt' = expiresAt
        /\ pc[c] = "callback" /\ c \in AutoRenew
        /\ timer'[c] = now + RenewInterval
        /\ \A d \in Calls \ {c} : timer'[d] = timer[d]
    BY <1>1 DEF TypeOK, Renewal, With
  <1>b. /\ now \in Nat /\ expiresAt \in Nat
        /\ \A d \in Calls : timer[d] \in Nat /\ since[d] \in Nat
    BY <1>1 DEF TypeOK
  <1>5. TypeOK'
    BY <1>1, <1>3 DEF TypeOK, Over, Renewal, With
  <1>6. \A d \in Calls : Shape(d)'
    <2>1. Shape(c)'
      <3>1. \A i \in DOMAIN wire'[c] : wire'[c][i].cmd = "renew"
        BY <1>1, <1>3, <1>a DEF Shape
      <3>2. QED
        BY <1>a, <3>1 DEF Shape
    <2>2. ASSUME NEW d \in Calls \ {c} PROVE Shape(d)'
      <3>1. pc'[d] = pc[d] /\ wire'[d] = wire[d]
        BY <1>3, <1>a
      <3>2. QED
        BY <1>1, <3>1 DEF Shape
    <2>3. QED
      BY <2>1, <2>2
  <1>7. now' = now
    BY DEF Renewal
  <1>8. \A d \in Calls : \A i \in DOMAIN wire'[d] :
           wire'[d][i].at <= now /\ now <= wire'[d][i].at + MaxDelay
    BY <1>1, <1>4, <1>7, WireOnTime
  <1>9. \A d \in Calls : Prompt(d)'
    <2>1. Prompt(c)'
      BY <1>1, <1>7, <1>8, <1>a, <1>b DEF Prompt
    <2>2. ASSUME NEW d \in Calls \ {c} PROVE Prompt(d)'
      BY <1>1, <1>7, <1>8, <1>a DEF Prompt
    <2>3. QED
      BY <2>1, <2>2
  <1>10. NoLateSends'
    <2>1. \A d \in Calls : pc'[d] \in Over => d # c
      BY <1>a DEF Over
    <2>2. QED
      BY <1>1, <1>3, <1>7, <1>a, <2>1 DEF NoLateSends
  <1>11. LeaseEnds'
    BY <1>1, <1>3, <1>7 DEF TypeOK, Prompt, NoLateSends, LeaseEnds, Over, Renewal, With
  <1>12. ASSUME Timely PROVE \A d \in Calls : Leased(d)'
    <2>1. owner = c
      BY <1>1, <1>12, <1>a DEF Leased
    <2>2. wire'[c] # <<>> => expiresAt > wire'[c][1].at + MaxDelay
      <3>1. CASE wire[c] = <<>>
        <4>1. expiresAt > timer[c] + MaxLag + MaxDelay
          BY <1>1, <1>12, <1>a, <3>1 DEF Leased
        <4>2. now <= timer[c] + MaxLag
          BY <1>1, <1>a DEF Prompt
        <4>3. wire'[c][1].at = now
          BY <1>3, <3>1
        <4>4. QED
          BY <1>b, <4>1, <4>2, <4>3
      <3>2. CASE wire[c] # <<>>
        <4>1. expiresAt > wire[c][1].at + MaxDelay
          BY <1>1, <1>12, <1>a, <3>2 DEF Leased
        <4>2. wire'[c][1] = wire[c][1]
          BY <1>3, <3>2
        <4>3. QED
          BY <4>1, <4>2
      <3>3. QED
        BY <3>1, <3>2
    <2>3. Leased(c)'
      BY <1>3, <1>a, <2>1, <2>2 DEF Leased
    <2>4. ASSUME NEW d \in Calls \ {c} PROVE Leased(d)'
      <3>1. pc'[d] = pc[d] /\ wire'[d] = wire[d] /\ timer'[d] = timer[d]
        BY <1>3, <1>a
      <3>2. QED
        BY <1>1, <1>12, <1>a, <3>1 DEF Leased
    <2>5. QED
      BY <2>3, <2>4
  <1>13. QED
    BY <1>5, <1>6, <1>9, <1>10, <1>11, <1>12, TimelyConstant DEF IInv

\* Once its callback is over a call needs no lease any more.
LEMMA CallbackEndsStep ==
    ASSUME IInv, NEW c \in Calls, CallbackEnds(c)
    PROVE  IInv'
  <1>. USE ConstantFacts, LockAssumption
  <1>1. /\ TypeOK
        /\ \A d \in Calls : Shape(d) /\ Prompt(d)
        /\ Timely => \A d \in Calls : Leased(d)
        /\ NoLateSends
        /\ LeaseEnds
    BY DEF IInv
  <1>2. Send(c, "release")
    BY DEF CallbackEnds
  <1>3. /\ wire' \in [Calls -> Seq(Commands)]
        /\ \A d \in Calls \ {c} : wire'[d] = wire[d]
        /\ wire'[c] # <<>>
        /\ wire[c] # <<>> => wire'[c][1] = wire[c][1]
        /\ wire[c] = <<>> =>
              wire'[c][1].at = now /\ wire'[c][1].cmd = "release" /\ Len(wire'[c]) = 1
        /\ \A i \in DOMAIN wire'[c] :
              (i \in DOMAIN wire[c] /\ wire'[c][i] = wire[c][i]) \/ wire'[c][i].cmd = "release"
    BY <1>1, <1>2, SendLemma
  <1>4. \A d \in Calls : \A i \in DOMAIN wire'[d] : OldOrNew(d, i)
    BY <1>1, <1>2, SendLemma
  <1>5. TypeOK'
    BY <1>1, <1>3 DEF TypeOK, Over, CallbackEnds, Goto
  <1>6. \A d \in Calls : Shape(d)'
    BY <1>1, <1>3 DEF TypeOK, Shape, Over, CallbackEnds, Goto
  <1>7. now' = now
    BY DEF CallbackEnds
  <1>8. \A d \in Calls : \A i \in DOMAIN wire'[d] :
           wire'[d][i].at <= now /\ now <= wire'[d][i].at + MaxDelay
    BY <1>1, <1>4, <1>7, WireOnTime
  <1>9. \A d \in Calls : Prompt(d)'
    BY <1>1, <1>7, <1>8 DEF TypeOK, Prompt, Over, CallbackEnds, Goto
  <1>10. NoLateSends'
    BY <1>1, <1>3, <1>7, <1>8 DEF TypeOK, NoLateSends, Over, CallbackEnds, Goto
  <1>11. LeaseEnds'
    BY <1>1, <1>3, <1>7 DEF TypeOK, Prompt, NoLateSends, LeaseEnds, Over, CallbackEnds, Goto
  <1>12. ASSUME Timely PROVE \A d \in Calls : Leased(d)'
    BY SMTT(30), <1>1, <1>3, <1>7, <1>12 DEF TypeOK, Prompt, Shape, Leased, Over, CallbackEnds, Goto
  <1>13. QED
    BY <1>5, <1>6, <1>9, <1>10, <1>11, <1>12, TimelyConstant DEF IInv

\* The store grants the key only when no call that runs or will run holds it.
LEMMA SetIfAbsentStep ==
    ASSUME IInv, NEW c \in Calls, SetIfAbsent(c)
    PROVE  IInv'
  <1>. USE ConstantFacts, LockAssumption
  <1>1. /\ TypeOK
        /\ \A d \in Calls : Shape(d) /\ Prompt(d)
        /\ Timely => \A d \in Calls : Leased(d)
        /\ NoLateSends
        /\ LeaseEnds
    BY DEF IInv
  <1>2. Arrives(c, "set")
    BY DEF SetIfAbsent
  <1>3. /\ wire' \in [Calls -> Seq(Commands)]
        /\ \A d \in Calls \ {c} : wire'[d] = wire[d]
        /\ wire[c] # <<>>
        /\ 1 \in DOMAIN wire[c]
        /\ wire[c][1].cmd = "set"
        /\ wire[c][1].at \in Nat
        /\ \A i \in DOMAIN wire'[c] : \E j \in DOMAIN wire[c] : wire'[c][i] = wire[c][j]
        /\ wire'[c] # <<>> => 1 \in DOMAIN wire'[c]
        /\ Len(wire[c]) = 1 => wire'[c] = <<>>
    BY <1>1, <1>2, ArrivesLemma
  <1>4. \A d \in Calls : \A i \in DOMAIN wire'[d] : OldOrNew(d, i)
    BY <1>1, <1>2, ArrivesLemma
  <1>a. /\ \A d \in Calls \ {c} : pc'[d] = pc[d] /\ timer'[d] = timer[d]
        /\ pc[c] # "acquire" => pc'[c] = pc[c]
        /\ pc[c] = "acquire" /\ Locked => pc'[c] = "denied"
        /\ pc[c] = "acquire" /\ ~Locked => pc'[c] = "granted"
        /\ timer'[c] = now
        /\ since' = since
    BY <1>1 DEF TypeOK, SetIfAbsent, Answer, With
  <1>b. /\ Locked => owner' = owner /\ expiresAt' = expiresAt
        /\ ~Locked => owner' = c /\ expiresAt' = now + InitialTtl
    BY DEF SetIfAbsent
  <1>c. pc[c] \notin {"idle", "granted", "denied", "sleep", "callback"}
    BY <1>1, <1>3 DEF Shape
  <1>d. /\ now \in Nat /\ expiresAt \in Nat
        /\ \A d \in Calls : timer[d] \in Nat /\ since[d] \in Nat
    BY <1>1 DEF TypeOK
  <1>5. TypeOK'
    <2>1. pc' = [pc EXCEPT ![c] = IF @ = "acquire" THEN IF Locked THEN "denied" ELSE "granted" ELSE @]
      BY DEF SetIfAbsent, Answer
    <2>2. timer' = [timer EXCEPT ![c] = now] /\ UNCHANGED <<now, attempt, since>>
      BY DEF SetIfAbsent, Answer, With
    <2>3. expiresAt' \in Nat /\ owner' \in Calls \cup {NoOwner}
      BY <1>1, <1>b, <1>d DEF TypeOK
    <2>4. QED
      BY <1>1, <1>3, <2>1, <2>2, <2>3 DEF TypeOK
  <1>6. \A d \in Calls : Shape(d)'
    <2>1. Shape(c)'
      BY <1>1, <1>3, <1>a, <1>c DEF Shape
    <2>2. ASSUME NEW d \in Calls \ {c} PROVE Shape(d)'
      <3>1. pc'[d] = pc[d] /\ wire'[d] = wire[d]
        BY <1>3, <1>a
      <3>2. QED
        BY <1>1, <3>1 DEF Shape
    <2>3. QED
      BY <2>1, <2>2
  <1>7. now' = now
    BY DEF SetIfAbsent
  <1>8. \A d \in Calls : \A i \in DOMAIN wire'[d] :
           wire'[d][i].at <= now /\ now <= wire'[d][i].at + MaxDelay
    BY <1>1, <1>4, <1>7, WireOnTime
  <1>9. \A d \in Calls : Prompt(d)'
    <2>1. Prompt(c)'
      BY <1>7, <1>8, <1>a, <1>c, <1>d DEF Prompt
    <2>2. ASSUME NEW d \in Calls \ {c} PROVE Prompt(d)'
      BY <1>1, <1>7, <1>8, <1>a DEF Prompt
    <2>3. QED
      BY <2>1, <2>2
  <1>10. NoLateSends'
    <2>1. expiresAt' <= now' + InitialTtl
      BY <1>1, <1>7, <1>b, <1>d DEF NoLateSends
    <2>2. ASSUME NEW d \in Calls, pc'[d] \in Over, NEW i \in DOMAIN wire'[d]
          PROVE  wire'[d][i].at <= since'[d]
      <3>1. pc[d] \in Over
        BY <1>a, <1>c, <2>2 DEF Over
      <3>2. PICK j \in DOMAIN wire[d] : wire'[d][i] = wire[d][j]
        BY <1>3
      <3>3. QED
        BY <1>1, <1>a, <3>1, <3>2 DEF NoLateSends
    <2>3. QED
      BY <2>1, <2>2 DEF NoLateSends
  <1>11. LeaseEnds'
    <2> SUFFICES ASSUME NEW d \in Calls, pc'[d] \in Over, owner' = d
                 PROVE  expiresAt' <= since[d] + MaxDelay + InitialTtl
      BY <1>a DEF LeaseEnds
    <2>1. pc[d] \in Over
      BY <1>a, <1>c DEF Over
    <2>2. CASE Locked
      BY <1>1, <1>b, <2>1, <2>2 DEF LeaseEnds
    <2>3. CASE ~Locked
      <3>1. d = c
        BY <1>b, <2>3
      <3>2. wire[c][1].at <= since[c] /\ now <= wire[c][1].at + MaxDelay
        BY <1>1, <1>3, <2>1, <3>1 DEF NoLateSends, Prompt
      <3>3. QED
        BY <1>3, <1>b, <1>d, <2>3, <3>1, <3>2
    <2>4. QED
      BY <2>2, <2>3
  <1>12. ASSUME Timely PROVE \A d \in Calls : Leased(d)'
    <2>1. ASSUME NEW d \in Calls, pc[d] \in {"granted", "callback"} PROVE Locked
      BY <1>12, <2>1, LeasedLocked
    <2>2. Leased(c)'
      BY <1>a, <1>b, <1>c, <1>d DEF Leased
    <2>3. ASSUME NEW d \in Calls \ {c} PROVE Leased(d)'
      BY <1>1, <1>3, <1>12, <1>a, <1>b, <2>1 DEF Leased
    <2>4. QED
      BY <2>2, <2>3
  <1>13. QED
    BY <1>5, <1>6, <1>9, <1>10, <1>11, <1>12, TimelyConstant DEF IInv

\* A renewal extends the lease of its owner beyond the next one, and no other.
LEMMA RenewStep ==
    ASSUME IInv, NEW c \in Calls, Renew(c)
    PROVE  IInv'
  <1>. USE ConstantFacts, LockAssumption
  <1>1. /\ TypeOK
        /\ \A d \in Calls : Shape(d) /\ Prompt(d)
        /\ Timely => \A d \in Calls : Leased(d)
        /\ NoLateSends
        /\ LeaseEnds
    BY DEF IInv
  <1>2. Arrives(c, "renew")
    BY DEF Renew
  <1>3. /\ wire' \in [Calls -> Seq(Commands)]
        /\ \A d \in Calls \ {c} : wire'[d] = wire[d]
        /\ wire[c] # <<>>
        /\ 1 \in DOMAIN wire[c]
        /\ wire[c][1].cmd = "renew"
        /\ wire[c][1].at \in Nat
        /\ \A i \in DOMAIN wire'[c] : \E j \in DOMAIN wire[c] : wire'[c][i] = wire[c][j]
        /\ wire'[c] # <<>> => 1 \in DOMAIN wire'[c]
        /\ Len(wire[c]) = 1 => wire'[c] = <<>>
    BY <1>1, <1>2, ArrivesLemma
  <1>4. \A d \in Calls : \A i \in DOMAIN wire'[d] : OldOrNew(d, i)
    BY <1>1, <1>2, ArrivesLemma
  <1>a. /\ pc' = pc /\ timer' = timer /\ since' = since /\ owner' = owner
        /\ owner = c /\ Locked => expiresAt' = now + Ttl
        /\ ~(owner = c /\ Locked) => expiresAt' = expiresAt
    BY DEF Renew
  <1>b. /\ now \in Nat /\ expiresAt \in Nat
        /\ \A d \in Calls : timer[d] \in Nat /\ since[d] \in Nat
    BY <1>1 DEF TypeOK
  <1>5. TypeOK'
    BY <1>1, <1>3 DEF TypeOK, Over, Renew
  <1>6. \A d \in Calls : Shape(d)'
    <2>1. Shape(c)'
      <3>1. pc[c] \notin {"idle", "granted", "denied", "sleep", "acquire"}
        BY <1>1, <1>3 DEF Shape
      <3>2. QED
        BY <1>1, <1>3, <1>a, <3>1 DEF Shape
    <2>2. ASSUME NEW d \in Calls \ {c} PROVE Shape(d)'
      BY <1>1, <1>3, <1>a DEF Shape
    <2>3. QED
      BY <2>1, <2>2
  <1>7. now' = now
    BY DEF Renew
  <1>8. \A d \in Calls : \A i \in DOMAIN wire'[d] :
           wire'[d][i].at <= now /\ now <= wire'[d][i].at + MaxDelay
    BY <1>1, <1>4, <1>7, WireOnTime
  <1>9. \A d \in Calls : Prompt(d)'
    BY <1>1, <1>7, <1>8 DEF TypeOK, Prompt, Over, Renew
  <1>10. NoLateSends'
    <2>1. expiresAt' <= now' + InitialTtl
      BY <1>1, <1>7, <1>a, <1>b DEF NoLateSends
    <2>2. ASSUME NEW d \in Calls, pc'[d] \in Over, NEW i \in DOMAIN wire'[d]
          PROVE  wire'[d][i].at <= since'[d]
      <3>1. PICK j \in DOMAIN wire[d] : wire'[d][i] = wire[d][j]
        BY <1>3
      <3>2. QED
        BY <1>1, <1>a, <2>2, <3>1 DEF NoLateSends
    <2>3. QED
      BY <2>1, <2>2 DEF NoLateSends
  <1>11. LeaseEnds'
    <2> SUFFICES ASSUME NEW d \in Calls, pc[d] \in Over, owner = d
                 PROVE  expiresAt' <= since[d] + MaxDelay + InitialTtl
      BY <1>a DEF LeaseEnds
    <2>1. CASE ~(owner = c /\ Locked)
      BY <1>1, <1>a, <2>1 DEF LeaseEnds
    <2>2. CASE owner = c /\ Locked
      <3>1. wire[c][1].at <= since[c] /\ now <= wire[c][1].at + MaxDelay
        BY <1>1, <1>3, <2>2 DEF NoLateSends, Prompt
      <3>2. QED
        BY <1>3, <1>a, <1>b, <2>2, <3>1
    <2>3. QED
      BY <2>1, <2>2
  <1>12. ASSUME Timely PROVE \A d \in Calls : Leased(d)'
    <2>1. Leased(c)'
      <3>1. CASE pc[c] = "callback" /\ c \in AutoRenew
        <4>1. owner = c /\ Locked
          BY <1>12, <3>1, LeasedLocked
        <4>2. RenewInterval + MaxLag + 2 * MaxDelay < Ttl
          BY <1>12, <3>1, TimelyFacts
        <4>3. timer[c] <= now + RenewInterval
          BY <1>1, <3>1 DEF Prompt
        <4>4. expiresAt' = now + Ttl
          BY <1>a, <4>1
        <4>5. expiresAt' > timer[c] + MaxLag + MaxDelay
          BY <1>b, <4>2, <4>3, <4>4
        <4>6. ASSUME wire'[c] # <<>> PROVE expiresAt' > wire'[c][1].at + MaxDelay
          <5>1. PICK j \in DOMAIN wire[c] : wire'[c][1] = wire[c][j]
            BY <1>3, <4>6
          <5>2. wire[c][j].at <= now /\ wire[c][j].at \in Nat
            BY <1>1, WireTimes DEF Prompt
          <5>3. MaxDelay < Ttl
            BY <4>2
          <5>4. QED
            BY <1>b, <4>4, <5>1, <5>2, <5>3
        <4>7. QED
          BY <1>a, <3>1, <4>1, <4>5, <4>6 DEF Leased
      <3>2. CASE ~(pc[c] = "callback" /\ c \in AutoRenew)
        <4>1. pc[c] \notin {"granted", "callback"}
          BY <1>1, <1>3, <3>2 DEF Shape
        <4>2. QED
          BY <1>a, <4>1 DEF Leased
      <3>3. QED
        BY <3>1, <3>2
    <2>2. ASSUME NEW d \in Calls \ {c} PROVE Leased(d)'
      <3>1. CASE owner = d
        BY <1>1, <1>3, <1>12, <1>a, <3>1 DEF Leased
      <3>2. CASE owner # d
        BY <1>1, <1>12, <1>a, <3>2 DEF Leased
      <3>3. QED
        BY <3>1, <3>2
    <2>3. QED
      BY <2>1, <2>2
  <1>13. QED
    BY <1>5, <1>6, <1>9, <1>10, <1>11, <1>12, TimelyConstant DEF IInv

\* A release takes the key from nobody who runs: its own callback is over.
LEMMA ReleaseStep ==
    ASSUME IInv, NEW c \in Calls, Release(c)
    PROVE  IInv'
  <1>. USE ConstantFacts, LockAssumption
  <1>1. /\ TypeOK
        /\ \A d \in Calls : Shape(d) /\ Prompt(d)
        /\ Timely => \A d \in Calls : Leased(d)
        /\ NoLateSends
        /\ LeaseEnds
    BY DEF IInv
  <1>2. Arrives(c, "release")
    BY DEF Release
  <1>3. /\ wire' \in [Calls -> Seq(Commands)]
        /\ \A d \in Calls \ {c} : wire'[d] = wire[d]
        /\ wire[c] # <<>>
        /\ 1 \in DOMAIN wire[c]
        /\ wire[c][1].cmd = "release"
        /\ wire[c][1].at \in Nat
        /\ \A i \in DOMAIN wire'[c] : \E j \in DOMAIN wire[c] : wire'[c][i] = wire[c][j]
        /\ wire'[c] # <<>> => 1 \in DOMAIN wire'[c]
        /\ Len(wire[c]) = 1 => wire'[c] = <<>>
    BY <1>1, <1>2, ArrivesLemma
  <1>4. \A d \in Calls : \A i \in DOMAIN wire'[d] : OldOrNew(d, i)
    BY <1>1, <1>2, ArrivesLemma
  <1>a. /\ \A d \in Calls \ {c} : pc'[d] = pc[d] /\ since'[d] = since[d]
        /\ pc[c] = "release" => pc'[c] = "executed" /\ since'[c] = now
        /\ pc[c] # "release" => pc'[c] = pc[c] /\ since'[c] = since[c]
        /\ timer' = timer /\ expiresAt' = expiresAt
        /\ owner = c => owner' = NoOwner
        /\ owner # c => owner' = owner
    BY <1>1 DEF TypeOK, Release, Ends, Goto, With
  <1>b. pc[c] \notin {"idle", "granted", "denied", "sleep", "acquire", "callback"}
    BY <1>1, <1>3 DEF Shape
  <1>c. /\ now \in Nat /\ expiresAt \in Nat
        /\ \A d \in Calls : timer[d] \in Nat /\ since[d] \in Nat
    BY <1>1 DEF TypeOK
  <1>5. TypeOK'
    BY <1>1, <1>3 DEF TypeOK, Over, Release, Ends, Goto, With
  <1>6. \A d \in Calls : Shape(d)'
    <2>1. Shape(c)'
      BY <1>1, <1>3, <1>a, <1>b DEF Shape
    <2>2. ASSUME NEW d \in Calls \ {c} PROVE Shape(d)'
      <3>1. pc'[d] = pc[d] /\ wire'[d] = wire[d]
        BY <1>3, <1>a
      <3>2. QED
        BY <1>1, <3>1 DEF Shape
    <2>3. QED
      BY <2>1, <2>2
  <1>7. now' = now
    BY DEF Release
  <1>8. \A d \in Calls : \A i \in DOMAIN wire'[d] :
           wire'[d][i].at <= now /\ now <= wire'[d][i].at + MaxDelay
    BY <1>1, <1>4, <1>7, WireOnTime
  <1>9. \A d \in Calls : Prompt(d)'
    BY <1>1, <1>7, <1>8 DEF TypeOK, Prompt, Over, Release, Ends, Goto, With
  <1>10. NoLateSends'
    <2>1. expiresAt' <= now' + InitialTtl
      BY <1>1, <1>7, <1>a DEF NoLateSends
    <2>2. ASSUME NEW d \in Calls, pc'[d] \in Over, NEW i \in DOMAIN wire'[d]
          PROVE  wire'[d][i].at <= since'[d]
      <3>1. CASE d = c /\ pc[c] = "release"
        BY <1>8, <1>a, <3>1
      <3>2. CASE ~(d = c /\ pc[c] = "release")
        <4>1. pc[d] \in Over /\ since'[d] = since[d]
          BY <1>a, <2>2, <3>2
        <4>2. PICK j \in DOMAIN wire[d] : wire'[d][i] = wire[d][j]
          BY <1>3
        <4>3. QED
          BY <1>1, <4>1, <4>2 DEF NoLateSends
      <3>3. QED
        BY <3>1, <3>2
    <2>3. QED
      BY <2>1, <2>2 DEF NoLateSends
  <1>11. LeaseEnds'
    BY <1>1, <1>3, <1>7 DEF TypeOK, Prompt, NoLateSends, LeaseEnds, Over, Release, Ends, Goto, With
  <1>12. ASSUME Timely PROVE \A d \in Calls : Leased(d)'
    <2>1. Leased(c)'
      BY <1>a, <1>b DEF Leased
    <2>2. ASSUME NEW d \in Calls \ {c} PROVE Leased(d)'
      BY <1>1, <1>3, <1>12, <1>a DEF Leased
    <2>3. QED
      BY <2>1, <2>2
  <1>13. QED
    BY <1>5, <1>6, <1>9, <1>10, <1>11, <1>12, TimelyConstant DEF IInv

\* A dropped connection loses no renewal that a callback depends on.
LEMMA DisconnectStep ==
    ASSUME IInv, NEW c \in Calls, Disconnect(c)
    PROVE  IInv'
  <1>. USE ConstantFacts, LockAssumption
  <1>1. /\ TypeOK
        /\ \A d \in Calls : Shape(d) /\ Prompt(d)
        /\ Timely => \A d \in Calls : Leased(d)
        /\ NoLateSends
        /\ LeaseEnds
    BY DEF IInv
  <1>3. /\ wire' \in [Calls -> Seq(Commands)]
        /\ wire'[c] = <<>>
        /\ \A d \in Calls \ {c} : wire'[d] = wire[d]
    BY <1>1, EmptySeq DEF Disconnect, TypeOK
  <1>4. \A d \in Calls : \A i \in DOMAIN wire'[d] : OldOrNew(d, i)
    <2>1. \A i \in DOMAIN wire'[c] : FALSE
      BY <1>3
    <2>2. ASSUME NEW d \in Calls \ {c}, NEW i \in DOMAIN wire'[d] PROVE OldOrNew(d, i)
      BY <1>3, <2>2, Zenon DEF OldOrNew
    <2>3. QED
      BY <2>1, <2>2
  <1>a. /\ \A d \in Calls \ {c} : pc'[d] = pc[d] /\ since'[d] = since[d]
        /\ pc[c] # "callback" => pc'[c] = "threw" /\ since'[c] = now
        /\ pc[c] = "callback" => pc'[c] = pc[c] /\ since'[c] = since[c] /\ wire[c] # <<>>
        /\ timer' = timer /\ expiresAt' = expiresAt /\ owner' = owner /\ Lossy
    BY <1>1 DEF TypeOK, Disconnect, Ends, Goto, With
  <1>b. /\ now \in Nat /\ expiresAt \in Nat
        /\ \A d \in Calls : timer[d] \in Nat /\ since[d] \in Nat
    BY <1>1 DEF TypeOK
  <1>c. \A i \in DOMAIN wire'[c] : FALSE
    BY <1>3
  <1>5. TypeOK'
    BY ZenonT(40), <1>1, <1>3 DEF TypeOK, Over, Disconnect, Ends, Goto, With
  <1>6. \A d \in Calls : Shape(d)'
    BY <1>1, <1>3 DEF TypeOK, Shape, Over, Disconnect, Ends, Goto, With
  <1>7. now' = now
    BY DEF Disconnect
  <1>8. \A d \in Calls : \A i \in DOMAIN wire'[d] :
           wire'[d][i].at <= now /\ now <= wire'[d][i].at + MaxDelay
    BY <1>1, <1>4, <1>7, WireOnTime
  <1>9. \A d \in Calls : Prompt(d)'
    <2>1. Prompt(c)'
      BY <1>1, <1>7, <1>8, <1>a DEF Prompt
    <2>2. ASSUME NEW d \in Calls \ {c} PROVE Prompt(d)'
      BY <1>1, <1>7, <1>8, <1>a DEF Prompt
    <2>3. QED
      BY <2>1, <2>2
  <1>10. NoLateSends'
    <2>1. expiresAt' <= now' + InitialTtl
      BY <1>1, <1>7, <1>a DEF NoLateSends
    <2>2. ASSUME NEW d \in Calls, pc'[d] \in Over, NEW i \in DOMAIN wire'[d]
          PROVE  wire'[d][i].at <= since'[d]
      <3>1. d # c
        BY <1>c
      <3>2. QED
        BY <1>1, <1>3, <1>a, <2>2, <3>1 DEF NoLateSends
    <2>3. QED
      BY <2>1, <2>2 DEF NoLateSends
  <1>11. LeaseEnds'
    <2> SUFFICES ASSUME NEW d \in Calls, pc'[d] \in Over, owner' = d
                 PROVE  expiresAt' <= since'[d] + MaxDelay + InitialTtl
      BY DEF LeaseEnds
    <2>1. CASE d = c
      <3>1. pc[c] # "callback"
        BY <1>a, <2>1 DEF Over
      <3>2. since'[d] = now /\ expiresAt' = expiresAt
        BY <1>a, <2>1, <3>1
      <3>3. expiresAt <= now + InitialTtl
        BY <1>1 DEF NoLateSends
      <3>4. QED
        BY <1>b, <3>2, <3>3
    <2>2. CASE d # c
      BY <1>1, <1>a, <2>2 DEF LeaseEnds
    <2>3. QED
      BY <2>1, <2>2
  <1>12. ASSUME Timely PROVE \A d \in Calls : Leased(d)'
    <2>1. Leased(c)'
      <3>1. pc[c] # "callback"
        <4>1. CASE c \in AutoRenew
          BY <1>12, <1>a, <4>1, TimelyFacts
        <4>2. CASE c \notin AutoRenew
          BY <1>1, <1>a, <4>2 DEF Shape
        <4>3. QED
          BY <4>1, <4>2
      <3>2. QED
        BY <1>a, <3>1 DEF Leased
    <2>2. ASSUME NEW d \in Calls \ {c} PROVE Leased(d)'
      BY <1>1, <1>3, <1>12, <1>a DEF Leased
    <2>3. QED
      BY <2>1, <2>2
  <1>13. QED
    BY <1>5, <1>6, <1>9, <1>10, <1>11, <1>12, TimelyConstant DEF IInv

\* The death of a server leaves its lock with the lease it has.
LEMMA CrashStep ==
    ASSUME IInv, NEW c \in Calls, Crash(c)
    PROVE  IInv'
  <1>. USE ConstantFacts, LockAssumption
  <1>1. /\ TypeOK
        /\ \A d \in Calls : Shape(d) /\ Prompt(d)
        /\ Timely => \A d \in Calls : Leased(d)
        /\ NoLateSends
        /\ LeaseEnds
    BY DEF IInv
  <1>3. wire' = wire
    BY DEF Crash
  <1>4. \A d \in Calls : \A i \in DOMAIN wire'[d] : OldOrNew(d, i)
    BY <1>3 DEF OldOrNew
  <1>5. TypeOK'
    BY <1>1, <1>3 DEF TypeOK, Over, Crash, Ends, Goto, With
  <1>6. \A d \in Calls : Shape(d)'
    BY <1>1, <1>3 DEF TypeOK, Shape, Over, Crash, Ends, Goto, With
  <1>7. now' = now
    BY DEF Crash
  <1>8. \A d \in Calls : \A i \in DOMAIN wire'[d] :
           wire'[d][i].at <= now /\ now <= wire'[d][i].at + MaxDelay
    BY <1>1, <1>4, <1>7, WireOnTime
  <1>9. \A d \in Calls : Prompt(d)'
    BY <1>1, <1>7, <1>8 DEF TypeOK, Prompt, Over, Crash, Ends, Goto, With
  <1>10. NoLateSends'
    BY <1>1, <1>3, <1>7, <1>8 DEF TypeOK, NoLateSends, Over, Crash, Ends, Goto, With
  <1>11. LeaseEnds'
    BY <1>1, <1>3, <1>7 DEF TypeOK, Prompt, NoLateSends, LeaseEnds, Over, Crash, Ends, Goto, With
  <1>12. ASSUME Timely PROVE \A d \in Calls : Leased(d)'
    BY <1>1, <1>3, <1>7, <1>12 DEF TypeOK, Prompt, Shape, Leased, Over, Crash, Ends, Goto, With
  <1>13. QED
    BY <1>5, <1>6, <1>9, <1>10, <1>11, <1>12, TimelyConstant DEF IInv

\* A call that tries sends its first command, one that gives up sends none.
LEMMA TryOrSkipStep ==
    ASSUME IInv, NEW c \in Calls, pc[c] \in {"idle", "sleep"}, TryOrSkip(c),
           UNCHANGED <<now, owner, expiresAt, attempt, timer>>
    PROVE  IInv'
  <1>. USE ConstantFacts, LockAssumption
  <1>1. /\ TypeOK
        /\ \A d \in Calls : Shape(d) /\ Prompt(d)
        /\ Timely => \A d \in Calls : Leased(d)
        /\ NoLateSends
        /\ LeaseEnds
    BY DEF IInv
  <1>2. /\ now \in Nat /\ expiresAt \in Nat
        /\ \A d \in Calls : timer[d] \in Nat /\ since[d] \in Nat
    BY <1>1 DEF TypeOK
  <1>3. wire[c] = <<>>
    BY <1>1 DEF Shape
  <1>4. CASE Goto(c, "acquire") /\ Send(c, "set") /\ UNCHANGED since
    <2>1. /\ pc' = [pc EXCEPT ![c] = "acquire"]
          /\ pc'[c] = "acquire" /\ since' = since
          /\ \A d \in Calls \ {c} : pc'[d] = pc[d]
      BY <1>1, <1>4 DEF Goto, TypeOK
    <2>2. /\ wire' \in [Calls -> Seq(Commands)]
          /\ \A d \in Calls \ {c} : wire'[d] = wire[d]
          /\ wire'[c][1].cmd = "set" /\ Len(wire'[c]) = 1
      BY <1>1, <1>3, <1>4, SendLemma
    <2>3. \A d \in Calls : \A i \in DOMAIN wire'[d] : OldOrNew(d, i)
      BY <1>1, <1>4, SendLemma
    <2>4. \A d \in Calls : \A i \in DOMAIN wire'[d] :
             wire'[d][i].at <= now /\ now <= wire'[d][i].at + MaxDelay
      BY <1>1, <2>3, WireOnTime
    <2>5. TypeOK'
      BY <1>1, <2>1, <2>2 DEF TypeOK
    <2>6. \A d \in Calls : Shape(d)'
      BY <1>1, <2>1, <2>2 DEF Shape
    <2>7. \A d \in Calls : Prompt(d)'
      BY <1>1, <2>1, <2>4 DEF Prompt
    <2>8. ASSUME Timely PROVE \A d \in Calls : Leased(d)'
      BY <1>1, <2>1, <2>2, <2>8 DEF Leased
    <2>9. NoLateSends'
      <3>1. ASSUME NEW d \in Calls, pc'[d] \in Over PROVE d # c /\ pc[d] \in Over
        BY <2>1, <3>1 DEF Over
      <3>2. QED
        BY <1>1, <2>1, <2>2, <3>1 DEF NoLateSends
    <2>10. LeaseEnds'
      <3>1. ASSUME NEW d \in Calls, pc'[d] \in Over PROVE d # c /\ pc[d] \in Over
        BY <2>1, <3>1 DEF Over
      <3>2. QED
        BY <1>1, <2>1, <3>1 DEF LeaseEnds
    <2>11. QED
      BY <2>5, <2>6, <2>7, <2>8, <2>9, <2>10, TimelyConstant DEF IInv
  <1>5. CASE Ends(c, "skipped") /\ UNCHANGED wire
    <2>1. /\ pc' = [pc EXCEPT ![c] = "skipped"] /\ since' = [since EXCEPT ![c] = now]
          /\ pc'[c] = "skipped" /\ since'[c] = now
          /\ \A d \in Calls \ {c} : pc'[d] = pc[d] /\ since'[d] = since[d]
          /\ wire' = wire
      BY <1>1, <1>5 DEF Ends, Goto, With, TypeOK
    <2>2. TypeOK'
      BY <1>1, <1>2, <2>1 DEF TypeOK, Over
    <2>3. \A d \in Calls : Shape(d)'
      BY <1>1, <2>1 DEF Shape
    <2>4. \A d \in Calls : Prompt(d)'
      BY <1>1, <2>1 DEF Prompt
    <2>5. ASSUME Timely PROVE \A d \in Calls : Leased(d)'
      BY <1>1, <2>1, <2>5 DEF Leased
    <2>6. NoLateSends'
      <3>1. \A i \in DOMAIN wire'[c] : FALSE
        BY <1>3, <2>1
      <3>2. ASSUME NEW d \in Calls \ {c}, pc'[d] \in Over, NEW i \in DOMAIN wire'[d]
            PROVE  wire'[d][i].at <= since'[d]
        BY <1>1, <2>1, <3>2 DEF NoLateSends
      <3>3. expiresAt' <= now' + InitialTtl
        BY <1>1 DEF NoLateSends
      <3>4. QED
        BY <3>1, <3>2, <3>3 DEF NoLateSends
    <2>7. LeaseEnds'
      <3>1. expiresAt <= now + MaxDelay + InitialTtl
        BY <1>1, <1>2 DEF NoLateSends
      <3>2. QED
        BY <1>1, <2>1, <3>1 DEF LeaseEnds
    <2>8. QED
      BY <2>2, <2>3, <2>4, <2>5, <2>6, <2>7, TimelyConstant DEF IInv
  <1>6. QED
    BY <1>4, <1>5 DEF TryOrSkip

\* releaseAll() breaks only what Timely rules out.
LEMMA ReleaseAllStep ==
    ASSUME IInv, ReleaseAll
    PROVE  IInv'
  <1>1. /\ TypeOK
        /\ \A d \in Calls : Shape(d) /\ Prompt(d)
        /\ NoLateSends
        /\ LeaseEnds
    BY DEF IInv
  <1>2. /\ Admin /\ owner' = NoOwner
        /\ UNCHANGED <<now, expiresAt, pc, attempt, timer, since, wire>>
    BY DEF ReleaseAll
  <1>3. TypeOK'
    BY <1>1, <1>2 DEF TypeOK
  <1>4. \A d \in Calls : Shape(d)' /\ Prompt(d)'
    BY <1>1, <1>2 DEF Shape, Prompt
  <1>5. ~Timely'
    BY <1>2, TimelyFacts, TimelyConstant
  <1>6. NoLateSends'
    BY <1>1, <1>2 DEF NoLateSends
  <1>7. LeaseEnds'
    BY <1>2, LockAssumption DEF LeaseEnds
  <1>8. QED
    BY <1>3, <1>4, <1>5, <1>6, <1>7 DEF IInv

\* The clock waits for what is due.
LEMMA TimePassesStep ==
    ASSUME IInv, TimePasses
    PROVE  IInv'
  <1>. USE ConstantFacts, LockAssumption
  <1>1. /\ TypeOK
        /\ \A d \in Calls : Shape(d) /\ Prompt(d)
        /\ Timely => \A d \in Calls : Leased(d)
        /\ NoLateSends
        /\ LeaseEnds
    BY DEF IInv
  <1>2. /\ now' = now + 1
        /\ \A d \in Calls : OnTime(d)
        /\ UNCHANGED <<owner, expiresAt, pc, attempt, timer, since, wire>>
    BY DEF TimePasses
  <1>3. /\ now \in Nat /\ expiresAt \in Nat
        /\ \A d \in Calls : timer[d] \in Nat /\ since[d] \in Nat /\ MaxRun[d] \in Nat
    BY <1>1 DEF TypeOK
  <1>4. TypeOK'
    BY <1>1, <1>2, <1>3 DEF TypeOK
  <1>5. \A d \in Calls : Shape(d)'
    BY <1>1, <1>2 DEF Shape
  <1>6. ASSUME NEW d \in Calls PROVE Prompt(d)'
    <2>1. ASSUME NEW i \in DOMAIN wire[d]
          PROVE  wire[d][i].at <= now + 1 /\ now + 1 <= wire[d][i].at + MaxDelay
      <3>1. wire[d][i].at \in Nat
        BY <1>1, WireTimes
      <3>2. wire[d][i].at <= now /\ now < wire[d][i].at + MaxDelay
        BY <1>1, <1>2 DEF Prompt, OnTime
      <3>3. QED
        BY <1>3, <3>1, <3>2
    <2>2. /\ pc[d] = "granted" => timer[d] <= now /\ now < timer[d] + MaxDelay
          /\ pc[d] = "callback" => since[d] <= now /\ now < since[d] + MaxRun[d]
          /\ pc[d] = "callback" /\ d \in AutoRenew =>
                timer[d] <= now + RenewInterval /\ now < timer[d] + MaxLag
      BY <1>1, <1>2 DEF Prompt, OnTime
    <2>3. /\ pc[d] = "granted" => timer[d] <= now + 1 /\ now + 1 <= timer[d] + MaxDelay
          /\ pc[d] = "callback" => since[d] <= now + 1 /\ now + 1 <= since[d] + MaxRun[d]
          /\ pc[d] = "callback" /\ d \in AutoRenew =>
                timer[d] <= now + 1 + RenewInterval /\ now + 1 <= timer[d] + MaxLag
      BY <1>3, <2>2
    <2>4. QED
      BY <1>2, <2>1, <2>3 DEF Prompt
  <1>7. ASSUME Timely PROVE \A d \in Calls : Leased(d)'
    BY <1>1, <1>2, <1>7 DEF Leased
  <1>8. NoLateSends'
    <2>1. expiresAt <= now + 1 + InitialTtl
      BY <1>1, <1>3 DEF NoLateSends
    <2>2. QED
      BY <1>1, <1>2, <2>1 DEF NoLateSends
  <1>9. LeaseEnds'
    BY <1>1, <1>2 DEF LeaseEnds
  <1>10. QED
    BY <1>4, <1>5, <1>6, <1>7, <1>8, <1>9, TimelyConstant DEF IInv

\* Before the first call nothing is held and nothing is on its way.
LEMMA InitIInv == Init => IInv
  <1> SUFFICES ASSUME Init PROVE IInv
    OBVIOUS
  <1>. USE ConstantFacts, LockAssumption
  <1>1. \A c \in Calls : wire[c] = <<>> /\ pc[c] = "idle"
    BY DEF Init
  <1>2. TypeOK
    BY EmptySeq DEF Init, TypeOK
  <1>3. \A c \in Calls : Shape(c) /\ Prompt(c) /\ Leased(c)
    <2> TAKE c \in Calls
    <2>1. \A i \in DOMAIN wire[c] : FALSE
      BY <1>1
    <2>2. QED
      BY <1>1, <2>1 DEF Shape, Prompt, Leased
  <1>4. NoLateSends
    <2>1. \A c \in Calls : pc[c] \notin Over
      BY <1>1 DEF Over
    <2>2. expiresAt <= now + InitialTtl
      BY DEF Init
    <2>3. QED
      BY <2>1, <2>2 DEF NoLateSends
  <1>5. LeaseEnds
    BY DEF Init, LeaseEnds
  <1>6. QED
    BY <1>2, <1>3, <1>4, <1>5 DEF IInv

\* Every step of the system keeps the invariant.
LEMMA NextIInv == IInv /\ [Next]_vars => IInv'
  <1> SUFFICES ASSUME IInv, [Next]_vars PROVE IInv'
    OBVIOUS
  <1>1. ASSUME NEW c \in Calls, Start(c) PROVE IInv'
    BY <1>1, TryOrSkipStep DEF Start
  <1>2. ASSUME NEW c \in Calls, Call(c) PROVE IInv'
    <2>1. CASE Waking(c)
      BY <2>1, TryOrSkipStep DEF Waking
    <2>2. QED
      BY <1>2, <2>1, GrantedStep, DeniedStep, RenewalStep, CallbackEndsStep,
         SetIfAbsentStep, RenewStep, ReleaseStep DEF Call
  <1>3. ASSUME NEW c \in Calls, Disconnect(c) \/ Crash(c) PROVE IInv'
    BY <1>3, DisconnectStep, CrashStep
  <1>4. CASE ReleaseAll
    BY <1>4, ReleaseAllStep
  <1>5. CASE TimePasses
    BY <1>5, TimePassesStep
  <1>6. CASE UNCHANGED vars
    <2>1. UNCHANGED <<now, owner, expiresAt, pc, attempt, timer, since, wire>>
      BY <1>6 DEF vars
    <2>2. /\ TypeOK' <=> TypeOK
          /\ \A c \in Calls : Shape(c)' <=> Shape(c)
          /\ \A c \in Calls : Prompt(c)' <=> Prompt(c)
          /\ \A c \in Calls : Leased(c)' <=> Leased(c)
          /\ NoLateSends' <=> NoLateSends
          /\ LeaseEnds' <=> LeaseEnds
      BY <2>1 DEF TypeOK, Shape, Prompt, Leased, NoLateSends, LeaseEnds
    <2>3. QED
      BY <2>2, TimelyConstant DEF IInv
  <1>7. QED
    BY <1>1, <1>2, <1>3, <1>4, <1>5, <1>6 DEF Next

\* The inductive invariant holds in every reachable state, for any number of
\* calls, any lease and any delays.
THEOREM InductiveInvariant == Spec => []IInv
  <1>1. Init => IInv
    BY InitIInv
  <1>2. IInv /\ [Next]_vars => IInv'
    BY NextIInv
  <1>3. QED
    BY <1>1, <1>2, PTL DEF Spec

\* When the timing is right no two calls run their callbacks at the same time.
THEOREM MutualExclusionHolds == Spec => []MutualExclusion
  <1>1. IInv => MutualExclusion
    <2> SUFFICES ASSUME IInv, Timely, NEW c \in Calls, NEW d \in Calls,
                        pc[c] = "callback", pc[d] = "callback"
                 PROVE  c = d
      BY DEF MutualExclusion
    <2>1. owner = c /\ owner = d
      BY LeasedLocked
    <2>2. QED
      BY <2>1
  <1>2. QED
    BY <1>1, InductiveInvariant, PTL

\* Whatever the delays, crashes and lost connections, no lock outlives its call
\* by more than a command's delay and one lease.
THEOREM LeaseEndsHolds == Spec => []LeaseEnds
  <1>1. IInv => LeaseEnds
    BY DEF IInv
  <1>2. QED
    BY <1>1, InductiveInvariant, PTL

\* Whatever the delays, a live key changes hands only by its owner's release and
\* its lease only by its owner's renewal.
THEOREM OwnLeaseOnlyHolds == Spec => OwnLeaseOnly
  <1> DEFINE Own == Locked /\ ~ReleaseAll =>
               /\ owner' # owner => Release(owner)
               /\ owner' = owner /\ expiresAt' # expiresAt => Renew(owner)
  <1>1. [Next]_vars => [Own]_vars
    <2> SUFFICES ASSUME Next, Locked, ~ReleaseAll
                 PROVE  /\ owner' # owner => Release(owner)
                        /\ owner' = owner /\ expiresAt' # expiresAt => Renew(owner)
      OBVIOUS
    <2>1. CASE TimePasses
      BY <2>1 DEF TimePasses
    <2>2. ASSUME NEW c \in Calls, Start(c) \/ Waking(c) \/ Granted(c) \/ Denied(c)
                   \/ Renewal(c) \/ CallbackEnds(c) \/ Disconnect(c) \/ Crash(c)
          PROVE  owner' = owner /\ expiresAt' = expiresAt
      BY <2>2 DEF Start, Waking, Granted, Denied, Renewal, CallbackEnds, Disconnect, Crash
    <2>3. ASSUME NEW c \in Calls, SetIfAbsent(c) PROVE owner' = owner /\ expiresAt' = expiresAt
      BY <2>3 DEF SetIfAbsent
    <2>4. ASSUME NEW c \in Calls, Renew(c)
          PROVE  owner' = owner /\ (expiresAt' # expiresAt => owner = c)
      BY <2>4 DEF Renew
    <2>5. ASSUME NEW c \in Calls, Release(c)
          PROVE  expiresAt' = expiresAt /\ (owner' # owner => owner = c)
      BY <2>5 DEF Release
    <2>6. QED
      BY <2>1, <2>2, <2>3, <2>4, <2>5 DEF Next, Call
  <1>2. QED
    BY <1>1, PTL DEF Spec, OwnLeaseOnly

\* One phase changes, the others stay.
LEMMA PhaseLemma ==
    ASSUME NEW c \in Calls, \A d \in Calls \ {c} : pc'[d] = pc[d],
           NEW p, p = (IF pc'[c] \in {"release"} \cup Over THEN "over"
                       ELSE IF pc'[c] = "callback" THEN "running" ELSE "waiting")
    PROVE  phase' = [phase EXCEPT ![c] = p]
  BY DEF phase

\* A step of run() under Timely is a step of ExclusiveRun or changes no phase.
LEMMA ExclusiveStep ==
    ASSUME IInv, Timely, [Next]_vars
    PROVE  Exclusive!ExclusiveNext \/ UNCHANGED phase
  <1>1. pc \in [Calls -> {"idle", "acquire", "granted", "denied", "sleep",
                          "callback", "release"} \cup Over]
    BY DEF IInv, TypeOK
  <1>2. \A c \in Calls : phase[c] = (IF pc[c] \in {"release"} \cup Over THEN "over"
                            ELSE IF pc[c] = "callback" THEN "running" ELSE "waiting")
    BY DEF phase
  <1>3. ASSUME pc' = pc PROVE UNCHANGED phase
    BY <1>3 DEF phase
  <1>4. ASSUME NEW c \in Calls, \A d \in Calls \ {c} : pc'[d] = pc[d],
               pc[c] \notin {"callback", "release"} \cup Over,
               pc'[c] \notin {"callback", "release"} \cup Over
        PROVE  UNCHANGED phase
    BY <1>4 DEF phase
  <1>5. ASSUME NEW c \in Calls, \A d \in Calls \ {c} : pc'[d] = pc[d],
               pc[c] \in {"release"} \cup Over, pc'[c] \in {"release"} \cup Over
        PROVE  UNCHANGED phase
    BY <1>5 DEF phase
  <1>6. ASSUME NEW c \in Calls, \A d \in Calls \ {c} : pc'[d] = pc[d],
               pc[c] \notin {"release"} \cup Over, pc'[c] \in {"release"} \cup Over
        PROVE  Exclusive!End(c)
    <2>1. phase' = [phase EXCEPT ![c] = "over"]
      BY <1>6, PhaseLemma
    <2>2. phase[c] \in {"waiting", "running"}
      BY <1>2, <1>6
    <2>3. QED
      BY <2>1, <2>2 DEF Exclusive!End
  <1>7. ASSUME NEW c \in Calls, Granted(c) PROVE Exclusive!Enter(c)
    <2>1. /\ pc[c] = "granted" /\ pc'[c] = "callback"
          /\ \A d \in Calls \ {c} : pc'[d] = pc[d]
      BY <1>1, <1>7 DEF Granted, Goto
    <2>2. phase' = [phase EXCEPT ![c] = "running"]
      BY <2>1, PhaseLemma DEF Over
    <2>3. phase[c] = "waiting"
      BY <1>2, <2>1 DEF Over
    <2>4. ASSUME NEW d \in Calls PROVE phase[d] # "running"
      <3> SUFFICES ASSUME pc[d] = "callback" PROVE FALSE
        BY <1>2
      <3>1. owner = c /\ owner = d
        BY <2>1, LeasedLocked
      <3>2. QED
        BY <2>1, <3>1
    <2>5. QED
      BY <2>2, <2>3, <2>4 DEF Exclusive!Enter
  <1>8. ASSUME NEW c \in Calls, TryOrSkip(c), pc[c] \in {"idle", "sleep"}
        PROVE  Exclusive!End(c) \/ UNCHANGED phase
    <2>1. CASE Goto(c, "acquire")
      BY <1>1, <1>4, <1>8, <2>1 DEF Goto, Over
    <2>2. CASE Goto(c, "skipped")
      BY <1>1, <1>6, <1>8, <2>2 DEF Goto, Over
    <2>3. QED
      BY <1>8, <2>1, <2>2 DEF TryOrSkip, Ends
  <1>9. ASSUME NEW c \in Calls, Denied(c) PROVE UNCHANGED phase
    BY <1>1, <1>4, <1>9 DEF Denied, Goto, Over
  <1>10. ASSUME NEW c \in Calls, CallbackEnds(c) PROVE Exclusive!End(c)
    BY <1>1, <1>6, <1>10 DEF CallbackEnds, Goto, Over
  <1>11. ASSUME NEW c \in Calls, SetIfAbsent(c) PROVE UNCHANGED phase
    <2>1. /\ (pc[c] = "acquire" /\ pc'[c] \in {"granted", "denied"}) \/ pc'[c] = pc[c]
          /\ \A d \in Calls \ {c} : pc'[d] = pc[d]
      BY <1>1, <1>11 DEF SetIfAbsent, Answer
    <2>2. CASE pc'[c] = pc[c]
      BY <2>1, <2>2 DEF phase
    <2>3. QED
      BY <1>4, <2>1, <2>2 DEF Over
  <1>12. ASSUME NEW c \in Calls, Release(c) PROVE UNCHANGED phase
    <2>1. CASE pc[c] = "release"
      BY <1>1, <1>5, <1>12, <2>1 DEF Release, Ends, Goto, Over
    <2>2. CASE pc[c] # "release"
      BY <1>3, <1>12, <2>2 DEF Release
    <2>3. QED
      BY <2>1, <2>2
  <1>13. ASSUME NEW c \in Calls, Disconnect(c) PROVE Exclusive!End(c) \/ UNCHANGED phase
    <2>1. CASE pc' = pc
      BY <1>3, <2>1
    <2>2. CASE Goto(c, "threw") /\ pc[c] = "release"
      BY <1>1, <1>5, <2>2 DEF Goto, Over
    <2>3. CASE Goto(c, "threw") /\ pc[c] \in {"acquire", "granted", "denied"}
      BY <1>1, <1>6, <2>3 DEF Goto, Over
    <2>4. QED
      BY <1>13, <2>1, <2>2, <2>3 DEF Disconnect, Ends
  <1>14. ASSUME NEW c \in Calls, Crash(c) PROVE Exclusive!End(c) \/ UNCHANGED phase
    <2>1. Goto(c, "crashed") /\ pc[c] \notin Over
      BY <1>14 DEF Crash, Ends
    <2>2. CASE pc[c] = "release"
      BY <1>1, <1>5, <2>1, <2>2 DEF Goto, Over
    <2>3. CASE pc[c] # "release"
      BY <1>1, <1>6, <2>1, <2>3 DEF Goto, Over
    <2>4. QED
      BY <2>2, <2>3
  <1>15. ASSUME NEW c \in Calls, Renewal(c) \/ Renew(c) PROVE UNCHANGED phase
    BY <1>3, <1>15 DEF Renewal, Renew
  <1>16. ASSUME ReleaseAll \/ TimePasses \/ UNCHANGED vars PROVE UNCHANGED phase
    BY <1>3, <1>16 DEF ReleaseAll, TimePasses, vars
  <1>17. ASSUME NEW c \in Calls, Start(c) \/ Waking(c)
         PROVE  Exclusive!End(c) \/ UNCHANGED phase
    BY <1>8, <1>17 DEF Start, Waking
  <1>18. QED
    BY <1>7, <1>9, <1>10, <1>11, <1>12, <1>13, <1>14, <1>15, <1>16, <1>17
       DEF Next, Call, Exclusive!ExclusiveNext

\* When the timing is right, run() implements ExclusiveRun: callbacks run one at
\* a time, each call runs its callback once at most, and none after it is over.
THEOREM ImplementsExclusiveRunHolds == Timely /\ Spec => ImplementsExclusiveRun
  <1>1. Init => Exclusive!ExclusiveInit
    BY DEF Init, phase, Over, Exclusive!ExclusiveInit
  <1>2. IInv /\ Timely /\ [Next]_vars => [Exclusive!ExclusiveNext]_phase
    BY ExclusiveStep
  <1>3. Timely /\ Spec => []Timely
    <2>1. Timely /\ [Next]_vars => Timely'
      BY TimelyConstant
    <2>2. QED
      BY <2>1, PTL DEF Spec
  <1>4. QED
    BY <1>1, <1>2, <1>3, InductiveInvariant, PTL
       DEF Spec, ImplementsExclusiveRun, Exclusive!ExclusiveSpec
=============================================================================
