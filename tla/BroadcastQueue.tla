--------------------------- MODULE BroadcastQueue ---------------------------
(***************************************************************************)
(* Class BroadcastQueue of system/core/broadcast_queue.ts in several       *)
(* processes.  connect() makes a publisher and a subscriber and awaits one *)
(* SUBSCRIBE per channel; a broadcast awaits its PUBLISHes, and a job then *)
(* Queue.push(); messages come in while other calls wait.                  *)
(*                                                                         *)
(* A publisher and its subscriber are made and closed together, so one     *)
(* index stands for both.  Payloads are the command they name; worker,     *)
(* failed and ticking stand for what the handlers of commands act on in    *)
(* Queue and Scheduler.                                                    *)
(***************************************************************************)
EXTENDS Naturals, SequencesExt

CONSTANTS
    Procs,        \* processes with a BroadcastQueue
    Queues,       \* config.queues, a sequence of channel names
    Control,      \* the channel "__control__"
    MaxConnects,  \* bound: calls of connect() that do something, per process
    MaxBroadcasts \* bound: calls of broadcastJob, -Command and -Event

ListenChannels == Append(Queues, Control)

ASSUME BroadcastAssumption ==
    /\ Queues \in Seq(Range(Queues)) /\ IsInjective(Queues)
    /\ Control \notin Range(Queues)
    /\ MaxConnects \in [Procs -> Nat]
    /\ MaxBroadcasts \in Nat

VARIABLES
    pairs,       \* the pairs of Redis clients ever made
    current,     \* this.publisher, this.subscriber: 0 or an index into pairs
    online,      \* this.connected
    connecting,  \* calls of connect() that await a SUBSCRIBE, by the client each made
    broadcasts,  \* calls of broadcastJob, -Command and -Event
    outgoing,    \* PUBLISHes on their way, per client
    incoming,    \* messages on their way, per client
    worker,      \* Queue's worker runs
    failed,      \* Queue has failed jobs
    ticking,     \* Scheduler's jobs have timers
    queued,      \* jobs broadcastJob() pushed to the local queue
    handled,     \* history: the messages each process handled
    doubled      \* history: processes where two calls of connect() overlapped

effects == <<worker, failed, ticking>>

connection == <<pairs, current, online, connecting, doubled>>

broadcastVars == <<connection, broadcasts, outgoing, incoming, effects, queued, handled>>

Commands == {"worker:stop", "worker:start", "flush:failed", "scheduler:stop"}

\* What a broadcast carries; only commands name what is to be done.
Payloads == {<<"job">>, <<"event">>} \cup ({"command"} \X Commands)

\* A pair of clients: how many listeners the subscriber has on each channel.
Client == [proc : Procs, open : BOOLEAN, listeners : [Range(ListenChannels) -> Nat]]

\* A call of connect() awaits the SUBSCRIBE to ListenChannels[pos] it sent to client.
Connecting == [client : DOMAIN pairs, pos : DOMAIN ListenChannels]

\* left: the channels still to publish to.
Broadcast == [sender : Procs, payload : Payloads, left : Seq(Range(ListenChannels)),
              state : {"sent", "answered", "pushing", "done", "rejected"}]

\* A message is a broadcast, by its index, on one of its channels.
Messages == (1 .. MaxBroadcasts) \X Range(ListenChannels)

BroadcastTypeOK ==
    /\ pairs \in Seq(Client)
    /\ current \in [Procs -> 0 .. Len(pairs)]
    /\ online \in [Procs -> BOOLEAN]
    /\ DOMAIN connecting \subseteq DOMAIN pairs
    /\ connecting \in [DOMAIN connecting -> Connecting]
    /\ broadcasts \in Seq(Broadcast) /\ Len(broadcasts) <= MaxBroadcasts
    /\ outgoing \in Seq(Seq(1 .. MaxBroadcasts)) /\ Len(outgoing) = Len(pairs)
    /\ incoming \in Seq(Seq(Messages)) /\ Len(incoming) = Len(pairs)
    /\ {worker, failed, ticking} \subseteq [Procs -> BOOLEAN]
    /\ queued \subseteq 1 .. MaxBroadcasts
    /\ handled \in [Procs -> Seq(Messages)]
    /\ doubled \subseteq Procs

BroadcastInit ==
    /\ pairs = <<>>
    /\ current = [p \in Procs |-> 0]
    /\ online = [p \in Procs |-> FALSE]
    /\ connecting = <<>>
    /\ broadcasts = <<>>
    /\ outgoing = <<>>
    /\ incoming = <<>>
    /\ worker = [p \in Procs |-> TRUE]
    /\ failed = [p \in Procs |-> TRUE]
    /\ ticking = [p \in Procs |-> TRUE]
    /\ queued = {}
    /\ handled = [p \in Procs |-> <<>>]
    /\ doubled = {}

-----------------------------------------------------------------------------
(* connect() and disconnect().                                             *)

Own(p) == {c \in DOMAIN pairs : pairs[c].proc = p}

Calls(p) == DOMAIN connecting \cap Own(p)

\* The call that made client k awaits the SUBSCRIBE to the pos-th channel.
Awaiting(k, client, pos) ==
    [j \in DOMAIN connecting \cup {k} |->
        IF j = k THEN [client |-> client, pos |-> pos] ELSE connecting[j]]

\* Up to the first await: new clients, even while another call waits.
connect(p) ==
    LET c == Len(pairs) + 1
        new == [proc |-> p, open |-> TRUE, listeners |-> [ch \in Range(ListenChannels) |-> 0]]
    IN
    /\ ~ online[p]
    /\ Cardinality(Own(p)) < MaxConnects[p]
    /\ pairs' = Append(pairs, new)
    /\ outgoing' = Append(outgoing, <<>>)
    /\ incoming' = Append(incoming, <<>>)
    /\ current' = [current EXCEPT ![p] = c]
    /\ connecting' = Awaiting(c, c, 1)
    /\ doubled' = IF Calls(p) # {} THEN doubled \cup {p} ELSE doubled
    /\ UNCHANGED <<online, broadcasts, effects, queued, handled>>

\* Where a call of connect() goes on: with the next channel on the subscriber
\* of now, to its end, or to an exception where there is none.
Continued(k) ==
    LET pos == connecting[k].pos
        now == current[pairs[k].proc]
    IN
    IF pos = Len(ListenChannels) \/ now = 0 THEN Restrict(connecting, DOMAIN connecting \ {k})
    ELSE Awaiting(k, now, pos + 1)

\* The answer to a SUBSCRIBE: the listener is in place, connect() goes on.
subscribed(k) ==
    LET call == connecting[k] IN
    /\ pairs[call.client].open
    /\ pairs' = [pairs EXCEPT ![call.client].listeners[ListenChannels[call.pos]] = @ + 1]
    /\ connecting' = Continued(k)
    /\ online' = IF call.pos = Len(ListenChannels)
                 THEN [online EXCEPT ![pairs[k].proc] = TRUE] ELSE online
    /\ UNCHANGED <<current, doubled, broadcasts, outgoing, incoming, effects, queued,
                   handled>>

\* Closing a client rejects what awaits an answer from it.
Waiting(c) == {k \in DOMAIN connecting : connecting[k].client = c}

RejectedBy(c) == [k \in DOMAIN broadcasts |->
                   IF broadcasts[k].state = "sent" /\ k \in Range(outgoing[c])
                   THEN [broadcasts[k] EXCEPT !.state = "rejected"] ELSE broadcasts[k]]

\* Variant: only the publisher is closed.
disconnectHalf(p) ==
    LET c == current[p] IN
    /\ c # 0
    /\ broadcasts' = RejectedBy(c)
    /\ connecting' = Restrict(connecting, DOMAIN connecting \ Waiting(c))
    /\ current' = [current EXCEPT ![p] = 0]
    /\ online' = [online EXCEPT ![p] = FALSE]
    /\ UNCHANGED <<pairs, incoming, doubled, outgoing, effects, queued, handled>>

disconnect(p) ==
    LET c == current[p] IN
    /\ c # 0
    /\ pairs' = [pairs EXCEPT ![c].open = FALSE]
    /\ broadcasts' = RejectedBy(c)
    /\ connecting' = Restrict(connecting, DOMAIN connecting \ Waiting(c))
    /\ incoming' = [incoming EXCEPT ![c] = <<>>]
    /\ current' = [current EXCEPT ![p] = 0]
    /\ online' = [online EXCEPT ![p] = FALSE]
    /\ UNCHANGED <<doubled, outgoing, effects, queued, handled>>

-----------------------------------------------------------------------------
(* Broadcasts.                                                             *)

\* publish() sends nothing unless connected; an event goes to every queue.
CanPublish(p) == current[p] # 0 /\ online[p]

ChannelsFor(payload, q) ==
    CASE payload[1] = "job" -> <<q>>
      [] payload[1] = "event" -> Queues
      [] payload[1] = "command" -> <<Control>>

\* Call k publishes to the channels in left, or skips them all and is done: a
\* job is then still to be pushed to the local queue, which broadcastJob() awaits.
Proceeds(k, sender, payload, left, calls) ==
    LET send == left # <<>> /\ CanPublish(sender)
        call == [sender |-> sender, payload |-> payload, left |-> left,
                 state |-> IF send THEN "sent"
                           ELSE IF payload[1] = "job" THEN "pushing" ELSE "done"]
    IN
    /\ broadcasts' = [calls EXCEPT ![k] = call]
    /\ outgoing' = IF send THEN [outgoing EXCEPT ![current[sender]] = Append(@, k)]
                   ELSE outgoing
    /\ UNCHANGED queued

broadcast(p, payload, q) ==
    LET k == Len(broadcasts) + 1
        none == [sender |-> p, payload |-> payload, left |-> <<>>, state |-> "done"]
    IN
    /\ k <= MaxBroadcasts
    /\ Proceeds(k, p, payload, ChannelsFor(payload, q), Append(broadcasts, none))
    /\ UNCHANGED <<connection, incoming, effects, handled>>

\* Redis executes the oldest PUBLISH of client c: every open subscriber with
\* a listener on the channel is sent the message.
published(c) ==
    LET k == Head(outgoing[c])
        ch == Head(broadcasts[k].left)
    IN
    /\ outgoing[c] # <<>>
    /\ outgoing' = [outgoing EXCEPT ![c] = Tail(@)]
    /\ incoming' = [d \in DOMAIN pairs |->
                       IF pairs[d].open /\ pairs[d].listeners[ch] > 0
                       THEN Append(incoming[d], <<k, ch>>) ELSE incoming[d]]
    /\ broadcasts' = IF broadcasts[k].state = "sent"
                     THEN [broadcasts EXCEPT ![k].state = "answered"] ELSE broadcasts
    /\ UNCHANGED <<connection, effects, queued, handled>>

\* What a closed client had not yet got to Redis is lost.
undelivered(c) ==
    /\ ~ pairs[c].open /\ outgoing[c] # <<>>
    /\ outgoing' = [outgoing EXCEPT ![c] = Tail(@)]
    /\ UNCHANGED <<connection, broadcasts, incoming, effects, queued, handled>>

\* The answer to a PUBLISH.
resumed(k) ==
    LET b == broadcasts[k] IN
    /\ b.state = "answered"
    /\ Proceeds(k, b.sender, b.payload, Tail(b.left), broadcasts)
    /\ UNCHANGED <<connection, incoming, effects, handled>>

PushEnds(k, state) ==
    /\ broadcasts[k].state = "pushing"
    /\ broadcasts' = [broadcasts EXCEPT ![k].state = state]
    /\ UNCHANGED <<connection, outgoing, incoming, effects, handled>>

\* Queue.push() resolves.
pushed(k) == PushEnds(k, "done") /\ queued' = queued \cup {k}

\* Queue.push() rejects, as where the queue's own Redis fails, with the job stored or
\* not; whoever heard of the job has heard of it.
pushRejected(k) == PushEnds(k, "rejected") /\ queued' \in {queued, queued \cup {k}}

-----------------------------------------------------------------------------
(* handleMessage() and handleCommand().                                    *)

handleCommand(p, command) ==
    /\ worker' = CASE command = "worker:stop" -> [worker EXCEPT ![p] = FALSE]
                   [] command = "worker:start" -> [worker EXCEPT ![p] = TRUE]
                   [] OTHER -> worker
    /\ failed' = IF command = "flush:failed" THEN [failed EXCEPT ![p] = FALSE] ELSE failed
    /\ ticking' = IF command = "scheduler:stop" THEN [ticking EXCEPT ![p] = FALSE] ELSE ticking

\* Each listener of the channel gets the message; one's own is ignored.
handleMessage(c) ==
    LET p == pairs[c].proc
        msg == Head(incoming[c])
        b == broadcasts[msg[1]]
        times == IF b.sender = p THEN 0 ELSE pairs[c].listeners[msg[2]]
    IN
    /\ pairs[c].open /\ incoming[c] # <<>>
    /\ incoming' = [incoming EXCEPT ![c] = Tail(@)]
    /\ handled' = [handled EXCEPT ![p] = @ \o [i \in 1 .. times |-> msg]]
    /\ IF times > 0 /\ b.payload[1] = "command" THEN handleCommand(p, b.payload[2])
       ELSE UNCHANGED effects
    /\ UNCHANGED <<connection, broadcasts, outgoing, queued>>

BroadcastNext ==
    \/ \E p \in Procs :
          \/ connect(p) \/ disconnect(p)
          \/ \E payload \in Payloads, q \in Range(Queues) : broadcast(p, payload, q)
    \/ \E k \in DOMAIN connecting : subscribed(k)
    \/ \E c \in DOMAIN pairs : published(c) \/ undelivered(c) \/ handleMessage(c)
    \/ \E k \in DOMAIN broadcasts : resumed(k) \/ pushed(k) \/ pushRejected(k)

BroadcastSpec == BroadcastInit /\ [][BroadcastNext]_broadcastVars

-----------------------------------------------------------------------------
(* Properties.                                                             *)

\* connect(), handleMessage(): a process handles a message once per channel it
\* comes on, however often the process disconnects and connects again, unless
\* two calls of connect() overlapped: then listeners or clients double.
HandledOncePerChannel ==
    \A p \in Procs \ doubled : IsInjective(handled[p])

\* disconnect(): a process that has disconnected handles nothing, and one that
\* is connected has clients that listen on each channel, once; the exception is
\* a subscriber that overlapping calls of connect() left behind.
ListensWhileConnected ==
    \A p \in Procs \ doubled :
       /\ online[p] => /\ current[p] # 0
                       /\ \A ch \in Range(ListenChannels) :
                             pairs[current[p]].listeners[ch] = 1
       /\ \A c \in Own(p) : pairs[c].open => c = current[p]

\* broadcastJob(): once the call has resolved, a job that another process has heard of
\* is in the queue of its sender; the call may still be in progress, or be rejected
\* with its PUBLISH or with Queue.push(), and then JobsFollow is what fails.
AnnouncedJobsQueued ==
    \A p \in Procs : \A msg \in Range(handled[p]) :
       LET b == broadcasts[msg[1]] IN
       b.payload[1] = "job" => msg[1] \in queued \/ b.state # "done"

\* broadcastJob() pushes to the local queue, too, so its comment says, and the sender
\* can work on the job: what others heard of is there when the call is over.  A PUBLISH
\* may be executed and its answer be lost with the connection, and Queue.push() may
\* reject after it (broadcast_queue.ts:163-166).
JobsFollow ==
    \A p \in Procs : \A msg \in Range(handled[p]) :
       LET b == broadcasts[msg[1]] IN
       b.payload[1] = "job" /\ b.state \in {"done", "rejected"} => msg[1] \in queued

\* What connect(), publish() and broadcastJob() promise to the processes together.
BroadcastsHandled == HandledOncePerChannel /\ ListensWhileConnected /\ AnnouncedJobsQueued

-----------------------------------------------------------------------------
(* The inductive invariant behind the theorem of ServersProofs.            *)

\* Clients and calls stay with the process that made them.
Owned ==
    /\ \A p \in Procs : current[p] # 0 => pairs[current[p]].proc = p
    /\ \A k \in DOMAIN connecting : pairs[connecting[k].client].proc = pairs[k].proc

\* While its calls of connect() do not overlap, a process has one client open; it
\* listens once on each channel, or on those its one call has got to.
Connected(p) ==
    LET c == current[p]
        listens(n) == \A i \in DOMAIN ListenChannels :
                         pairs[c].listeners[ListenChannels[i]] = IF i < n THEN 1 ELSE 0
    IN
    /\ \A d \in Own(p) : pairs[d].open => d = c
    /\ c = 0 => ~ online[p] /\ Calls(p) = {}
    /\ c # 0 /\ online[p] => Calls(p) = {} /\ listens(Len(ListenChannels) + 1)
    /\ c # 0 /\ ~ online[p] =>
          Calls(p) = {c} /\ connecting[c].client = c /\ listens(connecting[c].pos)

\* A broadcast is on its way to Redis at most once.
Underway(k) == \E c \in DOMAIN outgoing : k \in Range(outgoing[c])

SentOnce ==
    /\ \A c \in DOMAIN outgoing : IsInjective(outgoing[c])
    /\ \A c, d \in DOMAIN outgoing : c # d => Range(outgoing[c]) \cap Range(outgoing[d]) = {}

\* A broadcast has each of its channels before it once.
InTurn(k) ==
    LET b == broadcasts[k] IN
    /\ IsInjective(b.left)
    /\ Underway(k) => b.state \in {"sent", "rejected"} /\ b.left # <<>>
    /\ b.state = "answered" => b.left # <<>>
    /\ b.payload[1] = "job" /\ b.state = "done" => k \in queued

\* A message that came to anyone is one that its broadcast has behind it.
Behind(msg) ==
    LET b == broadcasts[msg[1]] IN
    /\ msg[1] \in DOMAIN broadcasts
    /\ msg[2] \in Range(b.left) => msg[2] = Head(b.left) /\ ~ Underway(msg[1])

\* It waits at open clients only, and once, and not where it was handled.
ComesOnce(c) ==
    LET p == pairs[c].proc IN
    /\ incoming[c] # <<>> => pairs[c].open
    /\ IsInjective(incoming[c])
    /\ p \notin doubled => Range(incoming[c]) \cap Range(handled[p]) = {}

ConnectionsInv == Owned /\ \A p \in Procs \ doubled : Connected(p)

MessagesInv ==
    /\ SentOnce
    /\ \A c \in DOMAIN outgoing : Range(outgoing[c]) \subseteq DOMAIN broadcasts
    /\ \A k \in DOMAIN broadcasts : InTurn(k)
    /\ \A c \in DOMAIN incoming : ComesOnce(c) /\ \A msg \in Range(incoming[c]) : Behind(msg)
    /\ \A p \in Procs : \A msg \in Range(handled[p]) : Behind(msg)
    /\ HandledOncePerChannel

BroadcastInv == BroadcastTypeOK /\ ConnectionsInv /\ MessagesInv

=============================================================================
