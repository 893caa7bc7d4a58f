------------------------------ MODULE Realtime ------------------------------
(***************************************************************************)
(* SSEManager (sse.ts) with clients that reconnect and fetch the events    *)
(* they missed, and WebSocketManager (websocket.ts) with sockets whose     *)
(* send() may throw before their close event comes.                        *)
(*                                                                         *)
(* An event is its id.  A connection is a number; what was enqueued and not*)
(* received when it breaks is lost.  A user is the client code around      *)
(* EventSource: after it reconnects it fetches the history after the last  *)
(* event it had received when it last missed none.                         *)
(***************************************************************************)
EXTENDS Naturals, SequencesExt

CONSTANTS
    Users,          \* clients of the event streams
    Channels,       \* channels besides "default", of both managers
    MaxClients,     \* SSEConfig.maxClients
    HistorySize,    \* SSEConfig.historySize
    Sockets,        \* WebSocket connections
    MaxConnections, \* bound: event streams ever opened
    MaxEvents       \* bound: event ids ever given

ASSUME RealtimeAssumption ==
    /\ {MaxClients, HistorySize, MaxConnections, MaxEvents} \subseteq Nat
    /\ "default" \notin Channels

VARIABLES
    clients,      \* SSEManager: connected clients
    channels,     \* SSEManager: channel to its subscribers
    eventHistory,
    eventIdCounter,
    heartbeat,    \* the heartbeat timer is set
    connections,  \* connections opened so far
    broken,       \* connections on which enqueue() throws
    stream,       \* events on their way to the client of each connection
    user,         \* what each user knows
    wsClients,    \* WebSocketManager: clients
    wsChannels,   \* WebSocketManager: channel to its members
    socket        \* state of each socket

sseVars == <<clients, channels, eventHistory, eventIdCounter, heartbeat, connections, broken,
             stream, user>>

wsVars == <<wsClients, wsChannels, socket>>

realtimeVars == <<sseVars, wsVars>>

Connections == 1 .. MaxConnections

EventIds == 1 .. MaxEvents

AllChannels == Channels \cup {"default"}

User == [conn : 0 .. MaxConnections, last : 0 .. MaxEvents, saved : 0 .. MaxEvents,
         caughtUp : BOOLEAN, since : Nat, seen : SUBSET EventIds]

RealtimeTypeOK ==
    /\ clients \subseteq Connections /\ broken \subseteq Connections
    /\ DOMAIN channels \subseteq AllChannels /\ Range(channels) \subseteq SUBSET Connections
    /\ eventHistory \in Seq(EventIds) /\ Len(eventHistory) <= HistorySize
    /\ eventIdCounter \in 0 .. MaxEvents
    /\ heartbeat \in BOOLEAN
    /\ connections \in 0 .. MaxConnections
    /\ stream \in [Connections -> Seq(EventIds)]
    /\ user \in [Users -> User]
    /\ wsClients \subseteq Sockets
    /\ DOMAIN wsChannels \subseteq Channels /\ Range(wsChannels) \subseteq SUBSET Sockets
    /\ socket \in [Sockets -> {"none", "open", "broken", "closed"}]

RealtimeInit ==
    /\ clients = {} /\ broken = {}
    /\ channels = <<>>
    /\ eventHistory = <<>> /\ eventIdCounter = 0
    /\ heartbeat = FALSE
    /\ connections = 0
    /\ stream = [c \in Connections |-> <<>>]
    /\ user = [u \in Users |-> [conn |-> 0, last |-> 0, saved |-> 0, caughtUp |-> FALSE,
                                since |-> 0, seen |-> {}]]
    /\ wsClients = {}
    /\ wsChannels = <<>>
    /\ socket = [s \in Sockets |-> "none"]

-----------------------------------------------------------------------------
(* Connections.                                                            *)

\* A map of sets as the managers keep it: the set is made for its first member
\* and, where the code looks, the channel goes with its last one.
Joined(map, ch, x) ==
    [d \in DOMAIN map \cup {ch} |->
        (IF d \in DOMAIN map THEN map[d] ELSE {}) \cup {y \in {x} : d = ch}]

WithoutMembers(map, gone) == [ch \in DOMAIN map |-> map[ch] \ gone]

Pruned(map, touched) ==
    Restrict(map, {ch \in DOMAIN map : ch \in touched => map[ch] # {}})

\* disconnect() of several clients.
DisconnectAll(gone) ==
    LET left == clients \ gone IN
    /\ clients' = left
    /\ channels' = IF gone \cap clients = {} THEN channels
                   ELSE Pruned(WithoutMembers(channels, gone), AllChannels)
    /\ heartbeat' = (heartbeat /\ (left # {} \/ gone \cap clients = {}))

\* handleConnection(); with maxClients connected the answer is 503.
handleConnection(u) ==
    LET c == connections + 1
        id == eventIdCounter + 1
    IN
    /\ user[u].conn = 0
    /\ c <= MaxConnections /\ id <= MaxEvents
    /\ Cardinality(clients) < MaxClients
    /\ connections' = c
    /\ eventIdCounter' = id
    /\ clients' = clients \cup {c}
    /\ channels' = Joined(channels, "default", c)
    /\ stream' = [stream EXCEPT ![c] = <<id>>]
    /\ heartbeat' = TRUE
    /\ user' = [user EXCEPT ![u] = [user[u] EXCEPT !.conn = c, !.since = IF @ = 0 THEN id ELSE @]]
    /\ UNCHANGED <<eventHistory, broken, wsVars>>

\* disconnect(): the stream is cancelled or aborted, or the connectionTimeout is
\* over.
sseDisconnect(c) ==
    /\ c \in clients
    /\ DisconnectAll({c})
    /\ UNCHANGED <<eventHistory, eventIdCounter, connections, broken, stream, user, wsVars>>

close ==
    /\ connections # 0
    /\ DisconnectAll(clients)
    /\ eventHistory' = <<>>
    /\ UNCHANGED <<eventIdCounter, connections, broken, stream, user, wsVars>>

\* The heartbeat: who cannot be reached is disconnected.
beat ==
    /\ heartbeat /\ clients \cap broken # {}
    /\ DisconnectAll(broken)
    /\ UNCHANGED <<eventHistory, eventIdCounter, connections, broken, stream, user, wsVars>>

-----------------------------------------------------------------------------
(* Events.                                                                 *)

\* sendToClient() for each of the receivers.
SendTo(receivers, id) ==
    /\ stream' = [c \in Connections |->
                     IF c \in receivers \ broken THEN Append(stream[c], id) ELSE stream[c]]
    /\ DisconnectAll(receivers \cap broken)

\* Variant: nothing is dropped.
RetainedAll(ids) == ids

Retained(ids) == IF Len(ids) > HistorySize THEN Tail(ids) ELSE ids

sseBroadcast ==
    LET id == eventIdCounter + 1 IN
    /\ id <= MaxEvents
    /\ eventIdCounter' = id
    /\ eventHistory' = Retained(Append(eventHistory, id))
    /\ SendTo(clients, id)
    /\ UNCHANGED <<connections, broken, user, wsVars>>

\* publish(); send() is the same for one client.
publish(ch) ==
    LET id == eventIdCounter + 1 IN
    /\ ch \in DOMAIN channels
    /\ id <= MaxEvents
    /\ eventIdCounter' = id
    /\ SendTo(channels[ch] \cap clients, id)
    /\ UNCHANGED <<eventHistory, connections, broken, user, wsVars>>

\* The ids come from a request of the client, which may be disconnected by then.
subscribe(c, ch) ==
    /\ c <= connections
    /\ channels' = Joined(channels, ch, c)
    /\ UNCHANGED <<clients, eventHistory, eventIdCounter, heartbeat, connections, broken,
                   stream, user, wsVars>>

unsubscribe(c, ch) ==
    /\ ch \in DOMAIN channels
    /\ channels' = Pruned([channels EXCEPT ![ch] = @ \ {c}], {ch})
    /\ UNCHANGED <<clients, eventHistory, eventIdCounter, heartbeat, connections, broken,
                   stream, user, wsVars>>

IndexOf(id) == CHOOSE i \in DOMAIN eventHistory : eventHistory[i] = id

\* Variant: an id that is not in the history has nothing after it.
getHistoryKnown(afterId) ==
    IF afterId \in Range(eventHistory)
    THEN SubSeq(eventHistory, IndexOf(afterId) + 1, Len(eventHistory))
    ELSE IF afterId = 0 THEN eventHistory ELSE <<>>

\* All that is retained for an id that is not in the history, or none given.
getHistory(afterId) ==
    IF afterId \in Range(eventHistory)
    THEN SubSeq(eventHistory, IndexOf(afterId) + 1, Len(eventHistory))
    ELSE eventHistory

-----------------------------------------------------------------------------
(* The users.                                                              *)

receiveEvent(u) ==
    LET c == user[u].conn IN
    /\ c # 0 /\ stream[c] # <<>>
    /\ user' = [user EXCEPT ![u] = [user[u] EXCEPT !.last = Head(stream[c]), !.seen = @ \cup {Head(stream[c])}]]
    /\ stream' = [stream EXCEPT ![c] = Tail(@)]
    /\ UNCHANGED <<clients, channels, eventHistory, eventIdCounter, heartbeat, connections,
                   broken, wsVars>>

fetchHistory(u) ==
    /\ user[u].conn # 0 /\ ~ user[u].caughtUp
    /\ user' = [user EXCEPT ![u] = [user[u] EXCEPT !.caughtUp = TRUE,
                                             !.seen = @ \cup Range(getHistory(user[u].saved))]]
    /\ UNCHANGED <<clients, channels, eventHistory, eventIdCounter, heartbeat, connections,
                   broken, stream, wsVars>>

\* The connection is lost; what was on its way is not received.
loseConnection(u) ==
    LET c == user[u].conn IN
    /\ c # 0
    /\ broken' = broken \cup {c}
    /\ stream' = [stream EXCEPT ![c] = <<>>]
    /\ user' = [user EXCEPT ![u] = [user[u] EXCEPT !.conn = 0, !.caughtUp = FALSE,
                                             !.saved = IF user[u].caughtUp THEN user[u].last ELSE @]]
    /\ UNCHANGED <<clients, channels, eventHistory, eventIdCounter, heartbeat, connections,
                   wsVars>>

-----------------------------------------------------------------------------
(* WebSockets.                                                             *)

\* The open handler calls addClient().
wsOpen(s) ==
    /\ socket[s] = "none"
    /\ socket' = [socket EXCEPT ![s] = "open"]
    /\ wsClients' = wsClients \cup {s}
    /\ UNCHANGED <<wsChannels, sseVars>>

wsBreak(s) ==
    /\ socket[s] = "open"
    /\ socket' = [socket EXCEPT ![s] = "broken"]
    /\ UNCHANGED <<wsClients, wsChannels, sseVars>>

\* The close handler calls removeClient(), which leaves empty channels.
wsClose(s) ==
    /\ socket[s] \in {"open", "broken"}
    /\ socket' = [socket EXCEPT ![s] = "closed"]
    /\ wsClients' = wsClients \ {s}
    /\ wsChannels' = WithoutMembers(wsChannels, {s})
    /\ UNCHANGED sseVars

\* Called for a message of the socket.
wsSubscribe(ch, s) ==
    /\ socket[s] = "open"
    /\ wsChannels' = Joined(wsChannels, ch, s)
    /\ UNCHANGED <<wsClients, socket, sseVars>>

wsUnsubscribe(ch, s) ==
    /\ ch \in DOMAIN wsChannels
    /\ wsChannels' = Pruned([wsChannels EXCEPT ![ch] = @ \ {s}], {ch})
    /\ UNCHANGED <<wsClients, socket, sseVars>>

Failing(members) == {s \in members : socket[s] = "broken"}

\* A member that cannot be reached leaves this channel and nothing else.
wsPublish(ch) ==
    /\ ch \in DOMAIN wsChannels
    /\ wsChannels' = [wsChannels EXCEPT ![ch] = @ \ Failing(@)]
    /\ UNCHANGED <<wsClients, socket, sseVars>>

\* A client that cannot be reached stays in its channels.
wsBroadcast ==
    /\ wsClients' = wsClients \ Failing(wsClients)
    /\ UNCHANGED <<wsChannels, socket, sseVars>>

SseNext ==
    \/ \E u \in Users :
          handleConnection(u) \/ receiveEvent(u) \/ fetchHistory(u) \/ loseConnection(u)
    \/ \E c \in Connections :
          \/ sseDisconnect(c)
          \/ \E ch \in AllChannels : subscribe(c, ch) \/ unsubscribe(c, ch)
    \/ \E ch \in AllChannels : publish(ch)
    \/ sseBroadcast \/ close \/ beat

WsNext ==
    \/ \E s \in Sockets :
          \/ wsOpen(s) \/ wsBreak(s) \/ wsClose(s)
          \/ \E ch \in Channels : wsSubscribe(ch, s) \/ wsUnsubscribe(ch, s)
    \/ \E ch \in Channels : wsPublish(ch)
    \/ wsBroadcast

RealtimeNext == SseNext \/ WsNext

RealtimeSpec == RealtimeInit /\ [][RealtimeNext]_realtimeVars

-----------------------------------------------------------------------------
(* Properties.                                                             *)

\* broadcast(), getHistory(), disconnect(): a user who is connected and has
\* fetched the history after the last event it knew of has received, or has on its
\* way, every broadcast since it first connected that is still retained, however
\* often it lost the connection.
CaughtUp ==
    \A u \in Users :
       LET c == user[u].conn IN
       user[u].caughtUp /\ c \in clients =>
          {id \in Range(eventHistory) : id > user[u].since}
             \subseteq user[u].seen \cup Range(stream[c])

\* handleConnection(), disconnect(), close(), startHeartbeat(): the heartbeat runs
\* exactly while somebody is connected.
HeartbeatWhileClients == heartbeat <=> clients # {}

\* removeClient(): a socket whose close event came is in no channel and no client,
\* whichever sends to it failed before.
WsClosedForgotten ==
    \A s \in Sockets : socket[s] = "closed" =>
       s \notin wsClients /\ \A ch \in DOMAIN wsChannels : s \notin wsChannels[ch]

\* What the managers remember is what their clients still need: events missed,
\* and nothing of those who left.
ClientsServed == CaughtUp /\ HeartbeatWhileClients /\ WsClosedForgotten

-----------------------------------------------------------------------------
(* The inductive invariant behind ClientsServed.                           *)

\* Ids grow: in the history, on their way to a client, and from what it received
\* to what is on its way.
Increasing(ids) == \A i, j \in DOMAIN ids : i < j => ids[i] < ids[j]

IdsGrow ==
    /\ Increasing(eventHistory) /\ \A id \in Range(eventHistory) : id <= eventIdCounter
    /\ \A c \in Connections : /\ Increasing(stream[c])
                              /\ \A id \in Range(stream[c]) : id <= eventIdCounter
    /\ \A u \in Users :
          /\ user[u].last <= eventIdCounter /\ user[u].saved <= eventIdCounter
          /\ user[u].conn # 0 => \A id \in Range(stream[user[u].conn]) : user[u].last < id

\* A user has a connection of its own, which did not break.
OwnConnection ==
    /\ \A c \in clients \cup broken : c <= connections
    /\ \A u \in Users : LET c == user[u].conn IN
          /\ c <= connections /\ c \notin broken
          /\ c = 0 => ~ user[u].caughtUp
          /\ \A v \in Users : user[v].conn = c /\ c # 0 => u = v

\* The events up to the one it will ask for next are known to the user.
SavedSeen ==
    \A u \in Users : \A id \in Range(eventHistory) :
       user[u].since < id /\ id <= user[u].saved => id \in user[u].seen

\* A user who has caught up misses nothing before an event it has received or will
\* receive, nor anything at all while it is connected.
Reaches(u, id) ==
    LET c == user[u].conn IN
    c \in clients \/ id <= user[u].last \/ \E s \in Range(stream[c]) : id <= s

StillCaughtUp ==
    \A u \in Users : user[u].caughtUp =>
       \A id \in Range(eventHistory) :
          user[u].since < id /\ Reaches(u, id) =>
             id \in user[u].seen \cup Range(stream[user[u].conn])

\* Before its first connection a user knows of no event.
EventsInv ==
    /\ RealtimeTypeOK /\ IdsGrow /\ OwnConnection /\ SavedSeen /\ StillCaughtUp
    /\ \A u \in Users : user[u].since = 0 => user[u].saved = 0 /\ user[u].conn = 0

RealtimeInv == EventsInv /\ HeartbeatWhileClients /\ WsClosedForgotten

=============================================================================
