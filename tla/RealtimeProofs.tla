--------------------------- MODULE RealtimeProofs ---------------------------
(***************************************************************************)
(* For any number of users, channels, connections and sockets: a user who  *)
(* has caught up misses no event that SSEManager still retains, however    *)
(* often it lost its connection; the heartbeat runs exactly while somebody *)
(* is connected; and WebSocketManager remembers no socket whose close      *)
(* event came.                                                             *)
(***************************************************************************)
EXTENDS Realtime, SeqLemmas

\* disconnect() takes the heartbeat with the last client, and only with it.
LEMMA DisconnectLemma ==
    ASSUME NEW gone, HeartbeatWhileClients, heartbeat \in BOOLEAN, DisconnectAll(gone)
    PROVE  HeartbeatWhileClients'
  <1>1. clients' = clients \ gone
    BY DEF DisconnectAll
  <1>2. heartbeat' <=> heartbeat /\ (clients' # {} \/ gone \cap clients = {})
    BY DEF DisconnectAll
  <1>3. CASE gone \cap clients = {}
    <2>1. clients' = clients
      BY <1>1, <1>3
    <2>2. QED
      BY <1>2, <1>3, <2>1 DEF HeartbeatWhileClients
  <1>4. CASE gone \cap clients # {}
    <2>1. heartbeat
      BY <1>4 DEF HeartbeatWhileClients
    <2>2. QED
      BY <1>2, <1>4, <2>1 DEF HeartbeatWhileClients
  <1>5. QED
    BY <1>3, <1>4

HeartbeatInv == HeartbeatWhileClients /\ heartbeat \in BOOLEAN

\* Whatever opens, closes or breaks: the timer stays set exactly while needed.
LEMMA HeartbeatStep ==
    ASSUME HeartbeatInv, [RealtimeNext]_realtimeVars
    PROVE  HeartbeatInv'
  <1> USE DEF HeartbeatInv
  <1>1. ASSUME NEW gone, DisconnectAll(gone)
        PROVE  HeartbeatInv'
    <2>1. heartbeat' \in BOOLEAN
      BY <1>1 DEF DisconnectAll
    <2>2. QED
      BY <1>1, <2>1, DisconnectLemma
  <1>2. ASSUME UNCHANGED <<clients, heartbeat>>
        PROVE  HeartbeatInv'
    BY <1>2 DEF HeartbeatWhileClients
  <1>3. ASSUME NEW u \in Users, handleConnection(u)
        PROVE  HeartbeatInv'
    <2>1. connections + 1 \in clients' /\ heartbeat' = TRUE
      BY <1>3 DEF handleConnection
    <2>2. QED
      BY <2>1 DEF HeartbeatWhileClients
  <1>4. ASSUME NEW u \in Users, receiveEvent(u) \/ fetchHistory(u) \/ loseConnection(u)
        PROVE  HeartbeatInv'
    BY <1>2, <1>4 DEF receiveEvent, fetchHistory, loseConnection
  <1>5. ASSUME NEW c \in Connections, sseDisconnect(c)
        PROVE  HeartbeatInv'
    BY <1>1, <1>5 DEF sseDisconnect
  <1>6. ASSUME NEW c \in Connections, NEW ch \in AllChannels, subscribe(c, ch) \/ unsubscribe(c, ch)
        PROVE  HeartbeatInv'
    BY <1>2, <1>6 DEF subscribe, unsubscribe
  <1>7. ASSUME NEW ch \in AllChannels, publish(ch)
        PROVE  HeartbeatInv'
    BY <1>1, <1>7 DEF publish, SendTo
  <1>8. ASSUME sseBroadcast \/ close \/ beat
        PROVE  HeartbeatInv'
    BY <1>1, <1>8 DEF sseBroadcast, SendTo, close, beat
  <1>9. ASSUME WsNext
        PROVE  HeartbeatInv'
    BY <1>2, <1>9 DEF WsNext, wsOpen, wsBreak, wsClose, wsSubscribe, wsUnsubscribe, wsPublish,
                      wsBroadcast, sseVars
  <1>10. CASE UNCHANGED realtimeVars
    BY <1>2, <1>10 DEF realtimeVars, sseVars
  <1>11. QED
    BY <1>3, <1>4, <1>5, <1>6, <1>7, <1>8, <1>9, <1>10 DEF RealtimeNext, SseNext

\* The timer of startHeartbeat() is set exactly while there are clients, whatever
\* breaks, closes or connects again (handleConnection(), disconnect(), close()).
THEOREM HeartbeatHolds == RealtimeSpec => []HeartbeatWhileClients
  <1>1. RealtimeInit => HeartbeatInv
    BY DEF RealtimeInit, HeartbeatInv, HeartbeatWhileClients
  <1>2. HeartbeatInv /\ [RealtimeNext]_realtimeVars => HeartbeatInv'
    BY HeartbeatStep
  <1>3. HeartbeatInv => HeartbeatWhileClients
    BY DEF HeartbeatInv
  <1>4. QED
    BY <1>1, <1>2, <1>3, PTL DEF RealtimeSpec

-----------------------------------------------------------------------------

ForgottenInv ==
    /\ WsClosedForgotten
    /\ socket \in [Sockets -> {"none", "open", "broken", "closed"}]

\* Every step leaves closed sockets out of channels and clients.
LEMMA ForgottenStep ==
    ASSUME ForgottenInv, [RealtimeNext]_realtimeVars
    PROVE  ForgottenInv'
  <1> USE DEF ForgottenInv
  <1>1. ASSUME UNCHANGED wsVars
        PROVE  ForgottenInv'
    BY <1>1 DEF WsClosedForgotten, wsVars
  <1>2. ASSUME NEW s \in Sockets, wsOpen(s)
        PROVE  ForgottenInv'
    BY <1>2 DEF wsOpen, WsClosedForgotten
  <1>3. ASSUME NEW s \in Sockets, wsBreak(s)
        PROVE  ForgottenInv'
    BY <1>3 DEF wsBreak, WsClosedForgotten
  <1>4. ASSUME NEW s \in Sockets, wsClose(s)
        PROVE  ForgottenInv'
    BY <1>4 DEF wsClose, WsClosedForgotten, WithoutMembers
  <1>5. ASSUME NEW s \in Sockets, NEW ch \in Channels, wsSubscribe(ch, s)
        PROVE  ForgottenInv'
    <2>1. wsChannels' = Joined(wsChannels, ch, s) /\ UNCHANGED <<wsClients, socket>>
          /\ socket[s] = "open"
      BY <1>5 DEF wsSubscribe
    <2>2. ASSUME NEW d \in DOMAIN wsChannels'
          PROVE  \/ d \in DOMAIN wsChannels /\ wsChannels'[d] \subseteq wsChannels[d] \cup {s}
                 \/ wsChannels'[d] \subseteq {s}
      BY <2>1, <2>2 DEF Joined
    <2>3. QED
      BY <2>1, <2>2 DEF WsClosedForgotten
  <1>6. ASSUME NEW s \in Sockets, NEW ch \in Channels, wsUnsubscribe(ch, s)
        PROVE  ForgottenInv'
    <2>1. UNCHANGED <<wsClients, socket>>
          /\ \A d \in DOMAIN wsChannels' :
                d \in DOMAIN wsChannels /\ wsChannels'[d] \subseteq wsChannels[d]
      BY <1>6 DEF wsUnsubscribe, Pruned, Restrict
    <2>2. QED
      BY <2>1 DEF WsClosedForgotten
  <1>7. ASSUME NEW ch \in Channels, wsPublish(ch)
        PROVE  ForgottenInv'
    BY <1>7 DEF wsPublish, WsClosedForgotten
  <1>8. ASSUME wsBroadcast
        PROVE  ForgottenInv'
    BY <1>8 DEF wsBroadcast, WsClosedForgotten
  <1>9. CASE SseNext
    <2>1. UNCHANGED wsVars
      BY <1>9 DEF SseNext, handleConnection, receiveEvent, fetchHistory, loseConnection,
                  sseDisconnect, subscribe, unsubscribe, publish, sseBroadcast, close, beat
    <2>2. QED
      BY <1>1, <2>1
  <1>10. CASE UNCHANGED realtimeVars
    BY <1>1, <1>10 DEF realtimeVars
  <1>11. QED
    BY <1>2, <1>3, <1>4, <1>5, <1>6, <1>7, <1>8, <1>9, <1>10 DEF RealtimeNext, WsNext

\* A socket whose close event came is in no channel and no client, in whatever order
\* sends to it failed before (publish(), broadcast(), removeClient()).
THEOREM ClosedForgottenHolds == RealtimeSpec => []WsClosedForgotten
  <1>1. RealtimeInit => ForgottenInv
    BY DEF RealtimeInit, ForgottenInv, WsClosedForgotten
  <1>2. ForgottenInv /\ [RealtimeNext]_realtimeVars => ForgottenInv'
    BY ForgottenStep
  <1>3. ForgottenInv => WsClosedForgotten
    BY DEF ForgottenInv
  <1>4. QED
    BY <1>1, <1>2, <1>3, PTL DEF RealtimeSpec

-----------------------------------------------------------------------------
(* Events: what a user who has caught up has seen or will see.             *)

\* A sequence of growing ids stays one when a greater id comes or the first goes.
LEMMA IncreasingFacts ==
    ASSUME NEW S, S \subseteq Nat, NEW ids \in Seq(S), Increasing(ids)
    PROVE  /\ \A id \in S : (\A k \in Range(ids) : k < id) => Increasing(Append(ids, id))
           /\ ids # <<>> => /\ Increasing(Tail(ids))
                            /\ \A k \in Range(Tail(ids)) : Head(ids) < k
<1>1. /\ Len(ids) \in Nat /\ DOMAIN ids = 1 .. Len(ids)
      /\ \A i \in 1 .. Len(ids) : ids[i] \in Nat
      /\ \A i, j \in 1 .. Len(ids) : i < j => ids[i] < ids[j]
  BY LenProperties, ElementOfSeq DEF Increasing
<1>2. ASSUME NEW id \in S, \A k \in Range(ids) : k < id
      PROVE  Increasing(Append(ids, id))
  <2> DEFINE more == Append(ids, id)
  <2>1. /\ DOMAIN more = 1 .. Len(ids) + 1 /\ more[Len(ids) + 1] = id
        /\ \A i \in 1 .. Len(ids) : more[i] = ids[i]
    BY AppendFacts
  <2>2. \A i \in 1 .. Len(ids) : ids[i] < id
    BY <1>1, <1>2 DEF Range
  <2>. HIDE DEF more
  <2>. QED
    BY <1>1, <2>1, <2>2 DEF more, Increasing
<1>3. ASSUME ids # <<>>
      PROVE  /\ Increasing(Tail(ids))
             /\ \A k \in Range(Tail(ids)) : Head(ids) < k
  <2> DEFINE rest == Tail(ids)
  <2>1. /\ DOMAIN rest = 1 .. Len(ids) - 1 /\ Head(ids) = ids[1]
        /\ \A i \in 1 .. Len(ids) - 1 : rest[i] = ids[i + 1]
    BY <1>3, TailFacts
  <2>. HIDE DEF rest
  <2>2. \A i \in 1 .. Len(ids) - 1 : ids[1] < rest[i]
    BY <1>1, <2>1
  <2>3. \A i, j \in 1 .. Len(ids) - 1 : i < j => rest[i] < rest[j]
    BY <1>1, <2>1
  <2>. QED
    BY <2>1, <2>2, <2>3 DEF rest, Increasing, Range
<1>. QED
  BY <1>2, <1>3

\* What an array of ids retains when an event is added.
LEMMA RetainedFacts ==
    ASSUME RealtimeAssumption, RealtimeTypeOK, Increasing(eventHistory), NEW id \in EventIds,
           \A k \in Range(eventHistory) : k < id,
           eventHistory' = Retained(Append(eventHistory, id))
    PROVE  /\ eventHistory' \in Seq(EventIds) /\ Len(eventHistory') <= HistorySize
           /\ Increasing(eventHistory')
           /\ Range(eventHistory') \subseteq Range(eventHistory) \cup {id}
<1> DEFINE more == Append(eventHistory, id)
<1>1. /\ eventHistory \in Seq(EventIds) /\ Len(eventHistory) <= HistorySize /\ HistorySize \in Nat
      /\ EventIds \subseteq Nat
  BY DEF RealtimeTypeOK, RealtimeAssumption, EventIds
<1>2. /\ more \in Seq(EventIds) /\ Len(more) = Len(eventHistory) + 1 /\ Len(eventHistory) \in Nat
      /\ Range(more) = Range(eventHistory) \cup {id}
  BY <1>1, AppendFacts
<1>. /\ Increasing(more)
  BY <1>1, IncreasingFacts
<1>. HIDE DEF more
<1>3. CASE Len(more) > HistorySize
  <2>1. eventHistory' = Tail(more) /\ more # <<>>
    BY <1>2, <1>3, EmptySeq DEF Retained, more
  <2>2. /\ Tail(more) \in Seq(EventIds) /\ Len(Tail(more)) = Len(more) - 1
        /\ Range(Tail(more)) \subseteq Range(more)
    BY <1>2, <2>1, TailFacts
  <2>3. Increasing(Tail(more))
    BY <1>1, <1>2, <2>1, IncreasingFacts
  <2>. QED
    BY <1>1, <1>2, <2>1, <2>2, <2>3
<1>4. CASE ~ (Len(more) > HistorySize)
  <2>1. eventHistory' = more
    BY <1>4 DEF Retained, more
  <2>. QED
    BY <1>1, <1>2, <1>4, <2>1
<1>. QED
  BY <1>3, <1>4

\* All that is retained after an id is among what the answer holds.
LEMMA HistoryFacts ==
    ASSUME RealtimeAssumption, RealtimeTypeOK, Increasing(eventHistory), NEW after \in Nat
    PROVE  /\ Range(getHistory(after)) \subseteq Range(eventHistory)
           /\ \A id \in Range(eventHistory) : after < id => id \in Range(getHistory(after))
<1>1. /\ eventHistory \in Seq(EventIds) /\ EventIds \subseteq Nat
      /\ Len(eventHistory) \in Nat /\ DOMAIN eventHistory = 1 .. Len(eventHistory)
      /\ \A i \in 1 .. Len(eventHistory) : eventHistory[i] \in Nat
      /\ \A i, j \in 1 .. Len(eventHistory) : i < j => eventHistory[i] < eventHistory[j]
  BY LenProperties, ElementOfSeq DEF RealtimeTypeOK, EventIds, Increasing
<1>2. CASE after \notin Range(eventHistory)
  BY <1>2 DEF getHistory
<1>3. CASE after \in Range(eventHistory)
  <2>1. PICK i \in 1 .. Len(eventHistory) : i = IndexOf(after) /\ eventHistory[i] = after
    BY <1>1, <1>3 DEF IndexOf, Range
  <2> DEFINE n == Len(eventHistory)
             answer == SubSeq(eventHistory, i + 1, n)
  <2>2. getHistory(after) = answer
    BY <1>3, <2>1 DEF getHistory
  <2>3. /\ answer \in Seq(EventIds)
        /\ Len(answer) = IF i + 1 <= n THEN n - (i + 1) + 1 ELSE 0
        /\ \A k \in 1 .. n - (i + 1) + 1 : answer[k] = eventHistory[(i + 1) + k - 1]
    <3>1. i + 1 \in Int /\ n \in Int /\ \A k \in i + 1 .. n : eventHistory[k] \in EventIds
      BY <1>1, ElementOfSeq
    <3>. QED
      BY <1>1, <3>1, SubSeqProperties
  <2>4. n \in Nat /\ DOMAIN answer = 1 .. n - i
    <3>1. DOMAIN answer = 1 .. Len(answer)
      BY <2>3, LenProperties
    <3>2. n \in Nat /\ Len(answer) = n - i
      BY <1>1, <2>1, <2>3
    <3>. QED
      BY <3>1, <3>2
  <2>5. \A k \in 1 .. n - i : answer[k] = eventHistory[i + k]
    BY SMTT(30), <1>1, <2>1, <2>3
  <2>. HIDE DEF answer
  <2>6. Range(answer) \subseteq Range(eventHistory)
    <3>1. \A k \in 1 .. n - i : i + k \in 1 .. n
      BY <1>1, <2>1
    <3>. QED
      BY <1>1, <2>4, <2>5, <3>1 DEF Range
  <2>7. ASSUME NEW j \in 1 .. n, after < eventHistory[j]
        PROVE  eventHistory[j] \in Range(answer)
    <3>1. i < j
      BY <1>1, <2>1, <2>7
    <3>2. j - i \in 1 .. n - i /\ i + (j - i) = j
      BY <1>1, <2>1, <3>1
    <3>3. answer[j - i] = eventHistory[j]
      BY <2>5, <3>2
    <3>. QED
      BY <2>4, <3>2, <3>3 DEF Range
  <2>. QED
    BY <1>1, <2>2, <2>6, <2>7 DEF Range
<1>. QED
  BY <1>2, <1>3

\* A map of sets stays one when members come and go.
IsMap(map, D, X) == DOMAIN map \subseteq D /\ Range(map) \subseteq SUBSET X

LEMMA JoinedTypes ==
    ASSUME NEW D, NEW X, NEW map, IsMap(map, D, X), NEW ch \in D, NEW x \in X
    PROVE  IsMap(Joined(map, ch, x), D, X)
<1> DEFINE new == Joined(map, ch, x)
<1>1. /\ DOMAIN new = DOMAIN map \cup {ch}
      /\ \A d \in DOMAIN map \cup {ch} :
            new[d] = (IF d \in DOMAIN map THEN map[d] ELSE {}) \cup {y \in {x} : d = ch}
  BY DEF Joined
<1>. HIDE DEF new
<1>2. \A d \in DOMAIN new : new[d] \subseteq X
  BY <1>1 DEF IsMap, Range
<1>. QED
  BY <1>1, <1>2 DEF new, IsMap, Range

\* The same where members go, ...
LEMMA LessTypes ==
    ASSUME NEW D, NEW X, NEW map, IsMap(map, D, X), NEW less,
           DOMAIN less \subseteq DOMAIN map, \A d \in DOMAIN less : less[d] \subseteq map[d]
    PROVE  IsMap(less, D, X)
  BY DEF IsMap, Range

\* ... as they do when one channel loses some, or all channels do.
LEMMA FewerFacts ==
    ASSUME NEW map, NEW gone, NEW touched, NEW ch
    PROVE  /\ DOMAIN Pruned(map, touched) \subseteq DOMAIN map
           /\ \A d \in DOMAIN Pruned(map, touched) : Pruned(map, touched)[d] = map[d]
           /\ DOMAIN WithoutMembers(map, gone) = DOMAIN map
           /\ \A d \in DOMAIN map : WithoutMembers(map, gone)[d] = map[d] \ gone
           /\ DOMAIN [map EXCEPT ![ch] = map[ch] \ gone] = DOMAIN map
           /\ \A d \in DOMAIN map : [map EXCEPT ![ch] = map[ch] \ gone][d] \subseteq map[d]
  BY DEF Pruned, Restrict, WithoutMembers

\* disconnect() removes clients, and nothing else from the channels.
LEMMA DisconnectTypes ==
    ASSUME IsMap(channels, AllChannels, Connections), heartbeat \in BOOLEAN,
           NEW gone, DisconnectAll(gone)
    PROVE  /\ clients' \subseteq clients /\ heartbeat' \in BOOLEAN
           /\ IsMap(channels', AllChannels, Connections)
<1> DEFINE without == WithoutMembers(channels, gone)
           left == Pruned(without, AllChannels)
<1>1. IsMap(without, AllChannels, Connections)
  BY FewerFacts, LessTypes
<1>2. DOMAIN left \subseteq DOMAIN without /\ \A d \in DOMAIN left : left[d] = without[d]
  BY FewerFacts
<1>3. channels' \in {channels, left}
  BY DEF DisconnectAll
<1>. HIDE DEF without, left
<1>4. IsMap(left, AllChannels, Connections)
  BY <1>1, <1>2, LessTypes
<1>5. clients' \subseteq clients /\ heartbeat' \in BOOLEAN
  BY DEF DisconnectAll
<1>. QED
  BY <1>3, <1>4, <1>5

\* An event is appended to the streams of those it reaches.
LEMMA SendFacts ==
    ASSUME RealtimeTypeOK, NEW receivers, NEW id \in EventIds, SendTo(receivers, id)
    PROVE  /\ stream' \in [Connections -> Seq(EventIds)]
           /\ \A c \in Connections :
                 stream'[c] = IF c \in receivers \ broken THEN Append(stream[c], id) ELSE stream[c]
           /\ DisconnectAll(receivers \cap broken)
<1>1. \A c \in Connections : stream[c] \in Seq(EventIds) /\ Append(stream[c], id) \in Seq(EventIds)
  BY AppendFacts DEF RealtimeTypeOK
<1>. QED
  BY <1>1 DEF SendTo

\* What becomes of one user when it changes, and of the others.
LEMMA UserFacts ==
    ASSUME user \in [Users -> User], NEW u \in Users, NEW r \in User,
           user' = [user EXCEPT ![u] = r]
    PROVE  /\ user' \in [Users -> User] /\ user'[u] = r
           /\ \A v \in Users \ {u} : user'[v] = user[v]
  OBVIOUS

\* What each step makes of its user.
Connecting(x, c, id) == [x EXCEPT !.conn = c, !.since = IF @ = 0 THEN id ELSE @]

Receiving(x, id) == [x EXCEPT !.last = id, !.seen = @ \cup {id}]

Fetching(x, ids) == [x EXCEPT !.caughtUp = TRUE, !.seen = @ \cup ids]

Losing(x) == [x EXCEPT !.conn = 0, !.caughtUp = FALSE,
                       !.saved = IF x.caughtUp THEN x.last ELSE @]

\* An event received is the last and one more that it has seen.
LEMMA UserReceives ==
    ASSUME NEW x \in User, NEW id \in 0 .. MaxEvents, id \in EventIds,
           NEW y, y = Receiving(x, id)
    PROVE  /\ y \in User /\ y.last = id /\ y.seen = x.seen \cup {id}
           /\ y.conn = x.conn /\ y.saved = x.saved /\ y.since = x.since
           /\ (y.caughtUp <=> x.caughtUp)
  BY DEF User, Receiving

\* The history it fetches adds to what it has seen.
LEMMA UserFetches ==
    ASSUME NEW x \in User, NEW ids \in SUBSET EventIds, NEW y, y = Fetching(x, ids)
    PROVE  /\ y \in User /\ y.caughtUp /\ y.seen = x.seen \cup ids
           /\ y.conn = x.conn /\ y.last = x.last /\ y.saved = x.saved /\ y.since = x.since
  BY DEF User, Fetching

\* A connection lost keeps the last event only of a user who had caught up.
LEMMA UserLoses ==
    ASSUME NEW x \in User, MaxConnections \in Nat, NEW y, y = Losing(x)
    PROVE  /\ y \in User /\ y.conn = 0 /\ ~ y.caughtUp
           /\ y.saved = (IF x.caughtUp THEN x.last ELSE x.saved)
           /\ y.last = x.last /\ y.seen = x.seen /\ y.since = x.since
<1> DEFINE s == IF x.caughtUp THEN x.last ELSE x.saved
<1>1. s \in 0 .. MaxEvents
  <2>1. x.last \in 0 .. MaxEvents /\ x.saved \in 0 .. MaxEvents
    BY DEF User
  <2>. QED
    BY <2>1
<1>2. y = [x EXCEPT !.conn = 0, !.caughtUp = FALSE, !.saved = s]
  BY DEF Losing
<1>3. 0 \in 0 .. MaxConnections
  OBVIOUS
<1>. HIDE DEF s
<1>4. /\ y \in User /\ y.conn = 0 /\ ~ y.caughtUp /\ y.saved = s
      /\ y.last = x.last /\ y.seen = x.seen /\ y.since = x.since
  BY <1>1, <1>2, <1>3 DEF User
<1>. QED
  BY <1>4 DEF s

\* handleConnection(), in full.
LEMMA ConnectEffect ==
    ASSUME RealtimeAssumption, RealtimeTypeOK, NEW u \in Users, handleConnection(u)
    PROVE  /\ user[u].conn = 0 /\ connections + 1 \in Connections /\ eventIdCounter + 1 \in EventIds
           /\ connections' = connections + 1 /\ eventIdCounter' = eventIdCounter + 1
           /\ clients' = clients \cup {connections + 1}
           /\ channels' = Joined(channels, "default", connections + 1) /\ heartbeat' = TRUE
           /\ stream' \in [Connections -> Seq(EventIds)]
           /\ stream'[connections + 1] = <<eventIdCounter + 1>>
           /\ \A d \in Connections \ {connections + 1} : stream'[d] = stream[d]
           /\ user' \in [Users -> User] /\ \A v \in Users \ {u} : user'[v] = user[v]
           /\ user'[u].conn = connections + 1
           /\ user[u].since = 0 => user'[u].since = eventIdCounter + 1
           /\ user[u].since # 0 => user'[u].since = user[u].since
           /\ user'[u].last = user[u].last /\ user'[u].saved = user[u].saved
           /\ user'[u].seen = user[u].seen /\ (user'[u].caughtUp <=> user[u].caughtUp)
           /\ UNCHANGED <<eventHistory, broken, wsClients, wsChannels, socket>>
<1> DEFINE c == connections + 1
           id == eventIdCounter + 1
           r == Connecting(user[u], c, id)
<1>1. /\ user[u].conn = 0
      /\ c \in Connections /\ connections' = c /\ id \in EventIds /\ eventIdCounter' = id
      /\ clients' = clients \cup {c} /\ channels' = Joined(channels, "default", c)
      /\ stream' = [stream EXCEPT ![c] = <<id>>] /\ heartbeat' = TRUE
      /\ user' = [user EXCEPT ![u] = r]
      /\ UNCHANGED <<eventHistory, broken, wsClients, wsChannels, socket>>
  BY DEF handleConnection, Connecting, wsVars, RealtimeTypeOK, RealtimeAssumption, Connections, EventIds
<1>2. c \in 0 .. MaxConnections /\ id \in Nat /\ user \in [Users -> User] /\ user[u] \in User
  BY <1>1 DEF Connections, EventIds, RealtimeTypeOK
<1>. HIDE DEF c, id
<1>3. /\ r \in User /\ r.conn = c
      /\ (user[u].since = 0 => r.since = id) /\ (user[u].since # 0 => r.since = user[u].since)
      /\ r.last = user[u].last /\ r.saved = user[u].saved /\ r.seen = user[u].seen
      /\ (r.caughtUp <=> user[u].caughtUp)
  <2>1. PICK x \in User : x = user[u]
    BY <1>2
  <2>2. PICK y : y = Connecting(x, c, id)
    OBVIOUS
  <2>3. y = r
    BY <2>1, <2>2
  <2>. HIDE DEF r
  <2>4. /\ y \in User /\ y.conn = c
        /\ (x.since = 0 => y.since = id) /\ (x.since # 0 => y.since = x.since)
        /\ y.last = x.last /\ y.saved = x.saved /\ y.seen = x.seen
        /\ (y.caughtUp <=> x.caughtUp)
    BY <1>2, <2>2 DEF User, Connecting
  <2>. QED
    BY <2>1, <2>3, <2>4, Zenon
<1>. HIDE DEF r
<1>4. /\ user' \in [Users -> User] /\ user'[u] = r
      /\ \A v \in Users \ {u} : user'[v] = user[v]
  BY <1>1, <1>2, <1>3, UserFacts
<1>5. /\ stream' \in [Connections -> Seq(EventIds)] /\ stream'[c] = <<id>>
      /\ \A d \in Connections \ {c} : stream'[d] = stream[d]
  <2>1. <<id>> \in Seq(EventIds)
    BY <1>1
  <2>. QED
    BY <1>1, <2>1 DEF RealtimeTypeOK
<1>. QED
  BY <1>1, <1>3, <1>4, <1>5 DEF c, id

\* An event received, in full.
LEMMA ReceiveEffect ==
    ASSUME RealtimeAssumption, RealtimeTypeOK, NEW u \in Users, receiveEvent(u),
           NEW c, c = user[u].conn, NEW head, head = Head(stream[c])
    PROVE  /\ c \in Connections /\ stream[c] \in Seq(EventIds) /\ stream[c] # <<>>
           /\ head \in EventIds
           /\ stream' \in [Connections -> Seq(EventIds)] /\ stream'[c] = Tail(stream[c])
           /\ \A d \in Connections \ {c} : stream'[d] = stream[d]
           /\ user' \in [Users -> User] /\ \A v \in Users \ {u} : user'[v] = user[v]
           /\ user'[u].last = head /\ user'[u].seen = user[u].seen \cup {head}
           /\ user'[u].conn = c /\ user'[u].saved = user[u].saved
           /\ user'[u].since = user[u].since /\ (user'[u].caughtUp <=> user[u].caughtUp)
           /\ UNCHANGED <<clients, channels, eventHistory, eventIdCounter, heartbeat, connections,
                          broken, wsClients, wsChannels, socket>>
<1> DEFINE r == Receiving(user[u], head)
<1>1. /\ c # 0 /\ stream[c] # <<>> /\ user' = [user EXCEPT ![u] = r]
      /\ stream' = [stream EXCEPT ![c] = Tail(stream[c])]
      /\ UNCHANGED <<clients, channels, eventHistory, eventIdCounter, heartbeat, connections,
                     broken, wsClients, wsChannels, socket>>
  BY DEF receiveEvent, Receiving, wsVars
<1>2. /\ user \in [Users -> User] /\ user[u] \in User /\ stream \in [Connections -> Seq(EventIds)]
      /\ c \in 0 .. MaxConnections
  BY DEF RealtimeTypeOK, User
<1>3. c \in Connections /\ stream[c] \in Seq(EventIds)
  BY <1>1, <1>2 DEF Connections, RealtimeAssumption
<1>4. head \in EventIds /\ Tail(stream[c]) \in Seq(EventIds)
  BY <1>1, <1>3, TailFacts
<1>5. head \in 0 .. MaxEvents
  BY <1>4 DEF EventIds
<1>6. /\ r \in User /\ r.last = head /\ r.seen = user[u].seen \cup {head}
      /\ r.conn = user[u].conn /\ r.saved = user[u].saved /\ r.since = user[u].since
      /\ (r.caughtUp <=> user[u].caughtUp)
  BY <1>2, <1>4, <1>5, UserReceives
<1>. HIDE DEF r
<1>7. /\ user' \in [Users -> User] /\ user'[u] = r
      /\ \A v \in Users \ {u} : user'[v] = user[v]
  BY <1>1, <1>2, <1>6, UserFacts
<1>8. /\ stream' \in [Connections -> Seq(EventIds)] /\ stream'[c] = Tail(stream[c])
      /\ \A d \in Connections \ {c} : stream'[d] = stream[d]
  BY <1>1, <1>2, <1>3, <1>4
<1>. QED
  BY <1>1, <1>3, <1>4, <1>6, <1>7, <1>8

\* A history fetched, in full.
LEMMA FetchEffect ==
    ASSUME RealtimeAssumption, RealtimeTypeOK, Increasing(eventHistory), NEW u \in Users,
           fetchHistory(u)
    PROVE  /\ user[u].conn # 0
           /\ user' \in [Users -> User] /\ \A v \in Users \ {u} : user'[v] = user[v]
           /\ user'[u].caughtUp /\ user[u].seen \subseteq user'[u].seen
           /\ \A id \in Range(eventHistory) : user[u].saved < id => id \in user'[u].seen
           /\ user'[u].conn = user[u].conn /\ user'[u].last = user[u].last
           /\ user'[u].saved = user[u].saved /\ user'[u].since = user[u].since
           /\ UNCHANGED <<clients, channels, eventHistory, eventIdCounter, heartbeat, connections,
                          broken, stream, wsClients, wsChannels, socket>>
<1> DEFINE S == Range(getHistory(user[u].saved))
           r == Fetching(user[u], S)
<1>1. /\ user[u].conn # 0 /\ user' = [user EXCEPT ![u] = r]
      /\ UNCHANGED <<clients, channels, eventHistory, eventIdCounter, heartbeat, connections,
                     broken, stream, wsClients, wsChannels, socket>>
  BY DEF fetchHistory, Fetching, wsVars
<1>2. user \in [Users -> User] /\ user[u] \in User /\ user[u].saved \in Nat
  BY DEF RealtimeTypeOK, User
<1>3. /\ S \subseteq Range(eventHistory)
      /\ \A id \in Range(eventHistory) : user[u].saved < id => id \in S
  BY <1>2, HistoryFacts
<1>4. Range(eventHistory) \subseteq EventIds
  BY LenProperties, ElementOfSeq DEF RealtimeTypeOK, Range
<1>. HIDE DEF S
<1>5. /\ r \in User /\ r.caughtUp /\ r.seen = user[u].seen \cup S
      /\ r.conn = user[u].conn /\ r.last = user[u].last /\ r.saved = user[u].saved
      /\ r.since = user[u].since
  <2>1. S \in SUBSET EventIds
    BY <1>3, <1>4
  <2>. QED
    BY <1>2, <2>1, UserFetches
<1>. HIDE DEF r
<1>6. /\ user' \in [Users -> User] /\ user'[u] = r
      /\ \A v \in Users \ {u} : user'[v] = user[v]
  BY <1>1, <1>2, <1>5, UserFacts
<1>. QED
  BY <1>1, <1>3, <1>5, <1>6

\* A connection lost, in full.
LEMMA LoseEffect ==
    ASSUME RealtimeAssumption, RealtimeTypeOK, NEW u \in Users, loseConnection(u),
           NEW c, c = user[u].conn
    PROVE  /\ c \in Connections /\ broken' = broken \cup {c}
           /\ stream' \in [Connections -> Seq(EventIds)] /\ stream'[c] = <<>>
           /\ \A d \in Connections \ {c} : stream'[d] = stream[d]
           /\ user' \in [Users -> User] /\ \A v \in Users \ {u} : user'[v] = user[v]
           /\ user'[u].conn = 0 /\ ~ user'[u].caughtUp
           /\ user'[u].saved = (IF user[u].caughtUp THEN user[u].last ELSE user[u].saved)
           /\ user'[u].last = user[u].last /\ user'[u].seen = user[u].seen
           /\ user'[u].since = user[u].since
           /\ UNCHANGED <<clients, channels, eventHistory, eventIdCounter, heartbeat, connections,
                          wsClients, wsChannels, socket>>
<1> DEFINE r == Losing(user[u])
<1>1. /\ c # 0 /\ broken' = broken \cup {c} /\ stream' = [stream EXCEPT ![c] = <<>>]
      /\ user' = [user EXCEPT ![u] = r]
      /\ UNCHANGED <<clients, channels, eventHistory, eventIdCounter, heartbeat, connections,
                     wsClients, wsChannels, socket>>
  BY DEF loseConnection, Losing, wsVars
<1>2. /\ user \in [Users -> User] /\ user[u] \in User /\ stream \in [Connections -> Seq(EventIds)]
      /\ c \in 0 .. MaxConnections /\ MaxConnections \in Nat
  BY DEF RealtimeTypeOK, User, RealtimeAssumption
<1>3. c \in Connections
  BY <1>1, <1>2 DEF Connections
<1>4. /\ r \in User /\ r.conn = 0 /\ ~ r.caughtUp
      /\ r.saved = (IF user[u].caughtUp THEN user[u].last ELSE user[u].saved)
      /\ r.last = user[u].last /\ r.seen = user[u].seen /\ r.since = user[u].since
  BY <1>2, UserLoses
<1>. HIDE DEF r
<1>5. /\ user' \in [Users -> User] /\ user'[u] = r
      /\ \A v \in Users \ {u} : user'[v] = user[v]
  BY <1>1, <1>2, <1>4, UserFacts
<1>6. /\ stream' \in [Connections -> Seq(EventIds)] /\ stream'[c] = <<>>
      /\ \A d \in Connections \ {c} : stream'[d] = stream[d]
  <2>1. <<>> \in Seq(EventIds)
    OBVIOUS
  <2>. QED
    BY <1>1, <1>2, <1>3, <2>1
<1>. QED
  BY <1>1, <1>3, <1>4, <1>5, <1>6

\* Every step keeps the types.
LEMMA TypeStep ==
    ASSUME RealtimeAssumption, EventsInv, [RealtimeNext]_realtimeVars
    PROVE  RealtimeTypeOK'
<1>. /\ RealtimeTypeOK /\ IdsGrow
     /\ \A c \in clients \cup broken : c <= connections
     /\ MaxClients \in Nat /\ HistorySize \in Nat /\ MaxConnections \in Nat /\ MaxEvents \in Nat
     /\ IsMap(channels, AllChannels, Connections) /\ IsMap(wsChannels, Channels, Sockets)
     /\ heartbeat \in BOOLEAN
  BY DEF EventsInv, OwnConnection, RealtimeAssumption, RealtimeTypeOK, IsMap
<1>1. ASSUME NEW u \in Users, handleConnection(u)
      PROVE  RealtimeTypeOK'
  <2> DEFINE c == connections + 1
  <2>1. /\ c \in Connections /\ connections' = c /\ eventIdCounter' \in EventIds
        /\ clients' = clients \cup {c} /\ channels' = Joined(channels, "default", c)
        /\ heartbeat' = TRUE /\ stream' \in [Connections -> Seq(EventIds)]
        /\ user' \in [Users -> User]
        /\ UNCHANGED <<eventHistory, broken, wsClients, wsChannels, socket>>
    BY <1>1, ConnectEffect
  <2>. HIDE DEF c
  <2>2. c \in 0 .. MaxConnections /\ eventIdCounter' \in 0 .. MaxEvents
    BY <2>1 DEF Connections, EventIds
  <2>3. IsMap(channels', AllChannels, Connections)
    BY <2>1, JoinedTypes DEF AllChannels
  <2>. QED
    BY <2>1, <2>2, <2>3 DEF RealtimeTypeOK, IsMap
<1>2. ASSUME NEW u \in Users, receiveEvent(u)
      PROVE  RealtimeTypeOK'
  <2>1. /\ stream' \in [Connections -> Seq(EventIds)] /\ user' \in [Users -> User]
        /\ UNCHANGED <<clients, channels, eventHistory, eventIdCounter, heartbeat, connections,
                       broken, wsClients, wsChannels, socket>>
    BY <1>2, ReceiveEffect
  <2>. QED
    BY <2>1 DEF RealtimeTypeOK, IsMap
<1>3. ASSUME NEW u \in Users, fetchHistory(u)
      PROVE  RealtimeTypeOK'
  <2>1. /\ user' \in [Users -> User]
        /\ UNCHANGED <<clients, channels, eventHistory, eventIdCounter, heartbeat, connections,
                       broken, stream, wsClients, wsChannels, socket>>
    BY <1>3, FetchEffect DEF IdsGrow
  <2>. QED
    BY <2>1 DEF RealtimeTypeOK, IsMap
<1>4. ASSUME NEW u \in Users, loseConnection(u)
      PROVE  RealtimeTypeOK'
  <2>1. /\ user[u].conn \in Connections /\ broken' = broken \cup {user[u].conn}
        /\ stream' \in [Connections -> Seq(EventIds)] /\ user' \in [Users -> User]
        /\ UNCHANGED <<clients, channels, eventHistory, eventIdCounter, heartbeat, connections,
                       wsClients, wsChannels, socket>>
    BY <1>4, LoseEffect
  <2>. QED
    BY <2>1 DEF RealtimeTypeOK, IsMap
<1>5. ASSUME NEW gone, DisconnectAll(gone), eventHistory' \in {eventHistory, <<>>},
             UNCHANGED <<eventIdCounter, connections, broken, stream, user, wsVars>>
      PROVE  RealtimeTypeOK'
  <2>1. eventHistory' \in Seq(EventIds) /\ Len(eventHistory') <= HistorySize
    <3>1. <<>> \in Seq(EventIds) /\ Len(<<>>) = 0 /\ 0 <= HistorySize
      OBVIOUS
    <3>. QED
      BY <1>5, <3>1 DEF RealtimeTypeOK
  <2>2. /\ clients' \subseteq clients /\ heartbeat' \in BOOLEAN
        /\ IsMap(channels', AllChannels, Connections)
    BY <1>5, DisconnectTypes
  <2>. QED
    BY <1>5, <2>1, <2>2 DEF RealtimeTypeOK, IsMap, wsVars
<1>6. ASSUME NEW ch \in AllChannels, publish(ch)
      PROVE  RealtimeTypeOK'
  <2> DEFINE id == eventIdCounter + 1
             receivers == channels[ch] \cap clients
  <2>1. /\ id \in EventIds /\ eventIdCounter' = id /\ SendTo(receivers, id)
        /\ UNCHANGED <<eventHistory, connections, broken, user, wsClients, wsChannels, socket>>
    BY <1>6 DEF publish, wsVars, RealtimeTypeOK, EventIds
  <2>2. id \in 0 .. MaxEvents
    BY <2>1 DEF EventIds
  <2>. HIDE DEF id, receivers
  <2>3. stream' \in [Connections -> Seq(EventIds)] /\ DisconnectAll(receivers \cap broken)
    BY <2>1, SendFacts
  <2>4. /\ clients' \subseteq clients /\ heartbeat' \in BOOLEAN
        /\ IsMap(channels', AllChannels, Connections)
    BY <2>3, DisconnectTypes
  <2>. QED
    BY <2>1, <2>2, <2>3, <2>4 DEF RealtimeTypeOK, IsMap
<1>7. CASE sseBroadcast
  <2> DEFINE id == eventIdCounter + 1
  <2>1. /\ id \in EventIds /\ eventIdCounter' = id /\ SendTo(clients, id)
        /\ eventHistory' = Retained(Append(eventHistory, id))
        /\ UNCHANGED <<connections, broken, user, wsClients, wsChannels, socket>>
    BY <1>7 DEF sseBroadcast, wsVars, RealtimeTypeOK, EventIds
  <2>2. id \in 0 .. MaxEvents /\ \A k \in Range(eventHistory) : k < id
    <3>1. Range(eventHistory) \subseteq Nat
      BY LenProperties, ElementOfSeq DEF RealtimeTypeOK, Range, EventIds
    <3>. QED
      BY <2>1, <3>1 DEF EventIds, IdsGrow, RealtimeTypeOK
  <2>. HIDE DEF id
  <2>3. eventHistory' \in Seq(EventIds) /\ Len(eventHistory') <= HistorySize
    BY <2>1, <2>2, RetainedFacts DEF IdsGrow
  <2>4. stream' \in [Connections -> Seq(EventIds)] /\ DisconnectAll(clients \cap broken)
    BY <2>1, SendFacts
  <2>5. /\ clients' \subseteq clients /\ heartbeat' \in BOOLEAN
        /\ IsMap(channels', AllChannels, Connections)
    BY <2>4, DisconnectTypes
  <2>. QED
    BY <2>1, <2>2, <2>3, <2>4, <2>5 DEF RealtimeTypeOK, IsMap
<1>8. ASSUME NEW c \in Connections, NEW ch \in AllChannels, subscribe(c, ch) \/ unsubscribe(c, ch)
      PROVE  RealtimeTypeOK'
  <2>1. IsMap(channels', AllChannels, Connections)
    <3>1. CASE subscribe(c, ch)
      BY <3>1, JoinedTypes DEF subscribe
    <3>2. CASE unsubscribe(c, ch)
      <4> DEFINE less == [channels EXCEPT ![ch] = channels[ch] \ {c}]
      <4>1. IsMap(less, AllChannels, Connections)
        BY FewerFacts, LessTypes
      <4>2. channels' = Pruned(less, {ch})
        BY <3>2 DEF unsubscribe
      <4>. HIDE DEF less
      <4>3. DOMAIN channels' \subseteq DOMAIN less /\ \A d \in DOMAIN channels' : channels'[d] = less[d]
        BY <4>2, FewerFacts
      <4>. QED
        BY <4>1, <4>3, LessTypes
    <3>. QED
      BY <1>8, <3>1, <3>2
  <2>. QED
    BY <1>8, <2>1 DEF subscribe, unsubscribe, RealtimeTypeOK, IsMap, wsVars
<1>9. CASE WsNext
  <2>1. UNCHANGED sseVars
    BY <1>9 DEF WsNext, wsOpen, wsBreak, wsClose, wsSubscribe, wsUnsubscribe, wsPublish, wsBroadcast
  <2>3. IsMap(wsChannels', Channels, Sockets)
    <3>1. ASSUME NEW s \in Sockets, wsClose(s)
          PROVE  IsMap(wsChannels', Channels, Sockets)
      <4>1. wsChannels' = WithoutMembers(wsChannels, {s})
        BY <3>1 DEF wsClose
      <4>2. /\ DOMAIN wsChannels' = DOMAIN wsChannels
            /\ \A d \in DOMAIN wsChannels : wsChannels'[d] = wsChannels[d] \ {s}
        BY <4>1, FewerFacts
      <4>. QED
        BY <4>2, LessTypes
    <3>2. ASSUME NEW s \in Sockets, NEW ch \in Channels, wsSubscribe(ch, s)
          PROVE  IsMap(wsChannels', Channels, Sockets)
      BY <3>2, JoinedTypes DEF wsSubscribe
    <3>3. ASSUME NEW s \in Sockets, NEW ch \in Channels, wsUnsubscribe(ch, s)
          PROVE  IsMap(wsChannels', Channels, Sockets)
      <4> DEFINE less == [wsChannels EXCEPT ![ch] = wsChannels[ch] \ {s}]
      <4>1. IsMap(less, Channels, Sockets)
        BY FewerFacts, LessTypes
      <4>2. wsChannels' = Pruned(less, {ch})
        BY <3>3 DEF wsUnsubscribe
      <4>. HIDE DEF less
      <4>3. DOMAIN wsChannels' \subseteq DOMAIN less /\ \A d \in DOMAIN wsChannels' : wsChannels'[d] = less[d]
        BY <4>2, FewerFacts
      <4>. QED
        BY <4>1, <4>3, LessTypes
    <3>4. ASSUME NEW ch \in Channels, wsPublish(ch)
          PROVE  IsMap(wsChannels', Channels, Sockets)
      <4>1. wsChannels' = [wsChannels EXCEPT ![ch] = @ \ Failing(wsChannels[ch])]
        BY <3>4 DEF wsPublish
      <4> DEFINE gone == Failing(wsChannels[ch])
      <4>. HIDE DEF gone
      <4>2. wsChannels' = [wsChannels EXCEPT ![ch] = wsChannels[ch] \ gone]
        BY <4>1 DEF gone
      <4>3. /\ DOMAIN wsChannels' = DOMAIN wsChannels
            /\ \A d \in DOMAIN wsChannels : wsChannels'[d] \subseteq wsChannels[d]
        BY <4>2
      <4>. QED
        BY <4>3, LessTypes
    <3>5. CASE UNCHANGED wsChannels
      BY <3>5
    <3>. QED
      BY <1>9, <3>1, <3>2, <3>3, <3>4, <3>5 DEF WsNext, wsOpen, wsBreak, wsBroadcast
  <2>4. /\ wsClients' \subseteq Sockets
        /\ socket' \in [Sockets -> {"none", "open", "broken", "closed"}]
    BY <1>9 DEF WsNext, wsOpen, wsBreak, wsClose, wsSubscribe, wsUnsubscribe, wsPublish, wsBroadcast,
                RealtimeTypeOK
  <2>. QED
    BY <2>1, <2>3, <2>4 DEF RealtimeTypeOK, IsMap, sseVars
<1>10. CASE UNCHANGED realtimeVars
  BY <1>10 DEF realtimeVars, sseVars, wsVars, RealtimeTypeOK
<1>11. ASSUME NEW c \in Connections, sseDisconnect(c)
       PROVE  RealtimeTypeOK'
  BY <1>5, <1>11 DEF sseDisconnect
<1>12. CASE close
  BY <1>5, <1>12 DEF close
<1>13. CASE beat
  BY <1>5, <1>13 DEF beat
<1>. QED
  BY <1>1, <1>2, <1>3, <1>4, <1>6, <1>7, <1>8, <1>9, <1>10, <1>11, <1>12, <1>13
     DEF RealtimeNext, SseNext

\* What EventsInv says besides the types, of a user at a time.
FirstConnection == \A u \in Users : user[u].since = 0 => user[u].saved = 0 /\ user[u].conn = 0

EventFacts == IdsGrow /\ OwnConnection /\ SavedSeen /\ StillCaughtUp /\ FirstConnection

\* What the types say where numbers are compared.
LEMMA EventTypes ==
    ASSUME RealtimeAssumption, RealtimeTypeOK
    PROVE  /\ eventIdCounter \in Nat /\ connections \in Nat
           /\ Range(eventHistory) \subseteq EventIds
           /\ EventIds \subseteq Nat \ {0} /\ Connections \subseteq Nat \ {0}
           /\ \A c \in Connections : /\ stream[c] \in Seq(EventIds)
                                     /\ Range(stream[c]) \subseteq EventIds
           /\ \A u \in Users :
                 /\ user[u].conn \in Nat /\ user[u].last \in Nat /\ user[u].saved \in Nat
                 /\ user[u].since \in Nat
                 /\ user[u].conn # 0 => user[u].conn \in Connections
<1>1. Range(eventHistory) \subseteq EventIds
  BY LenProperties, ElementOfSeq DEF RealtimeTypeOK, Range
<1>2. ASSUME NEW c \in Connections
      PROVE  stream[c] \in Seq(EventIds) /\ Range(stream[c]) \subseteq EventIds
  <2>1. stream[c] \in Seq(EventIds)
    BY DEF RealtimeTypeOK
  <2>. QED
    BY <2>1, LenProperties, ElementOfSeq DEF Range
<1>. QED
  BY <1>1, <1>2 DEF RealtimeTypeOK, RealtimeAssumption, EventIds, Connections, User

\* A step that sends nothing and concerns no user: clients and events may go.
LEMMA QuietStep ==
    ASSUME EventFacts, UNCHANGED <<eventIdCounter, connections, broken, stream, user>>,
           clients' \subseteq clients, Increasing(eventHistory'),
           Range(eventHistory') \subseteq Range(eventHistory)
    PROVE  EventFacts'
<1>1. IdsGrow'
  BY DEF EventFacts, IdsGrow
<1>2. OwnConnection'
  BY DEF EventFacts, OwnConnection
<1>3. SavedSeen'
  BY DEF EventFacts, SavedSeen
<1>4. StillCaughtUp'
  BY DEF EventFacts, StillCaughtUp, Reaches
<1>5. FirstConnection'
  BY DEF EventFacts, FirstConnection
<1>. QED
  BY <1>1, <1>2, <1>3, <1>4, <1>5 DEF EventFacts

\* sendToClient(): an event goes to some clients, and is retained only if to all.
LEMMA DeliveryStep ==
    ASSUME RealtimeAssumption, RealtimeTypeOK, EventFacts,
           NEW receivers, receivers \subseteq clients,
           NEW id \in EventIds, id = eventIdCounter + 1, eventIdCounter' = id,
           SendTo(receivers, id), UNCHANGED <<connections, broken, user>>,
           Increasing(eventHistory'),
           Range(eventHistory') \subseteq
              Range(eventHistory) \cup {e \in {id} : receivers = clients}
    PROVE  EventFacts'
<1>1. /\ eventIdCounter \in Nat /\ id \in Nat /\ \A e \in Range(eventHistory) : e \in Nat
      /\ \A c \in Connections : /\ stream[c] \in Seq(EventIds)
                                /\ \A e \in Range(stream[c]) : e \in Nat
      /\ \A u \in Users : /\ user[u].last \in Nat /\ user[u].saved \in Nat
                          /\ user[u].since \in Nat
                          /\ user[u].conn # 0 => user[u].conn \in Connections
      /\ EventIds \subseteq Nat
  BY EventTypes
<1>2. \A c \in Connections :
         stream'[c] = IF c \in receivers \ broken THEN Append(stream[c], id) ELSE stream[c]
  BY SendFacts
<1>3. clients' \subseteq clients
  BY SendFacts DEF DisconnectAll
<1>4. /\ Increasing(eventHistory) /\ \A e \in Range(eventHistory) : e <= eventIdCounter
      /\ \A c \in Connections : /\ Increasing(stream[c])
                                /\ \A e \in Range(stream[c]) : e <= eventIdCounter
      /\ \A u \in Users :
            /\ user[u].last <= eventIdCounter /\ user[u].saved <= eventIdCounter
            /\ user[u].conn # 0 => \A e \in Range(stream[user[u].conn]) : user[u].last < e
  BY DEF EventFacts, IdsGrow
<1>5. ASSUME NEW c \in Connections
      PROVE  /\ Increasing(stream'[c])
             /\ Range(stream'[c]) = Range(stream[c]) \cup {e \in {id} : c \in receivers \ broken}
  <2>1. CASE c \in receivers \ broken
    <3>1. stream'[c] = Append(stream[c], id)
      BY <1>2, <2>1
    <3>2. ASSUME NEW e \in Range(stream[c])
          PROVE  e < id
      <4>1. e \in Nat /\ e <= eventIdCounter
        BY <1>1, <1>4
      <4>. QED
        BY <1>1, <4>1
    <3>3. Increasing(Append(stream[c], id))
      BY <1>1, <1>4, <3>2, IncreasingFacts
    <3>4. Range(Append(stream[c], id)) = Range(stream[c]) \cup {id}
      BY <1>1, AppendFacts
    <3>. QED
      BY <2>1, <3>1, <3>3, <3>4
  <2>2. CASE ~ (c \in receivers \ broken)
    BY <1>2, <1>4, <2>2
  <2>. QED
    BY <2>1, <2>2
<1>6. IdsGrow'
  <2>1. \A e \in Range(eventHistory') : e <= eventIdCounter'
    BY <1>1, <1>4
  <2>2. ASSUME NEW c \in Connections, NEW e \in Range(stream'[c])
        PROVE  e <= eventIdCounter'
    <3>1. e = id \/ (e \in Nat /\ e <= eventIdCounter)
      BY <1>1, <1>4, <1>5
    <3>. QED
      BY <1>1, <3>1
  <2>3. ASSUME NEW u \in Users
        PROVE  /\ user'[u].last <= eventIdCounter' /\ user'[u].saved <= eventIdCounter'
               /\ user'[u].conn # 0 => \A e \in Range(stream'[user'[u].conn]) : user'[u].last < e
    <3>1. /\ user'[u].last <= eventIdCounter /\ user'[u].saved <= eventIdCounter
          /\ user'[u].last \in Nat /\ user'[u].saved \in Nat
      BY <1>1, <1>4
    <3>2. ASSUME user'[u].conn # 0, NEW e \in Range(stream'[user'[u].conn])
          PROVE  user'[u].last < e
      <4>1. user[u].conn # 0 /\ user[u].conn \in Connections /\ user'[u].conn = user[u].conn
        BY <1>1, <3>2
      <4>2. e = id \/ e \in Range(stream[user[u].conn])
        BY <1>5, <3>2, <4>1
      <4>3. e = id \/ user[u].last < e
        BY <1>4, <4>1, <4>2
      <4>. QED
        BY <1>1, <3>1, <4>3
    <3>. QED
      BY <1>1, <3>1, <3>2
  <2>. QED
    BY <1>5, <2>1, <2>2, <2>3 DEF IdsGrow
<1>7. OwnConnection'
  BY <1>3 DEF EventFacts, OwnConnection
<1>8. SavedSeen'
  BY <1>1, <1>4 DEF EventFacts, SavedSeen
<1>9. StillCaughtUp'
  <2> SUFFICES ASSUME NEW u \in Users, user[u].caughtUp, NEW e \in Range(eventHistory'),
                      user[u].since < e, Reaches(u, e)'
               PROVE  e \in user[u].seen \cup Range(stream'[user[u].conn])
    BY DEF StillCaughtUp
  <2> DEFINE c == user[u].conn
  <2>1. c # 0 /\ c \notin broken
    BY DEF EventFacts, OwnConnection
  <2>2. c \in Connections
    BY <1>1, <2>1
  <2>. HIDE DEF c
  <2>3. c \in clients' \/ e <= user[u].last \/ \E s \in Range(stream'[c]) : e <= s
    BY DEF Reaches, c
  <2>4. CASE e \in Range(eventHistory)
    <3>1. c \in clients \/ e <= user[u].last \/ \E s \in Range(stream[c]) : e <= s
      BY <1>3, <1>5, <2>2, <2>3
    <3>2. e \in user[u].seen \cup Range(stream[c])
      BY <2>4, <3>1 DEF c, EventFacts, StillCaughtUp, Reaches
    <3>. QED
      BY <1>5, <2>2, <3>2 DEF c
  <2>5. CASE e \notin Range(eventHistory)
    <3>1. e = id /\ receivers = clients
      BY <2>5
    <3>2. ~ (e <= user[u].last)
      BY <1>1, <1>4, <3>1
    <3>3. c \in clients \/ id \in Range(stream'[c])
      BY <1>1, <1>3, <1>4, <1>5, <2>2, <2>3, <3>1, <3>2
    <3>4. id \in Range(stream'[c])
      BY <1>5, <2>1, <2>2, <3>1, <3>3
    <3>. QED
      BY <3>1, <3>4 DEF c
  <2>. QED
    BY <2>4, <2>5
<1>10. FirstConnection'
  BY DEF EventFacts, FirstConnection
<1>. QED
  BY <1>6, <1>7, <1>8, <1>9, <1>10 DEF EventFacts

\* A sequence of one event, and of none.
LEMMA ShortStreams ==
    ASSUME NEW id \in EventIds
    PROVE  /\ Increasing(<<id>>) /\ Range(<<id>>) = {id}
           /\ Increasing(<<>>) /\ Range(<<>>) = {}
<1>1. DOMAIN <<id>> = {1} /\ <<id>>[1] = id
  OBVIOUS
<1>2. DOMAIN <<>> = {}
  OBVIOUS
<1>. QED
  BY <1>1, <1>2 DEF Increasing, Range

\* handleConnection(): a connection of its own, with nothing missed on it yet.
LEMMA ConnectStep ==
    ASSUME RealtimeAssumption, RealtimeTypeOK, EventFacts, NEW u \in Users, handleConnection(u)
    PROVE  EventFacts'
<1>1. PICK c \in Connections : c = connections + 1
  BY ConnectEffect
<1>2. PICK id \in EventIds : id = eventIdCounter + 1
  BY ConnectEffect
<1>3. /\ user[u].conn = 0 /\ connections' = c /\ eventIdCounter' = id
      /\ clients' = clients \cup {c} /\ stream'[c] = <<id>>
      /\ \A d \in Connections \ {c} : stream'[d] = stream[d]
      /\ \A v \in Users \ {u} : user'[v] = user[v]
      /\ user'[u].conn = c
      /\ user[u].since = 0 => user'[u].since = id
      /\ user[u].since # 0 => user'[u].since = user[u].since
      /\ user'[u].last = user[u].last /\ user'[u].saved = user[u].saved
      /\ user'[u].seen = user[u].seen /\ (user'[u].caughtUp <=> user[u].caughtUp)
      /\ UNCHANGED <<eventHistory, broken>>
  BY <1>1, <1>2, ConnectEffect
<1>4. /\ eventIdCounter \in Nat /\ connections \in Nat /\ id \in Nat \ {0} /\ c \in Nat \ {0}
      /\ \A e \in Range(eventHistory) : e \in Nat
      /\ \A d \in Connections : \A e \in Range(stream[d]) : e \in Nat
      /\ \A v \in Users : /\ user[v].last \in Nat /\ user[v].saved \in Nat
                          /\ user[v].conn \in Nat
                          /\ user[v].conn # 0 => user[v].conn \in Connections
  BY EventTypes
<1>5. Increasing(stream'[c]) /\ Range(stream'[c]) = {id}
  BY <1>3, ShortStreams
<1>6. /\ \A v \in Users : user[v].conn # c
      /\ c \notin broken /\ ~ user[u].caughtUp
      /\ \A d \in clients \cup broken : d <= connections
  BY <1>1, <1>3, <1>4 DEF EventFacts, OwnConnection
<1>7. IdsGrow'
  <2>1. ASSUME NEW e \in Range(eventHistory')
        PROVE  e <= eventIdCounter'
    BY <1>2, <1>3, <1>4 DEF EventFacts, IdsGrow
  <2>2. ASSUME NEW d \in Connections
        PROVE  /\ Increasing(stream'[d])
               /\ \A e \in Range(stream'[d]) : e <= eventIdCounter'
    <3>1. CASE d = c
      BY <1>3, <1>4, <1>5, <3>1
    <3>2. CASE d # c
      <4>1. /\ stream'[d] = stream[d] /\ Increasing(stream[d])
            /\ \A e \in Range(stream[d]) : e \in Nat /\ e <= eventIdCounter
        BY <1>3, <1>4, <3>2 DEF EventFacts, IdsGrow
      <4>. QED
        BY <1>2, <1>3, <1>4, <4>1
    <3>. QED
      BY <3>1, <3>2
  <2>3. ASSUME NEW v \in Users
        PROVE  /\ user'[v].last <= eventIdCounter' /\ user'[v].saved <= eventIdCounter'
               /\ user'[v].conn # 0 => \A e \in Range(stream'[user'[v].conn]) : user'[v].last < e
    <3>1. user'[v].last = user[v].last /\ user'[v].saved = user[v].saved
      BY <1>3
    <3>2. /\ user[v].last <= eventIdCounter /\ user[v].saved <= eventIdCounter
          /\ user[v].last < id /\ user[v].saved < id
      BY <1>2, <1>4 DEF EventFacts, IdsGrow
    <3>3. CASE v = u
      BY <1>2, <1>3, <1>4, <1>5, <3>1, <3>2, <3>3
    <3>4. CASE v # u
      <4>1. user'[v] = user[v]
        BY <1>3, <3>4
      <4>2. ASSUME user[v].conn # 0, NEW e \in Range(stream'[user[v].conn])
            PROVE  user[v].last < e
        <5>1. stream'[user[v].conn] = stream[user[v].conn]
          BY <1>3, <1>4, <1>6, <4>2
        <5>. QED
          BY <4>2, <5>1 DEF EventFacts, IdsGrow
      <4>. QED
        BY <1>2, <1>3, <1>4, <3>1, <3>2, <4>1, <4>2
    <3>. QED
      BY <3>3, <3>4
  <2>. QED
    BY <1>3, <2>1, <2>2, <2>3 DEF EventFacts, IdsGrow
<1>8. OwnConnection'
  <2>1. \A d \in clients' \cup broken' : d <= connections'
    <3>1. \A d \in clients \cup broken : d \in Nat
      BY EventTypes DEF RealtimeTypeOK
    <3>. QED
      BY <1>1, <1>3, <1>4, <1>6, <3>1
  <2>2. ASSUME NEW v \in Users
        PROVE  /\ user'[v].conn <= connections' /\ user'[v].conn \notin broken'
               /\ user'[v].conn = 0 => ~ user'[v].caughtUp
               /\ \A w \in Users : user'[w].conn = user'[v].conn /\ user'[v].conn # 0 => v = w
    <3>1. /\ user[v].conn <= connections /\ user[v].conn \notin broken
          /\ user[v].conn = 0 => ~ user[v].caughtUp
          /\ \A w \in Users : user[w].conn = user[v].conn /\ user[v].conn # 0 => v = w
      BY DEF EventFacts, OwnConnection
    <3>2. user[v].conn <= c
      BY <1>1, <1>4, <3>1
    <3>3. CASE v = u
      BY <1>3, <1>4, <1>6, <3>3
    <3>4. CASE v # u
      BY <1>3, <1>6, <3>1, <3>2, <3>4
    <3>. QED
      BY <3>3, <3>4
  <2>. QED
    BY <2>1, <2>2 DEF OwnConnection
<1>9. SavedSeen'
  <2> SUFFICES ASSUME NEW v \in Users, NEW e \in Range(eventHistory'),
                      user'[v].since < e, e <= user'[v].saved
               PROVE  e \in user'[v].seen
    BY DEF SavedSeen
  <2>1. CASE v # u
    BY <1>3, <2>1 DEF EventFacts, SavedSeen
  <2>2. CASE v = u /\ user[u].since # 0
    BY <1>3, <2>2 DEF EventFacts, SavedSeen
  <2>3. CASE v = u /\ user[u].since = 0
    <3>1. user'[v].since = id /\ user'[v].saved = 0 /\ e \in Nat
      BY <1>3, <1>4, <2>3 DEF EventFacts, FirstConnection
    <3>. QED
      BY <1>4, <3>1
  <2>. QED
    BY <2>1, <2>2, <2>3
<1>10. StillCaughtUp'
  <2> SUFFICES ASSUME NEW v \in Users, user'[v].caughtUp, NEW e \in Range(eventHistory'),
                      user'[v].since < e, Reaches(v, e)'
               PROVE  e \in user'[v].seen \cup Range(stream'[user'[v].conn])
    BY DEF StillCaughtUp
  <2>1. v # u
    BY <1>3, <1>6
  <2>2. user'[v] = user[v]
    BY <1>3, <2>1
  <2>3. user[v].conn # 0
    BY <2>2 DEF EventFacts, OwnConnection
  <2>4. stream'[user[v].conn] = stream[user[v].conn]
    BY <1>3, <1>4, <1>6, <2>3
  <2>5. user[v].conn \in clients' => user[v].conn \in clients
    BY <1>3, <1>6
  <2>6. Reaches(v, e)
    BY <2>2, <2>4, <2>5 DEF Reaches
  <2>. QED
    BY <1>3, <2>2, <2>4, <2>6 DEF EventFacts, StillCaughtUp
<1>11. FirstConnection'
  BY <1>3, <1>4 DEF EventFacts, FirstConnection
<1>. QED
  BY <1>7, <1>8, <1>9, <1>10, <1>11 DEF EventFacts

\* An event received moves from what is on its way to what was seen.
LEMMA ReceiveStep ==
    ASSUME RealtimeAssumption, RealtimeTypeOK, EventFacts, NEW u \in Users, receiveEvent(u)
    PROVE  EventFacts'
<1>1. PICK c : c = user[u].conn
  OBVIOUS
<1>2. PICK head : head = Head(stream[c])
  OBVIOUS
<1>3. /\ c \in Connections /\ stream[c] \in Seq(EventIds) /\ stream[c] # <<>>
      /\ head \in EventIds /\ stream'[c] = Tail(stream[c])
      /\ \A d \in Connections \ {c} : stream'[d] = stream[d]
      /\ \A v \in Users \ {u} : user'[v] = user[v]
      /\ user'[u].last = head /\ user'[u].seen = user[u].seen \cup {head}
      /\ user'[u].conn = c /\ user'[u].saved = user[u].saved
      /\ user'[u].since = user[u].since /\ (user'[u].caughtUp <=> user[u].caughtUp)
      /\ UNCHANGED <<clients, eventHistory, eventIdCounter, connections, broken>>
  BY <1>1, <1>2, ReceiveEffect
<1>4. /\ eventIdCounter \in Nat /\ head \in Nat /\ EventIds \subseteq Nat
      /\ \A v \in Users : user[v].conn # 0 => user[v].conn \in Connections
      /\ c # 0
  BY <1>3, EventTypes
<1>5. /\ Increasing(stream'[c]) /\ \A e \in Range(stream'[c]) : head < e
      /\ head \in Range(stream[c]) /\ Range(stream[c]) = Range(stream'[c]) \cup {head}
  <2>1. Increasing(stream[c])
    BY <1>3 DEF EventFacts, IdsGrow
  <2>2. Increasing(Tail(stream[c])) /\ \A e \in Range(Tail(stream[c])) : head < e
    <3>1. PICK ids \in Seq(EventIds) : ids = stream[c]
      BY <1>3
    <3>2. Increasing(ids) /\ ids # <<>> /\ head = Head(ids)
      BY <1>2, <1>3, <2>1, <3>1
    <3>3. Increasing(Tail(ids)) /\ \A e \in Range(Tail(ids)) : Head(ids) < e
      BY <1>4, <3>2, IncreasingFacts
    <3>. QED
      BY <3>1, <3>2, <3>3
  <2>3. /\ head \in Range(stream[c])
        /\ Range(stream[c]) = Range(Tail(stream[c])) \cup {head}
    BY <1>2, <1>3, TailFacts
  <2>. QED
    BY <1>3, <2>2, <2>3
<1>6. \A v \in Users \ {u} : user[v].conn # c
  BY <1>1, <1>4 DEF EventFacts, OwnConnection
<1>7. IdsGrow'
  <2>1. ASSUME NEW d \in Connections
        PROVE  /\ Increasing(stream'[d])
               /\ \A e \in Range(stream'[d]) : e <= eventIdCounter'
    <3>1. CASE d = c
      BY <1>3, <1>5, <3>1 DEF EventFacts, IdsGrow
    <3>2. CASE d # c
      BY <1>3, <3>2 DEF EventFacts, IdsGrow
    <3>. QED
      BY <3>1, <3>2
  <2>2. ASSUME NEW v \in Users
        PROVE  /\ user'[v].last <= eventIdCounter' /\ user'[v].saved <= eventIdCounter'
               /\ user'[v].conn # 0 => \A e \in Range(stream'[user'[v].conn]) : user'[v].last < e
    <3>1. CASE v = u
      BY <1>3, <1>5, <3>1 DEF EventFacts, IdsGrow
    <3>2. CASE v # u
      <4>1. user'[v] = user[v]
        BY <1>3, <3>2
      <4>2. user[v].conn # 0 => stream'[user[v].conn] = stream[user[v].conn]
        BY <1>3, <1>4, <1>6, <3>2
      <4>. QED
        BY <1>3, <4>1, <4>2 DEF EventFacts, IdsGrow
    <3>. QED
      BY <3>1, <3>2
  <2>. QED
    BY <1>3, <2>1, <2>2 DEF EventFacts, IdsGrow
<1>8. \A v \in Users : /\ user'[v].conn = user[v].conn /\ user'[v].since = user[v].since
                       /\ user'[v].saved = user[v].saved /\ user[v].seen \subseteq user'[v].seen
                       /\ (user'[v].caughtUp <=> user[v].caughtUp)
  <2>1. ASSUME NEW v \in Users
        PROVE  /\ user'[v].conn = user[v].conn /\ user'[v].since = user[v].since
               /\ user'[v].saved = user[v].saved /\ user[v].seen \subseteq user'[v].seen
               /\ (user'[v].caughtUp <=> user[v].caughtUp)
    <3>1. CASE v = u
      BY <1>1, <1>3, <3>1
    <3>2. CASE v # u
      <4>1. user'[v] = user[v]
        BY <1>3, <3>2
      <4>. QED
        BY <4>1
    <3>. QED
      BY <3>1, <3>2
  <2>. QED
    BY <2>1
<1>9. OwnConnection'
  BY <1>3, <1>8 DEF EventFacts, OwnConnection
<1>10. SavedSeen'
  BY <1>3, <1>8 DEF EventFacts, SavedSeen
<1>11. StillCaughtUp'
  <2> SUFFICES ASSUME NEW v \in Users, user'[v].caughtUp, NEW e \in Range(eventHistory'),
                      user'[v].since < e, Reaches(v, e)'
               PROVE  e \in user'[v].seen \cup Range(stream'[user'[v].conn])
    BY DEF StillCaughtUp
  <2>1. user[v].caughtUp /\ user[v].since < e /\ user'[v].conn = user[v].conn
        /\ user[v].seen \subseteq user'[v].seen
    BY <1>8
  <2>2. user[v].conn # 0 /\ user[v].conn \in Connections
    BY <1>4, <2>1 DEF EventFacts, OwnConnection
  <2>3. CASE v = u
    <3>1. c \in clients \/ e <= head \/ \E s \in Range(stream'[c]) : e <= s
      BY <1>3, <2>3 DEF Reaches
    <3>2. Reaches(u, e)
      BY <1>1, <1>5, <3>1 DEF Reaches
    <3>3. e \in user[u].seen \cup Range(stream[c])
      BY <1>1, <1>3, <2>1, <2>3, <3>2 DEF EventFacts, StillCaughtUp
    <3>. QED
      BY <1>3, <1>5, <2>3, <3>3
  <2>4. CASE v # u
    <3>1. user'[v] = user[v] /\ stream'[user[v].conn] = stream[user[v].conn]
      BY <1>3, <1>6, <2>2, <2>4
    <3>2. Reaches(v, e)
      BY <1>3, <3>1 DEF Reaches
    <3>. QED
      BY <1>3, <2>1, <3>1, <3>2 DEF EventFacts, StillCaughtUp
  <2>. QED
    BY <2>3, <2>4
<1>12. FirstConnection'
  BY <1>8 DEF EventFacts, FirstConnection
<1>. QED
  BY <1>7, <1>9, <1>10, <1>11, <1>12 DEF EventFacts

\* getHistory(): who asks from where it last missed nothing has caught up.
LEMMA FetchStep ==
    ASSUME RealtimeAssumption, RealtimeTypeOK, EventFacts, NEW u \in Users, fetchHistory(u)
    PROVE  EventFacts'
<1>1. /\ user[u].conn # 0 /\ user[u].seen \subseteq user'[u].seen
      /\ \A v \in Users \ {u} : user'[v] = user[v]
      /\ \A id \in Range(eventHistory) : user[u].saved < id => id \in user'[u].seen
      /\ user'[u].conn = user[u].conn /\ user'[u].last = user[u].last
      /\ user'[u].saved = user[u].saved /\ user'[u].since = user[u].since
      /\ UNCHANGED <<clients, eventHistory, eventIdCounter, connections, broken, stream>>
  BY FetchEffect DEF EventFacts, IdsGrow
<1>2. ASSUME NEW v \in Users
      PROVE  /\ user'[v].conn = user[v].conn /\ user'[v].last = user[v].last
             /\ user'[v].saved = user[v].saved /\ user'[v].since = user[v].since
             /\ user[v].seen \subseteq user'[v].seen
  <2>1. CASE v = u
    BY <1>1, <2>1
  <2>2. CASE v # u
    <3>1. user'[v] = user[v]
      BY <1>1, <2>2
    <3>. QED
      BY <3>1
  <2>. QED
    BY <2>1, <2>2
<1>3. IdsGrow'
  <2>1. ASSUME NEW v \in Users
        PROVE  /\ user'[v].last <= eventIdCounter' /\ user'[v].saved <= eventIdCounter'
               /\ user'[v].conn # 0 => \A e \in Range(stream'[user'[v].conn]) : user'[v].last < e
    BY <1>1, <1>2 DEF EventFacts, IdsGrow
  <2>. QED
    BY <1>1, <2>1 DEF EventFacts, IdsGrow
<1>4. OwnConnection'
  <2>1. ASSUME NEW v \in Users
        PROVE  /\ user'[v].conn <= connections' /\ user'[v].conn \notin broken'
               /\ user'[v].conn = 0 => ~ user'[v].caughtUp
               /\ \A w \in Users : user'[w].conn = user'[v].conn /\ user'[v].conn # 0 => v = w
    <3>1. user'[v].conn = 0 => ~ user'[v].caughtUp
      <4>1. CASE v = u
        BY <1>1, <4>1
      <4>2. CASE v # u
        <5>1. user'[v] = user[v]
          BY <1>1, <4>2
        <5>. QED
          BY <5>1 DEF EventFacts, OwnConnection
      <4>. QED
        BY <4>1, <4>2
    <3>. QED
      BY <1>1, <1>2, <3>1 DEF EventFacts, OwnConnection
  <2>. QED
    BY <1>1, <2>1 DEF EventFacts, OwnConnection
<1>5. SavedSeen'
  BY <1>1, <1>2 DEF EventFacts, SavedSeen
<1>6. StillCaughtUp'
  <2> SUFFICES ASSUME NEW v \in Users, user'[v].caughtUp, NEW e \in Range(eventHistory'),
                      user'[v].since < e, Reaches(v, e)'
               PROVE  e \in user'[v].seen \cup Range(stream'[user'[v].conn])
    BY DEF StillCaughtUp
  <2>1. CASE v = u
    <3>1. e \in Nat /\ user[u].saved \in Nat
      BY <1>1, EventTypes
    <3>2. CASE user[u].saved < e
      BY <1>1, <2>1, <3>2
    <3>3. CASE e <= user[u].saved
      <4>1. e \in user[u].seen
        BY <1>1, <2>1, <3>3 DEF EventFacts, SavedSeen
      <4>. QED
        BY <1>1, <2>1, <4>1
    <3>. QED
      BY <3>1, <3>2, <3>3
  <2>2. CASE v # u
    <3>1. user'[v] = user[v]
      BY <1>1, <2>2
    <3>2. Reaches(v, e)
      BY <1>1, <3>1 DEF Reaches
    <3>. QED
      BY <1>1, <3>1, <3>2 DEF EventFacts, StillCaughtUp
  <2>. QED
    BY <2>1, <2>2
<1>7. FirstConnection'
  BY <1>2 DEF EventFacts, FirstConnection
<1>. QED
  BY <1>3, <1>4, <1>5, <1>6, <1>7 DEF EventFacts

\* A connection is lost with what was on its way; a user who had caught up has seen
\* all that is retained up to the last event it received.
LEMMA LoseStep ==
    ASSUME RealtimeAssumption, RealtimeTypeOK, EventFacts, NEW u \in Users, loseConnection(u)
    PROVE  EventFacts'
<1>1. PICK c : c = user[u].conn
  OBVIOUS
<1>2. /\ c \in Connections /\ broken' = broken \cup {c} /\ stream'[c] = <<>>
      /\ \A d \in Connections \ {c} : stream'[d] = stream[d]
      /\ \A v \in Users \ {u} : user'[v] = user[v]
      /\ user'[u].conn = 0 /\ ~ user'[u].caughtUp
      /\ user'[u].last = user[u].last /\ user'[u].seen = user[u].seen
      /\ user'[u].since = user[u].since
      /\ UNCHANGED <<clients, eventHistory, eventIdCounter, connections>>
  BY <1>1, LoseEffect
<1>3. user'[u].saved = (IF user[u].caughtUp THEN user[u].last ELSE user[u].saved)
  BY <1>1, LoseEffect
<1>4. /\ eventIdCounter \in Nat /\ connections \in Nat /\ c \in Nat \ {0}
      /\ \A v \in Users : user[v].conn # 0 => user[v].conn \in Connections
      /\ \A v \in Users : user[v].last \in Nat /\ user[v].saved \in Nat
  BY <1>2, EventTypes
<1>5. /\ \A v \in Users \ {u} : user[v].conn # c
      /\ c <= connections
  BY <1>1, <1>4 DEF EventFacts, OwnConnection
<1>6. Increasing(stream'[c]) /\ Range(stream'[c]) = {}
  <2>1. DOMAIN <<>> = {}
    OBVIOUS
  <2>. QED
    BY <1>2, <2>1 DEF Increasing, Range
<1>7. /\ user'[u].saved \in {user[u].last, user[u].saved}
      /\ ~ user[u].caughtUp => user'[u].saved = user[u].saved
      /\ user[u].caughtUp => user'[u].saved = user[u].last
  BY <1>3
<1>8. IdsGrow'
  <2>1. ASSUME NEW d \in Connections
        PROVE  /\ Increasing(stream'[d])
               /\ \A e \in Range(stream'[d]) : e <= eventIdCounter'
    <3>1. CASE d = c
      BY <1>6, <3>1
    <3>2. CASE d # c
      BY <1>2, <3>2 DEF EventFacts, IdsGrow
    <3>. QED
      BY <3>1, <3>2
  <2>2. ASSUME NEW v \in Users
        PROVE  /\ user'[v].last <= eventIdCounter' /\ user'[v].saved <= eventIdCounter'
               /\ user'[v].conn # 0 => \A e \in Range(stream'[user'[v].conn]) : user'[v].last < e
    <3>1. CASE v = u
      BY <1>2, <1>7, <3>1 DEF EventFacts, IdsGrow
    <3>2. CASE v # u
      <4>1. user'[v] = user[v]
        BY <1>2, <3>2
      <4>2. user[v].conn # 0 => stream'[user[v].conn] = stream[user[v].conn]
        BY <1>2, <1>4, <1>5, <3>2
      <4>. QED
        BY <1>2, <4>1, <4>2 DEF EventFacts, IdsGrow
    <3>. QED
      BY <3>1, <3>2
  <2>. QED
    BY <1>2, <2>1, <2>2 DEF EventFacts, IdsGrow
<1>9. OwnConnection'
  <2>1. \A d \in clients' \cup broken' : d <= connections'
    BY <1>2, <1>5 DEF EventFacts, OwnConnection
  <2>2. ASSUME NEW v \in Users
        PROVE  /\ user'[v].conn <= connections' /\ user'[v].conn \notin broken'
               /\ user'[v].conn = 0 => ~ user'[v].caughtUp
               /\ \A w \in Users : user'[w].conn = user'[v].conn /\ user'[v].conn # 0 => v = w
    <3>1. CASE v = u
      <4>1. 0 <= connections /\ 0 \notin broken
        BY <1>4, EventTypes DEF RealtimeTypeOK
      <4>. QED
        BY <1>2, <1>4, <3>1, <4>1
    <3>2. CASE v # u
      <4>1. user'[v] = user[v] /\ user[v].conn # c
        BY <1>2, <1>5, <3>2
      <4>2. \A w \in Users : user'[w].conn = user[w].conn \/ user'[w].conn = 0
        BY <1>2
      <4>. QED
        BY <1>2, <4>1, <4>2 DEF EventFacts, OwnConnection
    <3>. QED
      BY <3>1, <3>2
  <2>. QED
    BY <2>1, <2>2 DEF OwnConnection
<1>10. SavedSeen'
  <2> SUFFICES ASSUME NEW v \in Users, NEW e \in Range(eventHistory'),
                      user'[v].since < e, e <= user'[v].saved
               PROVE  e \in user'[v].seen
    BY DEF SavedSeen
  <2>1. CASE v # u
    BY <1>2, <2>1 DEF EventFacts, SavedSeen
  <2>2. CASE v = u /\ ~ user[u].caughtUp
    BY <1>2, <1>7, <2>2 DEF EventFacts, SavedSeen
  <2>3. CASE v = u /\ user[u].caughtUp
    <3>1. e <= user[u].last /\ user[u].since < e
      BY <1>2, <1>7, <2>3
    <3>2. e \in user[u].seen \cup Range(stream[c])
      BY <1>1, <1>2, <2>3, <3>1 DEF EventFacts, StillCaughtUp, Reaches
    <3>3. e \notin Range(stream[c])
      <4>1. ASSUME e \in Range(stream[c])
            PROVE  FALSE
        <5>1. user[u].last < e
          BY <1>1, <1>4, <4>1 DEF EventFacts, IdsGrow
        <5>2. user[u].last \in Nat /\ e \in Nat
          BY <1>2, EventTypes
        <5>. QED
          BY <3>1, <5>1, <5>2
      <4>. QED
        BY <4>1
    <3>. QED
      BY <1>2, <2>3, <3>2, <3>3
  <2>. QED
    BY <2>1, <2>2, <2>3
<1>11. StillCaughtUp'
  <2> SUFFICES ASSUME NEW v \in Users, user'[v].caughtUp, NEW e \in Range(eventHistory'),
                      user'[v].since < e, Reaches(v, e)'
               PROVE  e \in user'[v].seen \cup Range(stream'[user'[v].conn])
    BY DEF StillCaughtUp
  <2>1. v # u
    BY <1>2
  <2>2. user'[v] = user[v] /\ user[v].conn # c
    BY <1>2, <1>5, <2>1
  <2>3. user[v].conn # 0
    BY <2>2 DEF EventFacts, OwnConnection
  <2>4. stream'[user[v].conn] = stream[user[v].conn]
    BY <1>2, <1>4, <2>2, <2>3
  <2>5. Reaches(v, e)
    BY <1>2, <2>2, <2>4 DEF Reaches
  <2>. QED
    BY <1>2, <2>2, <2>4, <2>5 DEF EventFacts, StillCaughtUp
<1>12. FirstConnection'
  BY <1>2, <1>4, <1>1 DEF EventFacts, FirstConnection
<1>. QED
  BY <1>8, <1>9, <1>10, <1>11, <1>12 DEF EventFacts

\* Every step keeps what is known of events.
LEMMA EventStep ==
    ASSUME RealtimeAssumption, EventsInv, [RealtimeNext]_realtimeVars
    PROVE  EventsInv'
<1>. RealtimeTypeOK /\ EventFacts /\ Increasing(eventHistory)
  BY DEF EventsInv, EventFacts, FirstConnection, IdsGrow
<1>1. RealtimeTypeOK'
  BY TypeStep
<1>2. ASSUME NEW u \in Users,
             handleConnection(u) \/ receiveEvent(u) \/ fetchHistory(u) \/ loseConnection(u)
      PROVE  EventFacts'
  BY <1>2, ConnectStep, ReceiveStep, FetchStep, LoseStep
<1>3. ASSUME UNCHANGED <<eventIdCounter, connections, broken, stream, user>>,
             clients' \subseteq clients, eventHistory' \in {eventHistory, <<>>}
      PROVE  EventFacts'
  <2>1. Increasing(<<>>) /\ Range(<<>>) = {}
    <3>1. DOMAIN <<>> = {}
      OBVIOUS
    <3>. QED
      BY <3>1 DEF Increasing, Range
  <2>2. Increasing(eventHistory') /\ Range(eventHistory') \subseteq Range(eventHistory)
    <3>1. CASE eventHistory' = eventHistory
      BY <3>1
    <3>2. CASE eventHistory' = <<>>
      BY <2>1, <3>2
    <3>. QED
      BY <1>3, <3>1, <3>2
  <2>. QED
    BY <1>3, <2>2, QuietStep
<1>4. ASSUME NEW gone, DisconnectAll(gone)
      PROVE  clients' \subseteq clients
  BY <1>4 DEF DisconnectAll
<1>5. ASSUME NEW c \in Connections,
             \/ sseDisconnect(c)
             \/ \E ch \in AllChannels : subscribe(c, ch) \/ unsubscribe(c, ch)
      PROVE  EventFacts'
  BY <1>3, <1>4, <1>5 DEF sseDisconnect, subscribe, unsubscribe
<1>6. ASSUME close \/ beat
      PROVE  EventFacts'
  <2>1. /\ UNCHANGED <<eventIdCounter, connections, broken, stream, user>>
        /\ eventHistory' \in {eventHistory, <<>>}
    BY <1>6 DEF close, beat
  <2>2. clients' \subseteq clients
    BY <1>4, <1>6 DEF close, beat
  <2>. QED
    BY <1>3, <2>1, <2>2
<1>7. ASSUME NEW ch \in AllChannels, publish(ch)
      PROVE  EventFacts'
  <2>1. PICK id \in EventIds : id = eventIdCounter + 1
    BY <1>7 DEF publish, RealtimeTypeOK, EventIds
  <2>2. PICK receivers : receivers = channels[ch] \cap clients
    OBVIOUS
  <2>3. /\ eventIdCounter' = id /\ SendTo(receivers, id) /\ receivers \subseteq clients
        /\ UNCHANGED <<eventHistory, connections, broken, user>>
    BY <1>7, <2>1, <2>2 DEF publish
  <2>. QED
    BY <2>1, <2>3, DeliveryStep
<1>8. ASSUME sseBroadcast
      PROVE  EventFacts'
  <2>1. PICK id \in EventIds : id = eventIdCounter + 1
    BY <1>8 DEF sseBroadcast, RealtimeTypeOK, EventIds
  <2>2. /\ eventIdCounter' = id /\ SendTo(clients, id)
        /\ eventHistory' = Retained(Append(eventHistory, id))
        /\ UNCHANGED <<connections, broken, user>>
    BY <1>8, <2>1 DEF sseBroadcast
  <2>3. \A k \in Range(eventHistory) : k < id
    <3>1. \A k \in Range(eventHistory) : k <= eventIdCounter
      BY DEF EventFacts, IdsGrow
    <3>2. eventIdCounter \in Nat /\ \A k \in Range(eventHistory) : k \in Nat
      BY EventTypes
    <3>. QED
      BY <2>1, <3>1, <3>2
  <2>4. /\ Increasing(eventHistory')
        /\ Range(eventHistory') \subseteq Range(eventHistory) \cup {id}
    BY <2>2, <2>3, RetainedFacts
  <2>5. PICK receivers : receivers = clients
    OBVIOUS
  <2>6. /\ receivers \subseteq clients /\ SendTo(receivers, id)
        /\ Range(eventHistory') \subseteq
              Range(eventHistory) \cup {e \in {id} : receivers = clients}
    BY <2>2, <2>4, <2>5
  <2>. QED
    BY <2>1, <2>2, <2>4, <2>6, DeliveryStep
<1>9. ASSUME WsNext
      PROVE  EventFacts'
  <2>1. UNCHANGED sseVars
    BY <1>9 DEF WsNext, wsOpen, wsBreak, wsClose, wsSubscribe, wsUnsubscribe, wsPublish, wsBroadcast
  <2>2. UNCHANGED <<eventIdCounter, connections, broken, stream, user, clients, eventHistory>>
    BY <2>1 DEF sseVars
  <2>. QED
    BY <1>3, <2>2
<1>10. ASSUME UNCHANGED realtimeVars
       PROVE  EventFacts'
  <2>1. UNCHANGED <<eventIdCounter, connections, broken, stream, user, clients, eventHistory>>
    BY <1>10 DEF realtimeVars, sseVars
  <2>. QED
    BY <1>3, <2>1
<1>11. EventFacts'
  <2>1. CASE SseNext
    BY <1>2, <1>5, <1>6, <1>7, <1>8, <2>1 DEF SseNext
  <2>. QED
    BY <1>9, <1>10, <2>1 DEF RealtimeNext
<1>. QED
  BY <1>1, <1>11 DEF EventsInv, EventFacts, FirstConnection

\* Nobody is connected yet and nothing was sent.
LEMMA EventInit ==
    ASSUME RealtimeAssumption, RealtimeInit
    PROVE  RealtimeInv
<1>1. RealtimeTypeOK
  <2>1. <<>> \in Seq(EventIds) /\ Len(<<>>) = 0 /\ DOMAIN <<>> = {}
    OBVIOUS
  <2>2. /\ MaxConnections \in Nat /\ MaxEvents \in Nat /\ HistorySize \in Nat
        /\ 0 \in 0 .. MaxConnections /\ 0 \in 0 .. MaxEvents /\ 0 <= HistorySize
    BY DEF RealtimeAssumption
  <2>3. PICK x : x = [conn |-> 0, last |-> 0, saved |-> 0, caughtUp |-> FALSE,
                      since |-> 0, seen |-> {}]
    OBVIOUS
  <2>4. x \in User
    BY <2>2, <2>3 DEF User
  <2>5. user \in [Users -> User]
    BY <2>3, <2>4 DEF RealtimeInit
  <2>6. Range(<<>>) = {}
    BY <2>1 DEF Range
  <2>. QED
    BY <2>1, <2>2, <2>5, <2>6 DEF RealtimeInit, RealtimeTypeOK
<1>2. \A u \in Users : /\ user[u].conn = 0 /\ user[u].last = 0 /\ user[u].saved = 0
                       /\ user[u].since = 0 /\ ~ user[u].caughtUp
  BY DEF RealtimeInit
<1>3. /\ eventHistory = <<>> /\ eventIdCounter = 0 /\ connections = 0
      /\ clients = {} /\ broken = {} /\ \A c \in Connections : stream[c] = <<>>
  BY DEF RealtimeInit
<1>4. Increasing(<<>>) /\ Range(<<>>) = {}
  <2>1. DOMAIN <<>> = {}
    OBVIOUS
  <2>. QED
    BY <2>1 DEF Increasing, Range
<1>5. IdsGrow
  BY <1>2, <1>3, <1>4 DEF IdsGrow
<1>6. OwnConnection
  BY <1>2, <1>3 DEF OwnConnection
<1>7. SavedSeen /\ StillCaughtUp
  BY <1>2, <1>3, <1>4 DEF SavedSeen, StillCaughtUp
<1>8. HeartbeatWhileClients /\ WsClosedForgotten
  BY DEF RealtimeInit, HeartbeatWhileClients, WsClosedForgotten
<1>. QED
  BY <1>1, <1>2, <1>5, <1>6, <1>7, <1>8 DEF RealtimeInv, EventsInv

\* The inductive invariant of both managers and their clients.
THEOREM InductiveInvariant == RealtimeSpec => []RealtimeInv
<1>1. RealtimeInit => RealtimeInv
  BY EventInit, RealtimeAssumption
<1>2. RealtimeInv /\ [RealtimeNext]_realtimeVars => RealtimeInv'
  <2> SUFFICES ASSUME RealtimeInv, [RealtimeNext]_realtimeVars
               PROVE  RealtimeInv'
    OBVIOUS
  <2>1. EventsInv'
    BY EventStep, RealtimeAssumption DEF RealtimeInv
  <2>2. HeartbeatWhileClients'
    BY HeartbeatStep DEF RealtimeInv, EventsInv, RealtimeTypeOK, HeartbeatInv
  <2>3. WsClosedForgotten'
    BY ForgottenStep DEF RealtimeInv, EventsInv, RealtimeTypeOK, ForgottenInv
  <2>. QED
    BY <2>1, <2>2, <2>3 DEF RealtimeInv
<1>. QED
  BY <1>1, <1>2, PTL DEF RealtimeSpec

\* broadcast(), getHistory(), disconnect(), removeClient(): however often it lost its
\* connection, a user who is connected and has caught up misses no retained
\* event; the heartbeat runs while it is needed; closed sockets are forgotten.
THEOREM ClientsServedHolds == RealtimeSpec => []ClientsServed
<1>1. RealtimeInv => ClientsServed
  BY DEF RealtimeInv, EventsInv, StillCaughtUp, Reaches, ClientsServed, CaughtUp
<1>. QED
  BY <1>1, InductiveInvariant, PTL

=============================================================================
