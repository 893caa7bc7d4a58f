------------------------------ MODULE Sessions ------------------------------
(***************************************************************************)
(* The four session classes of system/core: Session (session.ts, "plain"), *)
(* MemorySession, FileSession and RedisSession, used by the requests of    *)
(* one client.  A request constructs its session, works on it and answers  *)
(* with the cookie.  An action is one call of the session, or one command  *)
(* of Redis: RedisSession sends without waiting, over one connection per   *)
(* server.                                                                 *)
(*                                                                         *)
(* Session data is the set of keys that have a value.  plain and memory    *)
(* keep the data object itself, so that requests share it; file and redis  *)
(* write a copy.                                                           *)
(***************************************************************************)
EXTENDS Naturals, SequencesExt

CONSTANTS
    Drivers,      \* the drivers to choose from
    Requests,     \* requests of the client
    WebServers,   \* servers that share the sessions; one, unless redis
    Keys,         \* keys of session data; flash() and getFlash() prefix theirs
    MaxIds,       \* bound: session ids ever generated
    MaxWire,      \* bound: commands of a server on their way
    MaxRejections \* bound: Redis commands that are rejected

ASSUME SessionsAssumption ==
    /\ Drivers \subseteq {"plain", "memory", "file", "redis"}
    /\ {MaxIds, MaxWire, MaxRejections} \subseteq Nat
    /\ Requests # {} /\ WebServers # {}

VARIABLES
    driver,     \* the class in use
    cookie,     \* the session id the client sends: 0 for none
    exists,     \* ids in the map, the directory or the store
    kept,       \* plain, memory: the data object in the map
    written,    \* file, redis: the data in the file or under the key
    unexpiring, \* redis: keys without an EXPIRE
    wire,       \* redis: commands each server sent
    request,    \* the session object of each request
    object,     \* the data objects
    generated,  \* ids generated so far
    rejections, \* rejected commands so far
    gone,       \* history: ids that destroy() or regenerateId() gave up
    final,      \* history: the data the last answered request ended with
    lost,       \* history: the data of an unsaved session was left behind
    disturbed   \* history: requests overlapped, a command was rejected or
                \* late, or a session expired

sessionVars == <<driver, cookie, exists, kept, written, unexpiring, wire, request, object,
                 generated, rejections, gone, final, lost, disturbed>>

storage == <<exists, kept, written, unexpiring>>

sessionHistory == <<final, lost, disturbed>>

Ids == 1 .. MaxIds

\* found: load() got data, which has __meta and so is never empty; moved: a new id
\* was taken and nothing saved.  A request's first data object, and the one destroy() makes.
Objects == Requests \X {"first", "second"}

SharesObjects == driver \in {"plain", "memory"}

Req == [pc : {"idle", "loading", "open", "waiting", "done"}, server : WebServers,
        id : 0 .. MaxIds, ref : Objects, found : BOOLEAN, isDirty : BOOLEAN, moved : BOOLEAN]

WireCommand == [op : {"get", "set", "expire", "del"}, id : Ids, data : SUBSET Keys,
            from : Requests, awaited : BOOLEAN]

SessionsTypeOK ==
    /\ driver \in Drivers
    /\ cookie \in 0 .. MaxIds
    /\ exists \subseteq Ids /\ unexpiring \subseteq exists
    /\ kept \in [Ids -> Objects]
    /\ written \in [Ids -> SUBSET Keys]
    /\ wire \in [WebServers -> Seq(WireCommand)]
    /\ request \in [Requests -> Req]
    /\ object \in [Objects -> SUBSET Keys]
    /\ generated \in 0 .. MaxIds
    /\ rejections \in 0 .. MaxRejections
    /\ gone \subseteq Ids
    /\ final \subseteq Keys
    /\ {lost, disturbed} \subseteq BOOLEAN

WithoutSession(r, pc) ==
    [pc |-> pc, server |-> CHOOSE s \in WebServers : TRUE, id |-> 0,
     ref |-> <<r, "first">>, found |-> FALSE, isDirty |-> FALSE, moved |-> FALSE]

SessionsInit ==
    /\ driver \in Drivers
    /\ cookie = 0
    /\ exists = {} /\ unexpiring = {}
    /\ kept = [id \in Ids |-> CHOOSE o \in Objects : TRUE]
    /\ written = [id \in Ids |-> {}]
    /\ wire = [s \in WebServers |-> <<>>]
    /\ request = [r \in Requests |-> WithoutSession(r, "idle")]
    /\ object = [o \in Objects |-> {}]
    /\ generated = 0
    /\ rejections = 0
    /\ gone = {}
    /\ final = {}
    /\ lost = FALSE
    /\ disturbed = FALSE

-----------------------------------------------------------------------------
(* Construction.                                                           *)

RequestPc(r) == request[r].pc

Open(r) == RequestPc(r) = "open"

DataOf(r) == object[request[r].ref]

\* crypto.randomUUID()
NewId == generated + 1

CanGenerate == generated < MaxIds

Busy == {r \in Requests : RequestPc(r) \notin {"idle", "done"}}

\* A request comes while another is in progress, or overtakes a command that
\* another server sent.
Overlaps(s) == Busy # {} \/ \E t \in WebServers \ {s} : wire[t] # <<>>

Begun(r, s, pc, id, ref) ==
    [request EXCEPT ![r] = [pc |-> pc, server |-> s, id |-> id, ref |-> ref,
                            found |-> FALSE, isDirty |-> FALSE, moved |-> FALSE]]

\* Session, MemorySession: the object in the map.
ConstructShared(r, s) ==
    IF cookie \in exists
    THEN /\ request' = Begun(r, s, "open", cookie, kept[cookie])
         /\ UNCHANGED <<object, generated, wire>>
    ELSE /\ CanGenerate
         /\ request' = Begun(r, s, "open", NewId, <<r, "first">>)
         /\ generated' = NewId
         /\ UNCHANGED <<object, wire>>

\* FileSession: readSessionFile() parses a copy.
ConstructFile(r, s) ==
    IF cookie \in exists
    THEN /\ request' = Begun(r, s, "open", cookie, <<r, "first">>)
         /\ object' = [object EXCEPT ![<<r, "first">>] = written[cookie]]
         /\ UNCHANGED <<generated, wire>>
    ELSE /\ CanGenerate
         /\ request' = Begun(r, s, "open", NewId, <<r, "first">>)
         /\ generated' = NewId
         /\ UNCHANGED <<object, wire>>

Cmd(op, id, data, r, awaited) ==
    [op |-> op, id |-> id, data |-> data, from |-> r, awaited |-> awaited]

Sent(r, cmds) == [wire EXCEPT ![request[r].server] = @ \o cmds]

Room(r, n) == Len(wire[request[r].server]) + n <= MaxWire

\* RedisSession and load(): the id is taken as it comes, then looked up.
ConstructRedis(r, s) ==
    LET id == IF cookie = 0 THEN NewId ELSE cookie IN
    /\ cookie = 0 => CanGenerate
    /\ Len(wire[s]) < MaxWire
    /\ request' = Begun(r, s, "loading", id, <<r, "first">>)
    /\ generated' = IF cookie = 0 THEN NewId ELSE generated
    /\ wire' = [wire EXCEPT ![s] = Append(@, Cmd("get", id, {}, r, TRUE))]
    /\ UNCHANGED object

createSession(r, s) ==
    /\ RequestPc(r) = "idle"
    /\ driver = "redis" \/ s = request[r].server
    /\ CASE SharesObjects -> ConstructShared(r, s)
         [] driver = "file" -> ConstructFile(r, s)
         [] driver = "redis" -> ConstructRedis(r, s)
    /\ disturbed' = (disturbed \/ Overlaps(s))
    /\ UNCHANGED <<driver, cookie, storage, rejections, gone, final, lost>>

-----------------------------------------------------------------------------
(* The calls of an open session.                                           *)

\* save() of r, when its data is d: what it does to the store; a clean session
\* is not saved, a plain one always.
SavePlain(r, id) ==
    /\ exists' = exists \cup {id}
    /\ kept' = [kept EXCEPT ![id] = request[r].ref]
    /\ UNCHANGED <<written, unexpiring, wire>>

SaveMemory(r, id, dirty) ==
    IF dirty THEN SavePlain(r, id) ELSE UNCHANGED <<storage, wire>>

SaveFile(r, id, dirty) ==
    IF dirty
    THEN /\ exists' = exists \cup {id}
         /\ written' = [written EXCEPT ![id] = DataOf(r)]
         /\ UNCHANGED <<kept, unexpiring, wire>>
    ELSE UNCHANGED <<storage, wire>>

\* saveAsync() is started and not awaited.
SaveRedis(r, id, dirty) ==
    /\ wire' = IF dirty THEN Sent(r, <<Cmd("set", id, DataOf(r), r, FALSE)>>) ELSE wire
    /\ UNCHANGED storage

SaveAs(r, id, dirty) ==
    CASE driver = "plain" -> SavePlain(r, id)
      [] driver = "memory" -> SaveMemory(r, id, dirty)
      [] driver = "file" -> SaveFile(r, id, dirty)
      [] driver = "redis" -> SaveRedis(r, id, dirty)

unchangedByCalls == <<driver, generated, rejections, cookie, gone, sessionHistory>>

\* set(), flash(), remove() and getFlash() change the data; Session saves at
\* once, the others keep in mind that they must.
Changed(r, data) ==
    /\ object' = [object EXCEPT ![request[r].ref] = data]
    /\ IF driver = "plain"
       THEN SavePlain(r, request[r].id) /\ UNCHANGED request
       ELSE /\ request' = [request EXCEPT ![r].isDirty = TRUE]
            /\ UNCHANGED <<storage, wire>>
    /\ UNCHANGED unchangedByCalls

\* Also flash().
sessionSet(r, key) == Open(r) /\ Changed(r, DataOf(r) \cup {key})

unset(r, key) == Open(r) /\ Changed(r, DataOf(r) \ {key})

\* Flash data is read once; where there is none nothing is saved.
getFlash(r, key) == key \in DataOf(r) /\ unset(r, key)

save(r) ==
    /\ Open(r) /\ request[r].isDirty /\ Room(r, 1)
    /\ SaveAs(r, request[r].id, TRUE)
    /\ request' = [request EXCEPT ![r].isDirty = FALSE, ![r].moved = FALSE]
    /\ UNCHANGED <<object, unchangedByCalls>>

\* What deleting the entry of id does, for a caller that does not wait.
Deleted(r, id) ==
    IF driver = "redis"
    THEN /\ wire' = Sent(r, <<Cmd("del", id, {}, r, FALSE)>>)
         /\ UNCHANGED storage
    ELSE /\ exists' = exists \ {id}
         /\ UNCHANGED <<kept, written, unexpiring, wire>>

\* The session of r starts anew, empty, under a new id.
Emptied(r) ==
    /\ object' = [object EXCEPT ![<<r, "second">>] = {}]
    /\ request' = [request EXCEPT ![r].ref = <<r, "second">>, ![r].id = NewId,
                                  ![r].isDirty = FALSE, ![r].pc = "open", ![r].moved = FALSE,
                                  ![r].found = FALSE]
    /\ generated' = NewId
    /\ gone' = gone \cup {request[r].id}

destroy(r) ==
    /\ Open(r) /\ CanGenerate /\ Room(r, 1)
    /\ Deleted(r, request[r].id)
    /\ Emptied(r)
    /\ UNCHANGED <<driver, rejections, cookie, sessionHistory>>

\* Redis only: the reset waits for the answer.
destroyAsync(r) ==
    /\ driver = "redis" /\ Open(r) /\ CanGenerate /\ Room(r, 1)
    /\ wire' = Sent(r, <<Cmd("del", request[r].id, {}, r, TRUE)>>)
    /\ request' = [request EXCEPT ![r].pc = "waiting"]
    /\ UNCHANGED <<object, storage, unchangedByCalls>>

\* The entry goes, and save() writes the data under a new id: always in Session
\* and RedisSession, where the data is dirty in MemorySession and FileSession.
MovesAlways == driver \in {"plain", "redis"}

\* Variant: the old entry is not deleted.
regenerateKeeps(r) ==
    LET dirty == MovesAlways \/ request[r].isDirty IN
    /\ ~ MovesAlways /\ Open(r) /\ CanGenerate
    /\ exists' = exists \cup (IF dirty THEN {NewId} ELSE {})
    /\ kept' = IF SharesObjects /\ dirty THEN [kept EXCEPT ![NewId] = request[r].ref] ELSE kept
    /\ written' = IF driver = "file" /\ dirty THEN [written EXCEPT ![NewId] = DataOf(r)]
                  ELSE written
    /\ request' = [request EXCEPT ![r].id = NewId, ![r].isDirty = FALSE, ![r].moved = ~ dirty]
    /\ generated' = NewId
    /\ gone' = gone \cup {request[r].id}
    /\ UNCHANGED <<driver, rejections, cookie, object, wire, unexpiring, sessionHistory>>

regenerateId(r) ==
    LET dirty == MovesAlways \/ request[r].isDirty
        old == request[r].id
    IN
    /\ Open(r) /\ CanGenerate /\ Room(r, 2)
    /\ exists' = (IF driver = "redis" THEN exists ELSE exists \ {old})
                   \cup (IF dirty /\ driver # "redis" THEN {NewId} ELSE {})
    /\ kept' = IF SharesObjects /\ dirty THEN [kept EXCEPT ![NewId] = request[r].ref] ELSE kept
    /\ written' = IF driver = "file" /\ dirty THEN [written EXCEPT ![NewId] = DataOf(r)]
                  ELSE written
    /\ wire' = IF driver = "redis"
               THEN Sent(r, <<Cmd("del", old, {}, r, FALSE),
                              Cmd("set", NewId, DataOf(r), r, FALSE)>>)
               ELSE wire
    /\ request' = [request EXCEPT ![r].id = NewId, ![r].isDirty = FALSE, ![r].moved = ~ dirty]
    /\ generated' = NewId
    /\ gone' = gone \cup {old}
    /\ UNCHANGED <<driver, rejections, cookie, object, unexpiring, sessionHistory>>

\* The client gets the cookie; nothing refers to the session object any more.
Answered(r) ==
    /\ request' = [request EXCEPT ![r] = WithoutSession(r, "done")]
    /\ object' = IF SharesObjects THEN object
                 ELSE [o \in Objects |-> IF o[1] = r THEN {} ELSE object[o]]
    /\ cookie' = request[r].id
    /\ final' = DataOf(r)
    /\ lost' = (lost \/ (request[r].moved /\ ~ request[r].isDirty /\ DataOf(r) # {}))

getCookieHeader(r) ==
    /\ Open(r) /\ Room(r, 1)
    /\ SaveAs(r, request[r].id, request[r].isDirty)
    /\ Answered(r)
    /\ UNCHANGED <<driver, generated, rejections, gone, disturbed>>

\* Redis only: saveAsync() writes clean data too, unless it is empty.
getCookieHeaderAsync(r) ==
    /\ driver = "redis" /\ Open(r) /\ Room(r, 1)
    /\ IF request[r].isDirty \/ DataOf(r) # {} \/ request[r].found
       THEN /\ wire' = Sent(r, <<Cmd("set", request[r].id, DataOf(r), r, TRUE)>>)
            /\ request' = [request EXCEPT ![r].pc = "waiting"]
            /\ UNCHANGED <<cookie, object, final, lost>>
       ELSE Answered(r) /\ UNCHANGED wire
    /\ UNCHANGED <<driver, storage, generated, rejections, gone, disturbed>>

-----------------------------------------------------------------------------
(* The store.                                                              *)

Rest(s) == [wire EXCEPT ![s] = Tail(@)]

\* GET, and load() to its end: an id Redis does not know is replaced.
loaded(s, cmd) ==
    LET r == cmd.from
        found == cmd.id \in exists
    IN
    /\ cmd.op = "get" /\ (found \/ CanGenerate)
    /\ object' = [object EXCEPT ![<<r, "first">>] = IF found THEN written[cmd.id] ELSE {}]
    /\ request' = [request EXCEPT ![r].pc = "open", ![r].id = IF found THEN cmd.id ELSE NewId,
                                  ![r].found = found]
    /\ generated' = IF found THEN generated ELSE NewId
    /\ wire' = Rest(s)
    /\ UNCHANGED <<storage, cookie, gone, final, lost>>

\* SET; its answer makes saveAsync() send the EXPIRE.
stored(s, cmd) ==
    /\ cmd.op = "set"
    /\ exists' = exists \cup {cmd.id}
    /\ written' = [written EXCEPT ![cmd.id] = cmd.data]
    /\ unexpiring' = unexpiring \cup {cmd.id}
    /\ wire' = [wire EXCEPT ![s] = Append(Tail(@), [cmd EXCEPT !.op = "expire", !.data = {}])]
    /\ UNCHANGED <<kept, cookie, request, object, generated, gone, final, lost>>

expireSet(s, cmd) ==
    /\ cmd.op = "expire"
    /\ unexpiring' = unexpiring \ {cmd.id}
    /\ wire' = Rest(s)
    /\ IF cmd.awaited THEN Answered(cmd.from)
       ELSE UNCHANGED <<request, object, cookie, final, lost>>
    /\ UNCHANGED <<exists, kept, written, generated, gone>>

deleted(s, cmd) ==
    /\ cmd.op = "del"
    /\ exists' = exists \ {cmd.id}
    /\ unexpiring' = unexpiring \ {cmd.id}
    /\ wire' = Rest(s)
    /\ IF cmd.awaited THEN CanGenerate /\ Emptied(cmd.from)
       ELSE UNCHANGED <<request, object, generated, gone>>
    /\ UNCHANGED <<kept, written, cookie, final, lost>>

redisExecutes(s) ==
    /\ wire[s] # <<>>
    /\ LET cmd == Head(wire[s]) IN
       loaded(s, cmd) \/ stored(s, cmd) \/ expireSet(s, cmd) \/ deleted(s, cmd)
    /\ UNCHANGED <<driver, rejections, disturbed>>

\* A command is rejected: load() goes on with no data and the id it has, what
\* was fired and forgotten is logged, what was awaited throws.
redisRejects(s) ==
    LET cmd == Head(wire[s]) IN
    /\ wire[s] # <<>> /\ rejections < MaxRejections
    /\ rejections' = rejections + 1
    /\ wire' = Rest(s)
    /\ request' = IF cmd.awaited THEN [request EXCEPT ![cmd.from].pc = "open"] ELSE request
    /\ disturbed' = TRUE
    /\ UNCHANGED <<driver, cookie, storage, object, generated, gone, final, lost>>

\* FileSession.gc(), or the end of a key's time in Redis.
expires(id) ==
    /\ driver \in {"file", "redis"}
    /\ id \in exists \ unexpiring
    /\ exists' = exists \ {id}
    /\ disturbed' = TRUE
    /\ UNCHANGED <<driver, cookie, kept, written, unexpiring, wire, request, object,
                   generated, rejections, gone, final, lost>>

\* MemorySession.flush(), RedisSession.flush(): every session at once.
sessionFlush ==
    /\ driver \in {"memory", "redis"} /\ exists # {}
    /\ exists' = {} /\ unexpiring' = {}
    /\ disturbed' = TRUE
    /\ UNCHANGED <<driver, cookie, kept, written, wire, request, object, generated,
                   rejections, gone, final, lost>>

SessionsNext ==
    \/ \E r \in Requests :
          \/ \E s \in WebServers : createSession(r, s)
          \/ \E key \in Keys : sessionSet(r, key) \/ unset(r, key) \/ getFlash(r, key)
          \/ save(r)
          \/ destroy(r)
          \/ destroyAsync(r)
          \/ regenerateId(r)
          \/ getCookieHeader(r)
          \/ getCookieHeaderAsync(r)
    \/ \E s \in WebServers : redisExecutes(s) \/ redisRejects(s)
    \/ \E id \in Ids : expires(id)
    \/ sessionFlush

SessionsSpec == SessionsInit /\ [][SessionsNext]_sessionVars

-----------------------------------------------------------------------------
(* Properties.                                                             *)

Quiet == Busy = {} /\ \A s \in WebServers : wire[s] = <<>>

Stored(id) == IF id \notin exists THEN {}
              ELSE IF SharesObjects THEN object[kept[id]] ELSE written[id]

\* The constructors, save(), regenerateId(), destroy(), getCookieHeader(): what
\* requests one after the other do to the session, in any order of calls, the
\* next request finds under the cookie: exactly the data the last one ended
\* with, unless it left unsaved data behind when it took a new id.
SessionContinues ==
    Quiet /\ ~ disturbed /\ ~ lost => Stored(cookie) = final

\* regenerateId() of MemorySession is said to move the data to the new id, and the one of
\* FileSession to keep it: the next request finds it there even if the session was not
\* changed before its id was.
DataMoves ==
    Quiet /\ ~ disturbed => Stored(cookie) = final

\* destroy(), regenerateId(): an id that was given up stays out of the store;
\* only overlapping requests, late or rejected commands can bring it back.
GoneStaysGone ==
    Quiet /\ ~ disturbed => gone \cap exists = {}

\* Session, MemorySession: requests with the same id work on one data object,
\* the one in the map, so that no update of a concurrent request is lost.
NoLostUpdate ==
    SharesObjects =>
       \A q \in Busy, r \in Busy :
          request[q].id = request[r].id =>
             /\ request[q].ref = request[r].ref
             /\ request[q].id \in exists => kept[request[q].id] = request[q].ref

\* What a client may rely on from one request to the next.
SessionsKept == SessionContinues /\ GoneStaysGone /\ NoLostUpdate

-----------------------------------------------------------------------------
(* The inductive invariant behind SessionsKept.                            *)

\* What was generated is known; only Redis has commands on their way; a data object
\* belongs to a request that has begun.
IdsKnown ==
    /\ exists \cup gone \cup {cookie} \subseteq 0 .. generated
    /\ \A r \in Busy : request[r].id \in 1 .. generated
    /\ \A r \in Requests : RequestPc(r) = "idle" => object[<<r, "first">>] = {}
    /\ driver # "redis" =>
          /\ unexpiring = {} /\ \A s \in WebServers : wire[s] = <<>>
          /\ \A r \in Busy : Open(r)
    /\ \A r \in Busy :
          /\ request[r].moved => driver \in {"memory", "file"}
          /\ ~ SharesObjects => request[r].ref[1] = r
          /\ RequestPc(request[r].ref[1]) # "idle"
    /\ SharesObjects => \A id \in exists : RequestPc(kept[id][1]) # "idle"

\* A request waits for one command, which its own server sent.
CommandsAwaited ==
    \A s \in WebServers : \A i \in DOMAIN wire[s] :
       /\ wire[s][i].id <= generated
       /\ wire[s][i].op = "get" => wire[s][i].awaited
       /\ wire[s][i].awaited =>
             /\ request[wire[s][i].from].server = s
             /\ wire[s][i].op = "get" <=> RequestPc(wire[s][i].from) = "loading"
             /\ RequestPc(wire[s][i].from) \in {"loading", "waiting"}
             /\ \A j \in DOMAIN wire[s] :
                   wire[s][j].awaited /\ wire[s][j].from = wire[s][i].from => i = j

\* Requests come one after the other, and what one left on its way arrives before
\* what the next one sends.
OneByOne ==
    /\ \A q \in Busy, r \in Busy : q = r
    /\ \A s \in WebServers, t \in WebServers : wire[s] # <<>> /\ wire[t] # <<>> => s = t
    /\ \A r \in Busy, s \in WebServers : wire[s] # <<>> => s = request[r].server

Alters(cmd, id) == cmd.op \in {"set", "del"} /\ cmd.id = id

Pending(id) == \E s \in WebServers : \E i \in DOMAIN wire[s] : Alters(wire[s][i], id)

\* The command that decides what becomes of an id.
Decides(s, i, id) ==
    Alters(wire[s][i], id) /\ \A j \in DOMAIN wire[s] : i < j => ~ Alters(wire[s][j], id)

\* What the store has under an id when all that is on its way has arrived.
WillHold(id, data) ==
    /\ ~ Pending(id) => Stored(id) = data
    /\ \A s \in WebServers : \A i \in DOMAIN wire[s] : Decides(s, i, id) =>
          /\ wire[s][i].op = "set" => wire[s][i].data = data
          /\ wire[s][i].op = "del" => data = {}

WillBeGone(id) ==
    /\ ~ Pending(id) => id \notin exists
    /\ \A s \in WebServers : \A i \in DOMAIN wire[s] : Decides(s, i, id) => wire[s][i].op = "del"

\* A request that changes nothing more is stored as it is.
RequestStored ==
    \A r \in Busy :
       /\ request[r].id \notin gone
       /\ Open(r) /\ ~ request[r].isDirty /\ driver # "plain" =>
             /\ request[r].moved => request[r].id \notin exists
             /\ ~ request[r].moved => WillHold(request[r].id, DataOf(r))

\* What a request waits for is the last thing its server sent but for EXPIRE.
LastAwaited ==
    \A s \in WebServers : \A i \in DOMAIN wire[s] :
       LET cmd == wire[s][i]
           r == cmd.from
       IN cmd.awaited =>
             /\ cmd.id = request[r].id
             /\ \A j \in DOMAIN wire[s] : i < j => wire[s][j].op = "expire"
             /\ cmd.op = "get" => request[r].ref = <<r, "first">>
             /\ cmd.op \in {"set", "expire"} => WillHold(request[r].id, DataOf(r))

Calm ==
    /\ OneByOne /\ RequestStored /\ LastAwaited
    /\ Busy = {} => cookie \notin gone /\ (~ lost => WillHold(cookie, final))
    /\ \A id \in gone : WillBeGone(id)

SessionsInv ==
    /\ SessionsTypeOK /\ IdsKnown /\ CommandsAwaited /\ NoLostUpdate
    /\ ~ disturbed => Calm

=============================================================================
