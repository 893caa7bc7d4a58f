------------------------------- MODULE Cache -------------------------------
(***************************************************************************)
(* The cache (cache.ts, redis_cache.ts) and the application around it:     *)
(* callers remember what a source holds, change the source and forget the  *)
(* entry.  The memory and the file driver run a call without interruption; *)
(* RedisCacheDriver sends one command at a time, and every action of it is *)
(* one command.  A value is the version of the source it was computed from.*)
(***************************************************************************)
EXTENDS Naturals, SequencesExt

CONSTANTS
    CacheDrivers,  \* the drivers to choose from
    Callers,       \* concurrent callers of the Cache
    CacheKeys,
    HashOf,        \* FileCacheDriver.hashKey(): the file of each key
    Ttls,          \* ttl arguments, in seconds; 0 is what forever() passes
    MaxVersion,    \* bound: changes of the source
    MaxPuts,       \* bound: entries ever stored
    MaxCacheClock  \* bound: last instant

ASSUME CacheAssumption ==
    /\ CacheDrivers \subseteq {"memory", "file", "redis"}
    /\ Ttls \subseteq Nat /\ Ttls # {}
    /\ DOMAIN HashOf = CacheKeys
    /\ {MaxVersion, MaxPuts, MaxCacheClock} \subseteq Nat

VARIABLES
    cacheDriver,
    cacheClock, \* Date.now(), in the unit of the ttls; it is never 0
    store,      \* the entries, by the place each is kept at
    caller,     \* the call each caller is in
    source,     \* the version of the data behind each key
    puts,       \* entries stored so far
    cleared,    \* history: entries up to this one were forgotten under the key
    overlapped  \* history: keys forgotten while an older value was to be stored

cacheVars == <<cacheDriver, cacheClock, store, caller, source, puts, cleared, overlapped>>

\* Two keys with one hash share a file.
Place(key) == IF cacheDriver = "file" THEN HashOf[key] ELSE key

Places == CacheKeys \cup Range(HashOf)

\* expiration 0 is null: never.
CacheEntry == [key : CacheKeys, version : 0 .. MaxVersion, put : 1 .. MaxPuts, expiration : Nat]

IdleCaller == [pc |-> "idle"]

InCall == [pc : {"calling", "storing", "changed", "dropping", "renewing", "clearing", "pulling"},
           key : CacheKeys, ttl : Ttls, version : 0 .. MaxVersion, since : Nat,
           keys : SUBSET CacheKeys]

CacheTypeOK ==
    /\ cacheDriver \in CacheDrivers
    /\ cacheClock \in Nat \ {0}
    /\ DOMAIN store \subseteq Places /\ store \in [DOMAIN store -> CacheEntry]
    /\ caller \in [Callers -> {IdleCaller} \cup InCall]
    /\ source \in [CacheKeys -> 0 .. MaxVersion]
    /\ puts \in 0 .. MaxPuts
    /\ cleared \in [CacheKeys -> 0 .. MaxPuts]
    /\ overlapped \subseteq CacheKeys

CacheInit ==
    /\ cacheDriver \in CacheDrivers
    /\ cacheClock = 1
    /\ store = <<>>
    /\ caller = [c \in Callers |-> IdleCaller]
    /\ source = [k \in CacheKeys |-> 0]
    /\ puts = 0
    /\ cleared = [k \in CacheKeys |-> 0]
    /\ overlapped = {}

-----------------------------------------------------------------------------
(* Helpers.                                                                *)

Redis == cacheDriver = "redis"

Holds(key) == Place(key) \in DOMAIN store

Without(places) == Restrict(store, DOMAIN store \ places)

Lapsed(entry) == entry.expiration # 0 /\ entry.expiration < cacheClock

\* get() of what is kept for the key.
Hit(key) == Holds(key) /\ ~ Lapsed(store[Place(key)])

\* The expiration that set() computes: an entry that lasts for ever has ttl 0,
\* which Redis keeps without one and the other drivers until this very moment.
ExpirationOf(ttl) == IF Redis /\ ttl = 0 THEN 0 ELSE cacheClock + ttl

Storing(key, version, ttl) ==
    /\ puts < MaxPuts
    /\ puts' = puts + 1
    /\ store' = [p \in DOMAIN store \cup {Place(key)} |->
                    IF p = Place(key)
                    THEN [key |-> key, version |-> version, put |-> puts + 1,
                          expiration |-> ExpirationOf(ttl)]
                    ELSE store[p]]

Entered(c, pc, key, ttl, version) ==
    [caller EXCEPT ![c] = [pc |-> pc, key |-> key, ttl |-> ttl, version |-> version,
                           since |-> puts, keys |-> {}]]

Back(c) == [caller EXCEPT ![c] = IdleCaller]

At(c, pc) == caller[c].pc = pc

AnyTtl == CHOOSE t \in Ttls : TRUE

\* What forgetting the key, up to entry n, leaves in the history.
Forgotten(key, n) ==
    /\ cleared' = [cleared EXCEPT ![key] = IF n > @ THEN n ELSE @]
    /\ overlapped' =
          IF \E c \in Callers : /\ At(c, "storing") /\ caller[c].key = key
                                /\ caller[c].version < source[key]
          THEN overlapped \cup {key} ELSE overlapped \ {key}

cacheHistory == <<cleared, overlapped>>

-----------------------------------------------------------------------------
(* Reading.                                                                *)

\* get() and has(): a lapsed entry is deleted, in Redis by a second command.
cacheGet(c, key) ==
    /\ At(c, "idle")
    /\ Holds(key) /\ ~ Hit(key)
    /\ IF Redis
       THEN caller' = Entered(c, "dropping", key, AnyTtl, 0) /\ UNCHANGED store
       ELSE store' = Without({Place(key)}) /\ UNCHANGED caller
    /\ UNCHANGED <<cacheDriver, cacheClock, source, puts, cacheHistory>>

\* remember() finds nothing and calls its callback; rememberForever() has ttl 0.
remember(c, key, ttl) ==
    /\ At(c, "idle")
    /\ ~ Hit(key)
    /\ store' = IF Redis THEN store ELSE Without({Place(key)})
    /\ caller' = Entered(c, IF Redis /\ Holds(key) THEN "renewing" ELSE "calling", key, ttl, 0)
    /\ UNCHANGED <<cacheDriver, cacheClock, source, puts, cacheHistory>>

\* The callback read the source; its result is to be stored.
called(c) ==
    /\ At(c, "calling")
    /\ caller' = [caller EXCEPT ![c].pc = "storing", ![c].version = source[caller[c].key]]
    /\ UNCHANGED <<cacheDriver, cacheClock, store, source, puts, cacheHistory>>

cacheSet(c) ==
    /\ At(c, "storing")
    /\ Storing(caller[c].key, caller[c].version, caller[c].ttl)
    /\ caller' = Back(c)
    /\ UNCHANGED <<cacheDriver, cacheClock, source, cacheHistory>>

\* put() and forever() with a value that is current.
put(c, key, ttl) ==
    /\ At(c, "idle")
    /\ IF Redis
       THEN /\ caller' = Entered(c, "storing", key, ttl, source[key])
            /\ UNCHANGED <<store, puts>>
       ELSE Storing(key, source[key], ttl) /\ UNCHANGED caller
    /\ UNCHANGED <<cacheDriver, cacheClock, source, cacheHistory>>

-----------------------------------------------------------------------------
(* Forgetting.                                                             *)

\* The application changes the source; it will call forget() next.
change(c, key) ==
    /\ At(c, "idle")
    /\ source[key] < MaxVersion
    /\ source' = [source EXCEPT ![key] = @ + 1]
    /\ caller' = Entered(c, "changed", key, AnyTtl, 0)
    /\ UNCHANGED <<cacheDriver, cacheClock, store, puts, cacheHistory>>

\* Variant: in Redis the entry is looked for and left there.
forgetAsked(c) ==
    LET key == caller[c].key IN
    /\ At(c, "changed")
    /\ store' = IF Redis THEN store ELSE Without({Place(key)})
    /\ Forgotten(key, puts)
    /\ caller' = Back(c)
    /\ UNCHANGED <<cacheDriver, cacheClock, source, puts>>

\* forget(); Redis is asked whether there is an entry first.
forget(c) ==
    LET key == caller[c].key IN
    /\ At(c, "changed")
    /\ IF Redis /\ Holds(key)
       THEN /\ caller' = [caller EXCEPT ![c].pc = "clearing", ![c].keys = {key},
                                        ![c].since = puts]
            /\ UNCHANGED <<store, cacheHistory>>
       ELSE /\ store' = Without({Place(key)})
            /\ Forgotten(key, puts)
            /\ caller' = Back(c)
    /\ UNCHANGED <<cacheDriver, cacheClock, source, puts>>

\* pull(); in Redis the value is read, then looked for again, then deleted.
pull(c, key) ==
    /\ At(c, "idle")
    /\ Hit(key)
    /\ IF Redis
       THEN caller' = Entered(c, "pulling", key, AnyTtl, 0) /\ UNCHANGED <<store, cacheHistory>>
       ELSE /\ store' = Without({Place(key)})
            /\ Forgotten(key, puts)
            /\ UNCHANGED caller
    /\ UNCHANGED <<cacheDriver, cacheClock, source, puts>>

\* flush(); in Redis the keys are listed, then deleted one by one.
cacheFlush(c) ==
    /\ At(c, "idle")
    /\ store # <<>>
    /\ IF Redis
       THEN /\ caller' = [caller EXCEPT ![c] =
                  [pc |-> "clearing", key |-> CHOOSE k \in CacheKeys : TRUE, ttl |-> AnyTtl,
                   version |-> 0, since |-> puts, keys |-> DOMAIN store]]
            /\ UNCHANGED <<store, cacheHistory>>
       ELSE /\ store' = <<>>
            /\ cleared' = [k \in CacheKeys |-> puts]
            /\ UNCHANGED <<caller, overlapped>>
    /\ UNCHANGED <<cacheDriver, cacheClock, source, puts>>

\* The commands that follow in Redis: EXISTS of pull(), the DEL of a lapsed entry,
\* and one DEL of flush(), forget() or pull().
pulled(c) ==
    /\ At(c, "pulling")
    /\ caller' = IF Holds(caller[c].key)
                 THEN [caller EXCEPT ![c].pc = "clearing", ![c].keys = {caller[c].key}]
                 ELSE Back(c)
    /\ UNCHANGED <<cacheDriver, cacheClock, store, source, puts, cacheHistory>>

dropped(c) ==
    /\ At(c, "dropping") \/ At(c, "renewing")
    /\ store' = Without({caller[c].key})
    /\ caller' = IF At(c, "dropping") THEN Back(c) ELSE [caller EXCEPT ![c].pc = "calling"]
    /\ UNCHANGED <<cacheDriver, cacheClock, source, puts, cacheHistory>>

del(c, key) ==
    /\ At(c, "clearing")
    /\ key \in caller[c].keys
    /\ store' = Without({key})
    /\ Forgotten(key, caller[c].since)
    /\ caller' = IF caller[c].keys = {key} THEN Back(c)
                 ELSE [caller EXCEPT ![c].keys = @ \ {key}]
    /\ UNCHANGED <<cacheDriver, cacheClock, source, puts>>

\* gc() of the memory and the file driver; Redis lets an entry go when its time,
\* which it counts from the SET, is over.
gc ==
    LET lapsed == {p \in DOMAIN store : Lapsed(store[p])} IN
    /\ lapsed # {}
    /\ \E gone \in IF Redis THEN (SUBSET lapsed) \ {{}} ELSE {lapsed} : store' = Without(gone)
    /\ UNCHANGED <<cacheDriver, cacheClock, caller, source, puts, cacheHistory>>

\* configure() drops the driver: what it kept in memory is gone.
configure ==
    /\ cacheDriver = "memory" /\ store # <<>>
    /\ store' = <<>>
    /\ UNCHANGED <<cacheDriver, cacheClock, caller, source, puts, cacheHistory>>

passCacheTime ==
    /\ cacheClock < MaxCacheClock
    /\ cacheClock' = cacheClock + 1
    /\ UNCHANGED <<cacheDriver, store, caller, source, puts, cacheHistory>>

CacheNext ==
    \/ \E c \in Callers :
          \/ \E key \in CacheKeys :
                \/ cacheGet(c, key) \/ pull(c, key) \/ change(c, key) \/ del(c, key)
                \/ \E ttl \in Ttls : remember(c, key, ttl) \/ put(c, key, ttl)
          \/ called(c) \/ cacheSet(c) \/ forget(c) \/ cacheFlush(c) \/ pulled(c) \/ dropped(c)
    \/ gc \/ configure \/ passCacheTime

CacheSpec == CacheInit /\ [][CacheNext]_cacheVars

-----------------------------------------------------------------------------
(* Properties.                                                             *)

\* The key is to be forgotten, or was while a caller was about to store an older value.
Forgets(c, key) ==
    \/ At(c, "changed") /\ caller[c].key = key
    \/ At(c, "clearing") /\ key \in caller[c].keys

Excused(key) == key \in overlapped \/ \E c \in Callers : Forgets(c, key)

\* remember(), forget(): once whoever changed the source has called forget(), no
\* entry holds an older version, unless the key was forgotten while a caller was
\* still about to store one.
StaleOnlyByOverlap ==
    \A p \in DOMAIN store :
       store[p].version < source[store[p].key] => Excused(store[p].key)

\* forgetAsync(), pullAsync(), flushAsync() and their synchronous forms: when the
\* call has ended, every entry that was there when it began is gone, whatever
\* other callers did between its commands.
ForgottenGone ==
    \A p \in DOMAIN store : store[p].put > cleared[store[p].key]

\* An application that changes, forgets and remembers reads no old value.
CacheFresh == StaleOnlyByOverlap /\ ForgottenGone

-----------------------------------------------------------------------------
(* The inductive invariant behind CacheFresh.                              *)

\* An entry is kept where its key is looked for.
InPlace == \A p \in DOMAIN store : Place(store[p].key) = p

\* A value read before the source changed is stored only while that excuses it.
StaleToStore ==
    \A c \in Callers :
       At(c, "storing") /\ caller[c].version < source[caller[c].key] => Excused(caller[c].key)

\* Only Redis lets others in between the commands of a call that deletes; what
\* such a call found was there before it.
InSteps ==
    \A c \in Callers :
       /\ At(c, "clearing") \/ At(c, "pulling") => Redis
       /\ ~ At(c, "idle") => caller[c].since <= puts

\* Nothing that is still to come has been forgotten.
CacheInv ==
    /\ CacheTypeOK /\ InPlace /\ StaleToStore /\ InSteps
    /\ \A key \in CacheKeys : cleared[key] <= puts
    /\ StaleOnlyByOverlap /\ ForgottenGone

=============================================================================
