--------------------------- MODULE RequestsProofs ---------------------------
(***************************************************************************)
(* The cache, for any number of callers, keys and times to live and with   *)
(* any of the drivers: an application that changes, forgets and remembers  *)
(* reads no old value from it, and what was forgotten is gone.  Uploads,   *)
(* for any number of requests, forms and options: what a result told of is *)
(* stored until somebody deletes or replaces it.  The pipeline, for any    *)
(* routes, limits and browsers: what a handler gets its middlewares let    *)
(* pass, no more of it within a window than the limits allow, and with the *)
(* token of its own form.  Sessions, for any number of requests, servers   *)
(* and keys and with any of the drivers: a request finds what the last one *)
(* ended with, and an id that was given up is not in the store.            *)
(***************************************************************************)
EXTENDS Cache, Uploads, RequestPipeline, Sessions, SeqLemmas

Calls == {IdleCaller} \cup InCall

Steps == {"calling", "storing", "changed", "dropping", "renewing", "clearing", "pulling"}

\* Who is not idle is in a call, with its arguments.
LEMMA CallOf ==
    ASSUME CacheTypeOK, NEW c \in Callers, ~ At(c, "idle")
    PROVE  /\ caller[c] \in InCall /\ caller[c].key \in CacheKeys
           /\ caller[c].version \in 0 .. MaxVersion /\ caller[c].since \in Nat
           /\ caller[c].keys \in SUBSET CacheKeys /\ caller[c].ttl \in Ttls
<1>1. caller[c] \in InCall
  BY DEF CacheTypeOK, At, IdleCaller
<1>. QED
  BY <1>1 DEF InCall

\* A caller enters a call, goes on in it and leaves it; the others stay where they are.
LEMMA EnteredFacts ==
    ASSUME caller \in [Callers -> Calls], puts \in Nat, NEW c \in Callers, NEW pc \in Steps,
           NEW key \in CacheKeys, NEW ttl \in Ttls, NEW version \in 0 .. MaxVersion,
           caller' = Entered(c, pc, key, ttl, version)
    PROVE  /\ caller' \in [Callers -> Calls] /\ \A d \in Callers \ {c} : caller'[d] = caller[d]
           /\ caller'[c].pc = pc /\ caller'[c].key = key /\ caller'[c].version = version
           /\ caller'[c].since = puts
  BY DEF Entered, Calls, InCall, Steps

\* It goes on in its call.
LEMMA MovedFacts ==
    ASSUME caller \in [Callers -> Calls], NEW c \in Callers, caller[c] \in InCall,
           NEW pc \in Steps, caller' = [caller EXCEPT ![c].pc = pc]
    PROVE  /\ caller' \in [Callers -> Calls] /\ \A d \in Callers \ {c} : caller'[d] = caller[d]
           /\ caller'[c].pc = pc /\ caller'[c].key = caller[c].key
           /\ caller'[c].since = caller[c].since
  BY DEF Calls, InCall, Steps

\* It is through with it.
LEMMA BackFacts ==
    ASSUME caller \in [Callers -> Calls], NEW c \in Callers, caller' = Back(c)
    PROVE  /\ caller' \in [Callers -> Calls] /\ \A d \in Callers \ {c} : caller'[d] = caller[d]
           /\ caller'[c].pc = "idle"
  BY DEF Calls, Back, IdleCaller

-----------------------------------------------------------------------------
(* The types of the cache.                                                 *)

\* A map of entries.
IsStore(s) == DOMAIN s \subseteq Places /\ s \in [DOMAIN s -> CacheEntry]

\* What is left of one.
LEMMA FewerEntries ==
    ASSUME IsStore(store), NEW places, store' = Without(places)
    PROVE  /\ IsStore(store') /\ DOMAIN store' = DOMAIN store \ places
           /\ \A p \in DOMAIN store' : store'[p] = store[p]
  BY DEF IsStore, Without, Restrict

\* None at all.
LEMMA NoEntries ==
    ASSUME store' = <<>>
    PROVE  IsStore(store') /\ DOMAIN store' = {}
<1>1. DOMAIN <<>> = {}
  OBVIOUS
<1>2. <<>> \in [{} -> CacheEntry]
  OBVIOUS
<1>. QED
  BY <1>1, <1>2 DEF IsStore

\* The place of a key is one of the places.
LEMMA PlaceOf ==
    ASSUME CacheAssumption, NEW key \in CacheKeys
    PROVE  /\ Place(key) \in Places /\ (Redis => Place(key) = key)
           /\ (UNCHANGED cacheDriver => Place(key)' = Place(key))
<1>1. HashOf[key] \in Range(HashOf)
  BY DEF CacheAssumption, Range
<1>. QED
  BY <1>1 DEF Place, Places, Redis

\* set(): one more entry, where its key is looked for.
LEMMA StoringFacts ==
    ASSUME CacheAssumption, CacheTypeOK, NEW key \in CacheKeys, NEW version \in 0 .. MaxVersion,
           NEW ttl \in Ttls, Storing(key, version, ttl)
    PROVE  /\ IsStore(store') /\ puts' = puts + 1 /\ puts' \in 0 .. MaxPuts
           /\ DOMAIN store' = DOMAIN store \cup {Place(key)}
           /\ store'[Place(key)].key = key /\ store'[Place(key)].version = version
           /\ store'[Place(key)].put = puts + 1
           /\ \A p \in DOMAIN store : p # Place(key) => store'[p] = store[p]
<1> DEFINE e == [key |-> key, version |-> version, put |-> puts + 1,
                 expiration |-> ExpirationOf(ttl)]
<1>1. /\ puts \in 0 .. MaxPuts /\ puts < MaxPuts /\ MaxPuts \in Nat /\ puts' = puts + 1
      /\ cacheClock \in Nat /\ ttl \in Nat
      /\ store \in [DOMAIN store -> CacheEntry] /\ DOMAIN store \subseteq Places
  BY DEF Storing, CacheTypeOK, CacheAssumption
<1>2. ExpirationOf(ttl) \in Nat
  BY <1>1 DEF ExpirationOf
<1>3. puts + 1 \in 1 .. MaxPuts /\ puts + 1 \in 0 .. MaxPuts
  BY <1>1
<1>4. e \in CacheEntry
  BY <1>2, <1>3 DEF CacheEntry
<1>5. store' = [p \in DOMAIN store \cup {Place(key)} |-> IF p = Place(key) THEN e ELSE store[p]]
  BY DEF Storing
<1>6. e.key = key /\ e.version = version /\ e.put = puts + 1
  OBVIOUS
<1>. HIDE DEF e
<1>7. Place(key) \in Places
  BY PlaceOf
<1>. QED
  BY <1>1, <1>3, <1>4, <1>5, <1>6, <1>7 DEF IsStore

-----------------------------------------------------------------------------
(* What the cache keeps.                                                   *)

\* CacheInv without the types.
CacheFacts ==
    /\ InPlace /\ StaleToStore /\ InSteps
    /\ \A key \in CacheKeys : cleared[key] <= puts
    /\ StaleOnlyByOverlap /\ ForgottenGone

\* What an entry and the history of a key hold.
LEMMA EntryTypes ==
    ASSUME CacheTypeOK
    PROVE  /\ puts \in Nat
           /\ \A p \in DOMAIN store : /\ store[p].key \in CacheKeys /\ store[p].put \in Nat
                                      /\ store[p].version \in Nat
           /\ \A key \in CacheKeys : cleared[key] \in Nat /\ source[key] \in Nat
  BY DEF CacheTypeOK, CacheEntry

\* One caller's step in a call, while entries may go: who is to forget a key still
\* is, and what it goes on to store is current or was to be stored before.
LEMMA QuietCache ==
    ASSUME CacheFacts, UNCHANGED <<cacheDriver, source, puts, cleared, overlapped>>,
           DOMAIN store' \subseteq DOMAIN store, \A p \in DOMAIN store' : store'[p] = store[p],
           NEW c \in Callers, \A d \in Callers \ {c} : caller'[d] = caller[d],
           \A key : Forgets(c, key) => Forgets(c, key)',
           At(c, "storing")' =>
              \/ ~ (caller'[c].version < source[caller'[c].key])
              \/ At(c, "storing") /\ caller'[c] = caller[c],
           At(c, "clearing")' \/ At(c, "pulling")' => Redis,
           ~ At(c, "idle")' => caller'[c].since <= puts
    PROVE  CacheFacts'
<1>1. ASSUME NEW key, Excused(key)
      PROVE  Excused(key)'
  BY <1>1 DEF Excused, Forgets, At
<1>2. InPlace' /\ ForgottenGone'
  BY DEF CacheFacts, InPlace, ForgottenGone, Place
<1>3. StaleToStore'
  BY <1>1 DEF CacheFacts, StaleToStore, At
<1>4. InSteps'
  BY DEF CacheFacts, InSteps, At, Redis
<1>5. StaleOnlyByOverlap'
  BY <1>1 DEF CacheFacts, StaleOnlyByOverlap
<1>. QED
  BY <1>2, <1>3, <1>4, <1>5 DEF CacheFacts

\* The same where no caller moves.
LEMMA OnlyEntriesGo ==
    ASSUME CacheFacts, UNCHANGED <<cacheDriver, source, puts, cleared, overlapped, caller>>,
           DOMAIN store' \subseteq DOMAIN store, \A p \in DOMAIN store' : store'[p] = store[p]
    PROVE  CacheFacts'
<1>1. \A key : Excused(key)' <=> Excused(key)
  BY DEF Excused, Forgets, At
<1>. QED
  BY <1>1 DEF CacheFacts, InPlace, ForgottenGone, Place, StaleToStore, InSteps, At, Redis,
              StaleOnlyByOverlap

\* set(): what is stored is newer than what was forgotten, and it is current or the
\* key is excused.
LEMMA StoreStep ==
    ASSUME CacheAssumption, CacheTypeOK, CacheFacts, UNCHANGED <<cacheDriver, source, cleared, overlapped>>,
           NEW key \in CacheKeys, NEW version \in 0 .. MaxVersion, NEW ttl \in Ttls,
           Storing(key, version, ttl), version < source[key] => Excused(key),
           NEW c \in Callers, \A d \in Callers \ {c} : caller'[d] = caller[d],
           \/ caller'[c] = caller[c]
           \/ At(c, "storing") /\ At(c, "idle")'
    PROVE  CacheFacts'
<1>1. /\ puts' = puts + 1 /\ puts \in Nat /\ puts' \in Nat
      /\ DOMAIN store' = DOMAIN store \cup {Place(key)}
      /\ store'[Place(key)].key = key /\ store'[Place(key)].version = version
      /\ store'[Place(key)].put = puts + 1
      /\ \A p \in DOMAIN store : p # Place(key) => store'[p] = store[p]
  <2>1. puts \in Nat
    BY EntryTypes
  <2>2. /\ puts' = puts + 1
        /\ DOMAIN store' = DOMAIN store \cup {Place(key)}
        /\ store'[Place(key)].key = key /\ store'[Place(key)].version = version
        /\ store'[Place(key)].put = puts + 1
        /\ \A p \in DOMAIN store : p # Place(key) => store'[p] = store[p]
    BY StoringFacts, Zenon
  <2>. QED
    BY <2>1, <2>2
<1>2. ASSUME NEW k, Excused(k)
      PROVE  Excused(k)'
  BY <1>2 DEF Excused, Forgets, At
<1>3. InPlace'
  BY <1>1 DEF CacheFacts, InPlace, Place
<1>4. ForgottenGone'
  <2>1. cleared[key] <= puts /\ cleared[key] \in Nat
    BY EntryTypes DEF CacheFacts
  <2>. QED
    BY <1>1, <2>1 DEF CacheFacts, ForgottenGone
<1>5. StaleToStore'
  BY <1>2 DEF CacheFacts, StaleToStore, At
<1>6. InSteps'
  <2>1. ASSUME NEW d \in Callers
        PROVE  /\ At(d, "clearing")' \/ At(d, "pulling")' => Redis'
               /\ ~ At(d, "idle")' => caller'[d].since <= puts'
    <3>1. /\ At(d, "clearing")' \/ At(d, "pulling")' => At(d, "clearing") \/ At(d, "pulling")
          /\ ~ At(d, "idle")' => ~ At(d, "idle") /\ caller'[d].since = caller[d].since
      BY DEF At
    <3>2. ~ At(d, "idle") => caller[d].since \in Nat /\ caller[d].since <= puts
      BY CallOf DEF CacheFacts, InSteps
    <3>3. ~ At(d, "idle")' => caller'[d].since <= puts'
      BY <1>1, <3>1, <3>2
    <3>. QED
      BY <3>1, <3>3 DEF CacheFacts, InSteps, Redis
  <2>. QED
    BY <2>1 DEF InSteps
<1>7. \A k \in CacheKeys : cleared'[k] <= puts'
  <2>1. \A k \in CacheKeys : cleared[k] <= puts /\ cleared[k] \in Nat
    BY EntryTypes DEF CacheFacts
  <2>. QED
    BY <1>1, <2>1
<1>8. StaleOnlyByOverlap'
  BY <1>1, <1>2 DEF CacheFacts, StaleOnlyByOverlap
<1>. QED
  BY <1>3, <1>4, <1>5, <1>6, <1>7, <1>8 DEF CacheFacts

\* The entry of a key goes: what is still to be stored under it is excused, and the
\* caller has no other key to answer for than before.
LEMMA ForgetStep ==
    ASSUME CacheAssumption, CacheTypeOK, CacheFacts, UNCHANGED <<cacheDriver, source, puts>>,
           NEW key \in CacheKeys, NEW n \in Nat, n <= puts,
           store' = Without({Place(key)}), Forgotten(key, n),
           NEW c \in Callers, \A d \in Callers \ {c} : caller'[d] = caller[d],
           \A k : k # key /\ Forgets(c, k) => Forgets(c, k)',
           ~ At(c, "storing")',
           At(c, "clearing")' \/ At(c, "pulling")' => Redis,
           ~ At(c, "idle")' => caller'[c].since <= puts
    PROVE  CacheFacts'
<1>1. /\ DOMAIN store' = DOMAIN store \ {Place(key)}
      /\ \A p \in DOMAIN store' : store'[p] = store[p]
  BY FewerEntries DEF CacheTypeOK, IsStore
<1>2. \A p \in DOMAIN store' : store'[p].key # key
  BY <1>1 DEF CacheFacts, InPlace
<1>3. /\ cleared \in [CacheKeys -> 0 .. MaxPuts]
      /\ cleared' = [cleared EXCEPT ![key] = IF n > cleared[key] THEN n ELSE cleared[key]]
  BY DEF CacheTypeOK, Forgotten
<1>4. /\ cleared'[key] \in {n, cleared[key]}
      /\ \A k \in CacheKeys : k # key => cleared'[k] = cleared[k]
  BY <1>3
<1>5. ASSUME NEW k, k # key, Excused(k)
      PROVE  Excused(k)'
  <2>1. k \in overlapped => k \in overlapped'
    BY <1>5 DEF Forgotten
  <2>2. \A d \in Callers : Forgets(d, k) => Forgets(d, k)'
    BY <1>5 DEF Forgets, At
  <2>. QED
    BY <1>5, <2>1, <2>2 DEF Excused
<1>6. ASSUME NEW d \in Callers, At(d, "storing"), caller[d].key = key,
             caller[d].version < source[key]
      PROVE  Excused(key)'
  <2>1. key \in overlapped'
    BY <1>6 DEF Forgotten
  <2>. QED
    BY <2>1 DEF Excused
<1>7. InPlace'
  BY <1>1 DEF CacheFacts, InPlace, Place
<1>8. StaleToStore'
  <2>1. ASSUME NEW d \in Callers, At(d, "storing")',
               caller'[d].version < source'[caller'[d].key]
        PROVE  Excused(caller[d].key)'
    <3>1. PICK k : k = caller[d].key
      OBVIOUS
    <3>2. caller'[d] = caller[d] /\ At(d, "storing") /\ caller[d].version < source[k]
      BY <2>1, <3>1 DEF At
    <3>3. Excused(k)
      BY <3>1, <3>2 DEF CacheFacts, StaleToStore
    <3>4. Excused(k)'
      BY <1>5, <1>6, <3>1, <3>2, <3>3
    <3>. QED
      BY <2>1, <3>1, <3>2, <3>4
  <2>. QED
    BY <2>1 DEF StaleToStore
<1>9. InSteps'
  BY DEF CacheFacts, InSteps, At, Redis
<1>10. \A k \in CacheKeys : cleared'[k] <= puts'
  BY <1>4 DEF CacheFacts
<1>11. StaleOnlyByOverlap'
  BY <1>1, <1>2, <1>5 DEF CacheFacts, StaleOnlyByOverlap
<1>12. ForgottenGone'
  <2>1. \A p \in DOMAIN store : store[p].key \in CacheKeys
    BY EntryTypes
  <2>2. ASSUME NEW p \in DOMAIN store'
        PROVE  store'[p].put > cleared'[store'[p].key]
    <3>1. p \in DOMAIN store /\ store'[p] = store[p] /\ store[p].key # key
      BY <1>1, <1>2
    <3>2. cleared'[store[p].key] = cleared[store[p].key]
      BY <1>4, <2>1, <3>1
    <3>3. store[p].put > cleared[store[p].key]
      BY <3>1 DEF CacheFacts, ForgottenGone
    <3>. QED
      BY <3>1, <3>2, <3>3
  <2>. QED
    BY <2>2 DEF ForgottenGone
<1>. QED
  BY <1>7, <1>8, <1>9, <1>10, <1>11, <1>12 DEF CacheFacts

\* The keys to delete, of a call under way, ...
LEMMA ClearingFacts ==
    ASSUME caller \in [Callers -> Calls], NEW c \in Callers, caller[c] \in InCall,
           NEW keys \in SUBSET CacheKeys,
           caller' = [caller EXCEPT ![c].pc = "clearing", ![c].keys = keys]
    PROVE  /\ caller' \in [Callers -> Calls] /\ \A d \in Callers \ {c} : caller'[d] = caller[d]
           /\ caller'[c].pc = "clearing" /\ caller'[c].keys = keys
           /\ caller'[c].since = caller[c].since
  BY DEF Calls, InCall

\* ... of one that begins, ...
LEMMA ClearingNowFacts ==
    ASSUME caller \in [Callers -> Calls], NEW c \in Callers, caller[c] \in InCall, puts \in Nat,
           NEW keys \in SUBSET CacheKeys,
           caller' = [caller EXCEPT ![c].pc = "clearing", ![c].keys = keys, ![c].since = puts]
    PROVE  /\ caller' \in [Callers -> Calls] /\ \A d \in Callers \ {c} : caller'[d] = caller[d]
           /\ caller'[c].pc = "clearing" /\ caller'[c].keys = keys
           /\ caller'[c].since = puts
  BY DEF Calls, InCall

\* ... and fewer of them.
LEMMA FewerKeysFacts ==
    ASSUME caller \in [Callers -> Calls], NEW c \in Callers, caller[c] \in InCall,
           NEW keys \in SUBSET CacheKeys, caller' = [caller EXCEPT ![c].keys = keys]
    PROVE  /\ caller' \in [Callers -> Calls] /\ \A d \in Callers \ {c} : caller'[d] = caller[d]
           /\ caller'[c].pc = caller[c].pc /\ caller'[c].keys = keys
           /\ caller'[c].since = caller[c].since
  BY DEF Calls, InCall

\* The callback's value is to be stored.
LEMMA CalledFacts ==
    ASSUME caller \in [Callers -> Calls], NEW c \in Callers, caller[c] \in InCall,
           NEW version \in 0 .. MaxVersion,
           caller' = [caller EXCEPT ![c].pc = "storing", ![c].version = version]
    PROVE  /\ caller' \in [Callers -> Calls] /\ \A d \in Callers \ {c} : caller'[d] = caller[d]
           /\ caller'[c].pc = "storing" /\ caller'[c].version = version
           /\ caller'[c].key = caller[c].key /\ caller'[c].since = caller[c].since
  BY DEF Calls, InCall

\* Types that a step leaves alone.
LEMMA SameTypes ==
    ASSUME CacheTypeOK, UNCHANGED <<cacheDriver, cacheClock>>,
           IsStore(store'), caller' \in [Callers -> Calls],
           source' \in [CacheKeys -> 0 .. MaxVersion], puts' \in 0 .. MaxPuts,
           cleared' \in [CacheKeys -> 0 .. MaxPuts], overlapped' \subseteq CacheKeys
    PROVE  CacheTypeOK'
  BY DEF CacheTypeOK, IsStore, Calls

\* What forgetting leaves in the history.
LEMMA ForgottenTypes ==
    ASSUME CacheAssumption, CacheTypeOK, NEW key \in CacheKeys, NEW n \in Nat, n <= puts,
           Forgotten(key, n)
    PROVE  cleared' \in [CacheKeys -> 0 .. MaxPuts] /\ overlapped' \subseteq CacheKeys
<1>1. /\ cleared \in [CacheKeys -> 0 .. MaxPuts]
      /\ cleared' = [cleared EXCEPT ![key] = IF n > cleared[key] THEN n ELSE cleared[key]]
  BY DEF CacheTypeOK, Forgotten
<1>2. puts \in 0 .. MaxPuts /\ MaxPuts \in Nat
  BY DEF CacheTypeOK, CacheAssumption
<1>3. n \in 0 .. MaxPuts
  BY <1>2
<1>4. overlapped' \subseteq CacheKeys
  BY DEF Forgotten, CacheTypeOK
<1>. QED
  BY <1>1, <1>3, <1>4

\* What the types and facts say where the steps need it.
LEMMA CacheBasics ==
    ASSUME CacheAssumption, CacheTypeOK, CacheFacts
    PROVE  /\ IsStore(store) /\ caller \in [Callers -> Calls] /\ puts \in Nat
           /\ source \in [CacheKeys -> 0 .. MaxVersion] /\ puts \in 0 .. MaxPuts
           /\ cleared \in [CacheKeys -> 0 .. MaxPuts] /\ overlapped \subseteq CacheKeys
           /\ 0 \in 0 .. MaxVersion /\ AnyTtl \in Ttls
           /\ \A c \in Callers : ~ At(c, "idle") => caller[c].since \in Nat /\ caller[c].since <= puts
<1>1. AnyTtl \in Ttls
  BY DEF AnyTtl, CacheAssumption
<1>2. \A c \in Callers : ~ At(c, "idle") => caller[c].since \in Nat /\ caller[c].since <= puts
  BY CallOf DEF CacheFacts, InSteps
<1>3. IsStore(store) /\ caller \in [Callers -> Calls]
  BY DEF CacheTypeOK, IsStore, Calls
<1>. QED
  BY <1>1, <1>2, <1>3 DEF CacheTypeOK, CacheAssumption

\* get(), remember(): a lapsed entry goes, the callback is called.
LEMMA ReadStep ==
    ASSUME CacheAssumption, CacheTypeOK, CacheFacts, NEW c \in Callers, NEW key \in CacheKeys,
           cacheGet(c, key) \/ \E ttl \in Ttls : remember(c, key, ttl)
    PROVE  CacheTypeOK' /\ CacheFacts'
<1>1. At(c, "idle") /\ UNCHANGED <<cacheDriver, cacheClock, source, puts, cleared, overlapped>>
  BY DEF cacheGet, remember, cacheHistory
<1>2. store' = store \/ store' = Without({Place(key)})
  BY DEF cacheGet, remember
<1>3. /\ IsStore(store') /\ DOMAIN store' \subseteq DOMAIN store
      /\ \A p \in DOMAIN store' : store'[p] = store[p]
  <2>1. CASE store' = store
    BY <2>1, CacheBasics
  <2>2. CASE store' = Without({Place(key)})
    BY <2>2, CacheBasics, FewerEntries
  <2>. QED
    BY <1>2, <2>1, <2>2
<1>4. \/ caller' = caller
      \/ \E ttl \in Ttls, pc \in {"dropping", "renewing", "calling"} :
            caller' = Entered(c, pc, key, ttl, 0)
  BY CacheBasics DEF cacheGet, remember
<1>5. CASE caller' = caller
  <2>1. CacheFacts'
    BY <1>1, <1>3, <1>5, OnlyEntriesGo
  <2>. QED
    BY <1>1, <1>3, <1>5, <2>1, CacheBasics, SameTypes
<1>6. ASSUME NEW ttl \in Ttls, NEW pc \in {"dropping", "renewing", "calling"},
             caller' = Entered(c, pc, key, ttl, 0)
      PROVE  CacheTypeOK' /\ CacheFacts'
  <2>1. pc \in Steps
    BY DEF Steps
  <2>2. /\ caller' \in [Callers -> Calls] /\ \A d \in Callers \ {c} : caller'[d] = caller[d]
        /\ caller'[c].pc = pc /\ caller'[c].since = puts
    <3>1. /\ caller \in [Callers -> Calls] /\ puts \in Nat
          /\ 0 \in 0 .. MaxVersion /\ AnyTtl \in Ttls
      BY CacheBasics
    <3>. QED
      BY <1>6, <2>1, <3>1, EnteredFacts
  <2>3. \A k : ~ Forgets(c, k)
    BY <1>1 DEF Forgets, At
  <2>4. /\ ~ At(c, "storing")' /\ ~ (At(c, "clearing")' \/ At(c, "pulling")')
        /\ caller'[c].since <= puts
    BY <2>2, CacheBasics DEF At
  <2>5. CacheFacts'
    BY <1>1, <1>3, <2>2, <2>3, <2>4, QuietCache
  <2>. QED
    BY <1>1, <1>3, <2>2, <2>5, CacheBasics, SameTypes
<1>. QED
  BY <1>4, <1>5, <1>6

\* The callback read what is current.
LEMMA CalledStep ==
    ASSUME CacheAssumption, CacheTypeOK, CacheFacts, NEW c \in Callers, called(c)
    PROVE  CacheTypeOK' /\ CacheFacts'
<1>1. At(c, "calling") /\ UNCHANGED <<cacheDriver, cacheClock, store, source, puts, cleared, overlapped>>
  BY DEF called, cacheHistory
<1>2. caller[c] \in InCall /\ caller[c].key \in CacheKeys
  BY <1>1, CallOf DEF At
<1>3. PICK version \in 0 .. MaxVersion : version = source[caller[c].key]
  BY <1>2, CacheBasics
<1>4. caller' = [caller EXCEPT ![c].pc = "storing", ![c].version = version]
  BY <1>3 DEF called
<1>5. /\ caller' \in [Callers -> Calls] /\ \A d \in Callers \ {c} : caller'[d] = caller[d]
      /\ caller'[c].pc = "storing" /\ caller'[c].version = version
      /\ caller'[c].key = caller[c].key /\ caller'[c].since = caller[c].since
  BY <1>2, <1>4, CacheBasics, CalledFacts
<1>6. ~ (caller'[c].version < source[caller'[c].key])
  BY <1>3, <1>5
<1>7. /\ \A k : ~ Forgets(c, k)
      /\ ~ (At(c, "clearing")' \/ At(c, "pulling")') /\ caller'[c].since <= puts
  <2>1. caller[c].since <= puts
    BY <1>1, CacheBasics DEF At
  <2>. QED
    BY <1>1, <1>5, <2>1 DEF Forgets, At
<1>8. CacheFacts'
  BY <1>1, <1>5, <1>6, <1>7, QuietCache
<1>. QED
  BY <1>1, <1>5, <1>8, CacheBasics, SameTypes

\* set(), at the end of put(), forever() and remember().
LEMMA SetStep ==
    ASSUME CacheAssumption, CacheTypeOK, CacheFacts, NEW c \in Callers, cacheSet(c)
    PROVE  CacheTypeOK' /\ CacheFacts'
<1>1. /\ At(c, "storing") /\ caller' = Back(c)
      /\ UNCHANGED <<cacheDriver, cacheClock, source, cleared, overlapped>>
  BY DEF cacheSet, cacheHistory
<1>2. /\ caller[c].key \in CacheKeys /\ caller[c].version \in 0 .. MaxVersion
      /\ caller[c].ttl \in Ttls
  BY <1>1, CallOf DEF At
<1>3. PICK key \in CacheKeys, version \in 0 .. MaxVersion, ttl \in Ttls :
         key = caller[c].key /\ version = caller[c].version /\ ttl = caller[c].ttl
  BY <1>2
<1>4. Storing(key, version, ttl)
  BY <1>3 DEF cacheSet
<1>5. version < source[key] => Excused(key)
  BY <1>1, <1>3 DEF CacheFacts, StaleToStore
<1>6. /\ caller' \in [Callers -> Calls] /\ \A d \in Callers \ {c} : caller'[d] = caller[d]
      /\ At(c, "idle")'
  BY <1>1, CacheBasics, BackFacts DEF At
<1>7. CacheFacts'
  BY <1>1, <1>4, <1>5, <1>6, StoreStep
<1>8. IsStore(store') /\ puts' \in 0 .. MaxPuts
  BY <1>4, StoringFacts, Zenon
<1>. QED
  BY <1>1, <1>6, <1>7, <1>8, CacheBasics, SameTypes

\* put() and forever().
LEMMA PutStep ==
    ASSUME CacheAssumption, CacheTypeOK, CacheFacts, NEW c \in Callers, NEW key \in CacheKeys,
           NEW ttl \in Ttls, put(c, key, ttl)
    PROVE  CacheTypeOK' /\ CacheFacts'
<1>1. At(c, "idle") /\ UNCHANGED <<cacheDriver, cacheClock, source, cleared, overlapped>>
  BY DEF put, cacheHistory
<1>2. PICK version \in 0 .. MaxVersion : version = source[key]
  BY CacheBasics
<1>3. CASE Redis
  <2>1. caller' = Entered(c, "storing", key, ttl, version) /\ UNCHANGED <<store, puts>>
    BY <1>2, <1>3 DEF put
  <2>2. "storing" \in Steps
    BY DEF Steps
  <2>3. /\ caller' \in [Callers -> Calls] /\ \A d \in Callers \ {c} : caller'[d] = caller[d]
        /\ caller'[c].pc = "storing" /\ caller'[c].key = key /\ caller'[c].version = version
        /\ caller'[c].since = puts
    <3>1. /\ caller \in [Callers -> Calls] /\ puts \in Nat
          /\ 0 \in 0 .. MaxVersion /\ AnyTtl \in Ttls
      BY CacheBasics
    <3>. QED
      BY <2>1, <2>2, <3>1, EnteredFacts
  <2>4. ~ (caller'[c].version < source[caller'[c].key])
    BY <1>2, <2>3
  <2>5. /\ \A k : ~ Forgets(c, k)
        /\ ~ (At(c, "clearing")' \/ At(c, "pulling")') /\ caller'[c].since <= puts
    BY <1>1, <2>3, CacheBasics DEF Forgets, At
  <2>6. CacheFacts'
    BY <1>1, <2>1, <2>3, <2>4, <2>5, QuietCache
  <2>. QED
    BY <1>1, <2>1, <2>3, <2>6, CacheBasics, SameTypes
<1>4. CASE ~ Redis
  <2>1. Storing(key, version, ttl) /\ caller' = caller
    BY <1>2, <1>4 DEF put
  <2>2. version < source[key] => Excused(key)
    BY <1>2
  <2>3. CacheFacts'
    BY <1>1, <2>1, <2>2, StoreStep
  <2>4. IsStore(store') /\ puts' \in 0 .. MaxPuts
    BY <2>1, StoringFacts, Zenon
  <2>. QED
    BY <1>1, <2>1, <2>3, <2>4, CacheBasics, SameTypes
<1>. QED
  BY <1>3, <1>4

\* The source changes; its entry is excused until forget() is called.
LEMMA ChangeStep ==
    ASSUME CacheAssumption, CacheTypeOK, CacheFacts, NEW c \in Callers, NEW key \in CacheKeys,
           change(c, key)
    PROVE  CacheTypeOK' /\ CacheFacts'
<1>1. /\ At(c, "idle") /\ caller' = Entered(c, "changed", key, AnyTtl, 0)
      /\ source' = [source EXCEPT ![key] = source[key] + 1] /\ source[key] < MaxVersion
      /\ UNCHANGED <<cacheDriver, cacheClock, store, puts, cleared, overlapped>>
  BY DEF change, cacheHistory
<1>2. "changed" \in Steps
  BY DEF Steps
<1>3. /\ caller' \in [Callers -> Calls] /\ \A d \in Callers \ {c} : caller'[d] = caller[d]
      /\ caller'[c].pc = "changed" /\ caller'[c].key = key /\ caller'[c].since = puts
  <2>1. /\ caller \in [Callers -> Calls] /\ puts \in Nat
        /\ 0 \in 0 .. MaxVersion /\ AnyTtl \in Ttls
    BY CacheBasics
  <2>. QED
    BY <1>1, <1>2, <2>1, EnteredFacts
<1>4. /\ source' \in [CacheKeys -> 0 .. MaxVersion]
      /\ \A k \in CacheKeys : k # key => source'[k] = source[k]
  BY <1>1, CacheBasics DEF CacheAssumption
<1>5. Excused(key)'
  BY <1>3 DEF Excused, Forgets, At
<1>6. ASSUME NEW k, Excused(k)
      PROVE  Excused(k)'
  BY <1>1, <1>3, <1>6 DEF Excused, Forgets, At
<1>7. StaleToStore'
  <2>1. ASSUME NEW d \in Callers, At(d, "storing")',
               caller'[d].version < source'[caller'[d].key]
        PROVE  Excused(caller[d].key)'
    <3>1. PICK k : k = caller[d].key
      OBVIOUS
    <3>2. caller'[d] = caller[d] /\ At(d, "storing") /\ caller[d].version < source'[k]
      BY <1>3, <2>1, <3>1 DEF At
    <3>3. k \in CacheKeys
      BY <3>1, <3>2, CallOf DEF At
    <3>4. k # key => Excused(k)
      BY <1>4, <3>1, <3>2, <3>3 DEF CacheFacts, StaleToStore
    <3>5. Excused(k)'
      BY <1>5, <1>6, <3>4
    <3>. QED
      BY <3>1, <3>2, <3>5
  <2>. QED
    BY <2>1 DEF StaleToStore
<1>8. StaleOnlyByOverlap'
  <2>1. ASSUME NEW p \in DOMAIN store, store[p].version < source'[store[p].key]
        PROVE  Excused(store[p].key)'
    <3>1. PICK k \in CacheKeys : k = store[p].key
      BY EntryTypes
    <3>2. k # key => Excused(k)
      BY <1>4, <2>1, <3>1 DEF CacheFacts, StaleOnlyByOverlap
    <3>3. Excused(k)'
      BY <1>5, <1>6, <3>2
    <3>. QED
      BY <1>1, <3>1, <3>3
  <2>. QED
    BY <1>1, <2>1 DEF StaleOnlyByOverlap
<1>9. InSteps'
  BY <1>1, <1>3, CacheBasics DEF CacheFacts, InSteps, At, Redis
<1>10. InPlace' /\ ForgottenGone' /\ \A k \in CacheKeys : cleared'[k] <= puts'
  BY <1>1 DEF CacheFacts, InPlace, ForgottenGone, Place
<1>11. CacheFacts'
  BY <1>7, <1>8, <1>9, <1>10 DEF CacheFacts
<1>. QED
  BY <1>1, <1>3, <1>4, <1>11, CacheBasics, SameTypes

\* One caller forgets a key, up to entry n, and has nothing else to answer for.
LEMMA ForgottenStep ==
    ASSUME CacheAssumption, CacheTypeOK, CacheFacts, NEW c \in Callers, NEW key \in CacheKeys,
           NEW n \in Nat, n <= puts,
           UNCHANGED <<cacheDriver, cacheClock, source, puts>>,
           store' = Without({Place(key)}), Forgotten(key, n),
           caller' \in [Callers -> Calls], \A d \in Callers \ {c} : caller'[d] = caller[d],
           \/ At(c, "idle")'
           \/ /\ At(c, "clearing") /\ At(c, "clearing")' /\ caller'[c].since = caller[c].since
              /\ caller'[c].keys = caller[c].keys \ {key},
           \A k : k # key /\ Forgets(c, k) => At(c, "clearing") /\ At(c, "clearing")'
    PROVE  CacheTypeOK' /\ CacheFacts'
<1>1. \A k : k # key /\ Forgets(c, k) => Forgets(c, k)'
  BY DEF Forgets, At
<1>2. /\ ~ At(c, "storing")' /\ (At(c, "clearing")' \/ At(c, "pulling")' => Redis)
      /\ ~ At(c, "idle")' => caller'[c].since <= puts
  BY CacheBasics DEF At, CacheFacts, InSteps
<1>3. CacheFacts'
  BY <1>1, <1>2, ForgetStep
<1>4. IsStore(store')
  BY CacheBasics, FewerEntries
<1>5. cleared' \in [CacheKeys -> 0 .. MaxPuts] /\ overlapped' \subseteq CacheKeys
  BY ForgottenTypes
<1>. QED
  BY <1>3, <1>4, <1>5, CacheBasics, SameTypes

\* forget(), after a change.
LEMMA ForgetCallStep ==
    ASSUME CacheAssumption, CacheTypeOK, CacheFacts, NEW c \in Callers, forget(c)
    PROVE  CacheTypeOK' /\ CacheFacts'
<1>1. At(c, "changed") /\ UNCHANGED <<cacheDriver, cacheClock, source, puts>>
  BY DEF forget
<1>2. caller[c] \in InCall /\ caller[c].key \in CacheKeys
  BY <1>1, CallOf DEF At
<1>3. PICK key \in CacheKeys : key = caller[c].key
  BY <1>2
<1>4. CASE Redis /\ Holds(key)
  <2>1. PICK keys \in SUBSET CacheKeys : keys = {key}
    OBVIOUS
  <2>2. /\ caller' = [caller EXCEPT ![c].pc = "clearing", ![c].keys = keys, ![c].since = puts]
        /\ UNCHANGED <<store, cleared, overlapped>>
    BY <1>3, <1>4, <2>1 DEF forget, cacheHistory
  <2>3. /\ caller' \in [Callers -> Calls] /\ \A d \in Callers \ {c} : caller'[d] = caller[d]
        /\ caller'[c].pc = "clearing" /\ caller'[c].keys = keys /\ caller'[c].since = puts
    BY <1>2, <2>2, CacheBasics, ClearingNowFacts
  <2>4. /\ \A k : Forgets(c, k) => Forgets(c, k)'
        /\ ~ At(c, "storing")' /\ caller'[c].since <= puts
    BY <1>1, <1>3, <2>1, <2>3, CacheBasics DEF Forgets, At
  <2>5. CacheFacts'
    BY <1>1, <1>4, <2>2, <2>3, <2>4, QuietCache
  <2>. QED
    BY <1>1, <2>2, <2>3, <2>5, CacheBasics, SameTypes
<1>5. CASE ~ (Redis /\ Holds(key))
  <2>1. store' = Without({Place(key)}) /\ Forgotten(key, puts) /\ caller' = Back(c)
    BY <1>3, <1>5 DEF forget
  <2>2. /\ caller' \in [Callers -> Calls] /\ \A d \in Callers \ {c} : caller'[d] = caller[d]
        /\ At(c, "idle")'
    BY <2>1, CacheBasics, BackFacts DEF At
  <2>3. \A k : ~ (k # key /\ Forgets(c, k))
    BY <1>1, <1>3 DEF Forgets, At
  <2>4. PICK n \in Nat : n = puts /\ n <= puts
    BY CacheBasics
  <2>. QED
    BY <1>1, <2>1, <2>2, <2>3, <2>4, ForgottenStep
<1>. QED
  BY <1>4, <1>5

\* pull().
LEMMA PullStep ==
    ASSUME CacheAssumption, CacheTypeOK, CacheFacts, NEW c \in Callers, NEW key \in CacheKeys,
           pull(c, key)
    PROVE  CacheTypeOK' /\ CacheFacts'
<1>1. At(c, "idle") /\ UNCHANGED <<cacheDriver, cacheClock, source, puts>>
  BY DEF pull
<1>2. \A k : ~ Forgets(c, k)
  BY <1>1 DEF Forgets, At
<1>3. CASE Redis
  <2>1. /\ caller' = Entered(c, "pulling", key, AnyTtl, 0)
        /\ UNCHANGED <<store, cleared, overlapped>>
    BY <1>3 DEF pull, cacheHistory
  <2>2. "pulling" \in Steps
    BY DEF Steps
  <2>3. /\ caller' \in [Callers -> Calls] /\ \A d \in Callers \ {c} : caller'[d] = caller[d]
        /\ caller'[c].pc = "pulling" /\ caller'[c].since = puts
    <3>1. /\ caller \in [Callers -> Calls] /\ puts \in Nat
          /\ 0 \in 0 .. MaxVersion /\ AnyTtl \in Ttls
      BY CacheBasics
    <3>. QED
      BY <2>1, <2>2, <3>1, EnteredFacts
  <2>4. ~ At(c, "storing")' /\ caller'[c].since <= puts
    BY <2>3, CacheBasics DEF At
  <2>5. CacheFacts'
    BY <1>1, <1>2, <1>3, <2>1, <2>3, <2>4, QuietCache
  <2>. QED
    BY <1>1, <2>1, <2>3, <2>5, CacheBasics, SameTypes
<1>4. CASE ~ Redis
  <2>1. store' = Without({Place(key)}) /\ Forgotten(key, puts) /\ caller' = caller
    BY <1>4 DEF pull
  <2>2. caller' \in [Callers -> Calls] /\ At(c, "idle")'
    BY <1>1, <2>1, CacheBasics DEF At
  <2>3. PICK n \in Nat : n = puts /\ n <= puts
    BY CacheBasics
  <2>. QED
    BY <1>1, <1>2, <2>1, <2>2, <2>3, ForgottenStep
<1>. QED
  BY <1>3, <1>4

\* EXISTS, the second command of pull().
LEMMA PulledStep ==
    ASSUME CacheAssumption, CacheTypeOK, CacheFacts, NEW c \in Callers, pulled(c)
    PROVE  CacheTypeOK' /\ CacheFacts'
<1>1. At(c, "pulling") /\ UNCHANGED <<cacheDriver, cacheClock, store, source, puts, cleared, overlapped>>
  BY DEF pulled, cacheHistory
<1>2. caller[c] \in InCall /\ caller[c].key \in CacheKeys /\ Redis /\ caller[c].since <= puts
  BY <1>1, CallOf, CacheBasics DEF At, CacheFacts, InSteps
<1>3. \A k : ~ Forgets(c, k)
  BY <1>1 DEF Forgets, At
<1>4. PICK keys \in SUBSET CacheKeys : keys = {caller[c].key}
  BY <1>2
<1>5. CASE caller' = [caller EXCEPT ![c].pc = "clearing", ![c].keys = keys]
  <2>1. /\ caller' \in [Callers -> Calls] /\ \A d \in Callers \ {c} : caller'[d] = caller[d]
        /\ caller'[c].pc = "clearing" /\ caller'[c].since = caller[c].since
    BY <1>2, <1>5, CacheBasics, ClearingFacts
  <2>2. ~ At(c, "storing")' /\ caller'[c].since <= puts
    BY <1>2, <2>1 DEF At
  <2>3. CacheFacts'
    BY <1>1, <1>2, <1>3, <2>1, <2>2, QuietCache
  <2>. QED
    BY <1>1, <2>1, <2>3, CacheBasics, SameTypes
<1>6. CASE caller' = Back(c)
  <2>1. /\ caller' \in [Callers -> Calls] /\ \A d \in Callers \ {c} : caller'[d] = caller[d]
        /\ caller'[c].pc = "idle"
    BY <1>6, CacheBasics, BackFacts
  <2>2. CacheFacts'
    BY <1>1, <1>3, <2>1, QuietCache DEF At
  <2>. QED
    BY <1>1, <2>1, <2>2, CacheBasics, SameTypes
<1>. QED
  BY <1>4, <1>5, <1>6 DEF pulled

\* The DEL of a lapsed entry.
LEMMA DroppedStep ==
    ASSUME CacheAssumption, CacheTypeOK, CacheFacts, NEW c \in Callers, dropped(c)
    PROVE  CacheTypeOK' /\ CacheFacts'
<1>1. /\ At(c, "dropping") \/ At(c, "renewing")
      /\ store' = Without({caller[c].key})
      /\ UNCHANGED <<cacheDriver, cacheClock, source, puts, cleared, overlapped>>
  BY DEF dropped, cacheHistory
<1>2. caller[c] \in InCall /\ caller[c].since <= puts
  BY <1>1, CallOf, CacheBasics DEF At
<1>3. \A k : ~ Forgets(c, k)
  BY <1>1 DEF Forgets, At
<1>4. /\ IsStore(store') /\ DOMAIN store' \subseteq DOMAIN store
      /\ \A p \in DOMAIN store' : store'[p] = store[p]
  BY <1>1, CacheBasics, FewerEntries
<1>5. /\ caller' \in [Callers -> Calls] /\ \A d \in Callers \ {c} : caller'[d] = caller[d]
      /\ \/ caller'[c].pc = "idle"
         \/ caller'[c].pc = "calling" /\ caller'[c].since = caller[c].since
  <2>1. CASE caller' = Back(c)
    BY <2>1, CacheBasics, BackFacts
  <2>2. CASE caller' = [caller EXCEPT ![c].pc = "calling"]
    <3>1. "calling" \in Steps
      BY DEF Steps
    <3>. QED
      BY <1>2, <2>2, <3>1, CacheBasics, MovedFacts
  <2>. QED
    BY <2>1, <2>2 DEF dropped
<1>6. CacheFacts'
  BY <1>1, <1>2, <1>3, <1>4, <1>5, QuietCache DEF At
<1>. QED
  BY <1>1, <1>4, <1>5, <1>6, CacheBasics, SameTypes

\* One DEL of flush(), forget() or pull().
LEMMA DelStep ==
    ASSUME CacheAssumption, CacheTypeOK, CacheFacts, NEW c \in Callers, NEW key \in CacheKeys,
           del(c, key)
    PROVE  CacheTypeOK' /\ CacheFacts'
<1>1. /\ At(c, "clearing") /\ key \in caller[c].keys
      /\ store' = Without({key}) /\ Forgotten(key, caller[c].since)
      /\ UNCHANGED <<cacheDriver, cacheClock, source, puts>>
  BY DEF del
<1>2. /\ caller[c] \in InCall /\ caller[c].keys \in SUBSET CacheKeys
      /\ caller[c].since \in Nat /\ caller[c].since <= puts /\ Redis
  BY <1>1, CallOf, CacheBasics DEF At, CacheFacts, InSteps
<1>3. store' = Without({Place(key)})
  BY <1>1, <1>2, PlaceOf
<1>4. PICK n \in Nat : n = caller[c].since
  BY <1>2
<1>5. CASE caller' = Back(c) /\ caller[c].keys = {key}
  <2>1. /\ caller' \in [Callers -> Calls] /\ \A d \in Callers \ {c} : caller'[d] = caller[d]
        /\ At(c, "idle")'
    BY <1>5, CacheBasics, BackFacts DEF At
  <2>2. \A k : ~ (k # key /\ Forgets(c, k))
    BY <1>1, <1>5 DEF Forgets, At
  <2>. QED
    BY <1>1, <1>2, <1>3, <1>4, <2>1, <2>2, ForgottenStep
<1>6. CASE caller' = [caller EXCEPT ![c].keys = caller[c].keys \ {key}]
  <2>1. PICK keys \in SUBSET CacheKeys : keys = caller[c].keys \ {key}
    BY <1>2
  <2>2. caller' = [caller EXCEPT ![c].keys = keys]
    BY <1>6, <2>1
  <2>3. /\ caller' \in [Callers -> Calls] /\ \A d \in Callers \ {c} : caller'[d] = caller[d]
        /\ caller'[c].pc = caller[c].pc /\ caller'[c].keys = keys
        /\ caller'[c].since = caller[c].since
    BY <1>2, <2>2, CacheBasics, FewerKeysFacts
  <2>4. At(c, "clearing")'
    BY <1>1, <2>3 DEF At
  <2>. QED
    BY <1>1, <1>2, <1>3, <1>4, <2>1, <2>3, <2>4, ForgottenStep
<1>. QED
  BY <1>5, <1>6 DEF del

\* What flush() in Redis is to delete.
LEMMA FlushingFacts ==
    ASSUME caller \in [Callers -> Calls], NEW c \in Callers, puts \in Nat, 0 \in 0 .. MaxVersion,
           NEW key \in CacheKeys, NEW ttl \in Ttls, NEW keys \in SUBSET CacheKeys,
           caller' = [caller EXCEPT ![c] = [pc |-> "clearing", key |-> key, ttl |-> ttl,
                                            version |-> 0, since |-> puts, keys |-> keys]]
    PROVE  /\ caller' \in [Callers -> Calls] /\ \A d \in Callers \ {c} : caller'[d] = caller[d]
           /\ caller'[c].pc = "clearing" /\ caller'[c].since = puts
  BY DEF Calls, InCall

\* flush().
LEMMA FlushStep ==
    ASSUME CacheAssumption, CacheTypeOK, CacheFacts, NEW c \in Callers, cacheFlush(c)
    PROVE  CacheTypeOK' /\ CacheFacts'
<1>1. /\ At(c, "idle") /\ store # <<>>
      /\ UNCHANGED <<cacheDriver, cacheClock, source, puts>>
  BY DEF cacheFlush
<1>2. \A k : ~ Forgets(c, k)
  BY <1>1 DEF Forgets, At
<1>3. CASE Redis
  <2>1. DOMAIN store \subseteq CacheKeys
    <3>1. ASSUME NEW p \in DOMAIN store
          PROVE  p \in CacheKeys
      <4>1. PICK key \in CacheKeys : key = store[p].key
        BY EntryTypes
      <4>2. Place(key) = p /\ Place(key) = key
        BY <1>3, <4>1, PlaceOf DEF CacheFacts, InPlace
      <4>. QED
        BY <4>2
    <3>. QED
      BY <3>1
  <2>2. CacheKeys # {}
    <3>1. store \in [DOMAIN store -> CacheEntry]
      BY DEF CacheTypeOK
    <3>2. ASSUME DOMAIN store = {}
          PROVE  store = <<>>
      BY <3>1, <3>2
    <3>. QED
      BY <1>1, <2>1, <3>2
  <2>3. PICK key \in CacheKeys : key = CHOOSE k \in CacheKeys : TRUE
    BY <2>2
  <2>4. PICK keys \in SUBSET CacheKeys : keys = DOMAIN store
    BY <2>1
  <2>5. PICK ttl \in Ttls : ttl = AnyTtl
    BY CacheBasics
  <2>6. /\ caller' = [caller EXCEPT ![c] = [pc |-> "clearing", key |-> key, ttl |-> ttl,
                                            version |-> 0, since |-> puts, keys |-> keys]]
        /\ UNCHANGED <<store, cleared, overlapped>>
    BY <1>3, <2>3, <2>4, <2>5 DEF cacheFlush, cacheHistory
  <2>7. /\ caller' \in [Callers -> Calls] /\ \A d \in Callers \ {c} : caller'[d] = caller[d]
        /\ caller'[c].pc = "clearing" /\ caller'[c].since = puts
    BY <2>6, CacheBasics, FlushingFacts
  <2>8. ~ At(c, "storing")' /\ caller'[c].since <= puts
    BY <2>7, CacheBasics DEF At
  <2>9. CacheFacts'
    BY <1>1, <1>2, <1>3, <2>6, <2>7, <2>8, QuietCache
  <2>. QED
    BY <1>1, <2>6, <2>7, <2>9, CacheBasics, SameTypes
<1>4. CASE ~ Redis
  <2>1. store' = <<>> /\ cleared' = [k \in CacheKeys |-> puts] /\ UNCHANGED <<caller, overlapped>>
    BY <1>4 DEF cacheFlush
  <2>2. IsStore(store') /\ DOMAIN store' = {}
    BY <2>1, NoEntries
  <2>3. /\ cleared' \in [CacheKeys -> 0 .. MaxPuts]
        /\ \A k \in CacheKeys : cleared'[k] <= puts'
    BY <1>1, <2>1, CacheBasics
  <2>4. \A k : Excused(k)' <=> Excused(k)
    BY <2>1 DEF Excused, Forgets, At
  <2>5. StaleToStore' /\ InSteps'
    BY <1>1, <2>1, <2>4 DEF CacheFacts, StaleToStore, InSteps, At, Redis
  <2>6. InPlace' /\ StaleOnlyByOverlap' /\ ForgottenGone'
    BY <2>2 DEF InPlace, StaleOnlyByOverlap, ForgottenGone
  <2>7. CacheFacts'
    BY <2>3, <2>5, <2>6 DEF CacheFacts
  <2>. QED
    BY <1>1, <2>1, <2>2, <2>3, <2>7, CacheBasics, SameTypes
<1>. QED
  BY <1>3, <1>4

\* gc(), configure(), the passing of time.
LEMMA EntriesGoStep ==
    ASSUME CacheAssumption, CacheTypeOK, CacheFacts, gc \/ configure \/ passCacheTime
    PROVE  CacheTypeOK' /\ CacheFacts'
<1>1. UNCHANGED <<cacheDriver, source, puts, cleared, overlapped, caller>>
  BY DEF gc, configure, passCacheTime, cacheHistory
<1>2. /\ IsStore(store') /\ DOMAIN store' \subseteq DOMAIN store
      /\ \A p \in DOMAIN store' : store'[p] = store[p]
  <2>1. ASSUME NEW places, store' = Without(places)
        PROVE  /\ IsStore(store') /\ DOMAIN store' \subseteq DOMAIN store
               /\ \A p \in DOMAIN store' : store'[p] = store[p]
    BY <2>1, CacheBasics, FewerEntries
  <2>2. CASE store' = <<>>
    BY <2>2, NoEntries
  <2>3. CASE store' = store
    BY <2>3, CacheBasics
  <2>. QED
    BY <2>1, <2>2, <2>3 DEF gc, configure, passCacheTime
<1>3. CacheFacts'
  BY <1>1, <1>2, OnlyEntriesGo
<1>4. cacheClock' \in Nat \ {0}
  BY DEF gc, configure, passCacheTime, CacheTypeOK, CacheAssumption
<1>5. CacheTypeOK'
  BY <1>1, <1>2, <1>4 DEF CacheTypeOK, IsStore
<1>. QED
  BY <1>3, <1>5

\* Nothing is kept yet.
LEMMA CacheInitLemma ==
    ASSUME CacheAssumption, CacheInit
    PROVE  CacheTypeOK /\ CacheFacts
<1>1. DOMAIN <<>> = {} /\ <<>> \in [{} -> CacheEntry]
  <2>1. DOMAIN <<>> = {}
    OBVIOUS
  <2>2. <<>> \in [{} -> CacheEntry]
    OBVIOUS
  <2>. QED
    BY <2>1, <2>2
<1>2. /\ \A c \in Callers : caller[c].pc = "idle"
      /\ caller \in [Callers -> {IdleCaller} \cup InCall]
  BY DEF CacheInit, IdleCaller
<1>3. CacheTypeOK
  BY <1>1, <1>2 DEF CacheInit, CacheTypeOK, CacheAssumption
<1>4. CacheFacts
  BY <1>1, <1>2 DEF CacheInit, CacheFacts, InPlace, StaleToStore, InSteps, At, StaleOnlyByOverlap,
                    ForgottenGone
<1>. QED
  BY <1>3, <1>4

\* Every command of every call keeps the invariant.
LEMMA CacheStep ==
    ASSUME CacheAssumption, CacheTypeOK, CacheFacts, [CacheNext]_cacheVars
    PROVE  CacheTypeOK' /\ CacheFacts'
<1>1. ASSUME NEW c \in Callers, NEW key \in CacheKeys,
             cacheGet(c, key) \/ pull(c, key) \/ change(c, key) \/ del(c, key)
      PROVE  CacheTypeOK' /\ CacheFacts'
  BY <1>1, ReadStep, PullStep, ChangeStep, DelStep
<1>2. ASSUME NEW c \in Callers, NEW key \in CacheKeys, NEW ttl \in Ttls,
             remember(c, key, ttl) \/ put(c, key, ttl)
      PROVE  CacheTypeOK' /\ CacheFacts'
  BY <1>2, ReadStep, PutStep
<1>3. ASSUME NEW c \in Callers,
             \/ called(c) \/ cacheSet(c) \/ forget(c)
             \/ cacheFlush(c) \/ pulled(c) \/ dropped(c)
      PROVE  CacheTypeOK' /\ CacheFacts'
  BY <1>3, CalledStep, SetStep, ForgetCallStep, FlushStep, PulledStep, DroppedStep
<1>4. ASSUME UNCHANGED cacheVars
      PROVE  CacheTypeOK' /\ CacheFacts'
  <2>1. /\ UNCHANGED <<cacheDriver, source, puts, cleared, overlapped, caller>>
        /\ UNCHANGED <<store, cacheClock>>
    BY <1>4 DEF cacheVars
  <2>2. CacheFacts'
    BY <2>1, OnlyEntriesGo
  <2>. QED
    BY <2>1, <2>2, CacheBasics, SameTypes
<1>. QED
  BY <1>1, <1>2, <1>3, <1>4, EntriesGoStep DEF CacheNext

\* The inductive invariant of the cache and its callers.
THEOREM CacheInductive == CacheSpec => []CacheInv
<1>1. CacheInv <=> CacheTypeOK /\ CacheFacts
  BY DEF CacheInv, CacheFacts
<1>2. CacheInit => CacheInv
  BY <1>1, CacheInitLemma, CacheAssumption
<1>3. CacheInv /\ [CacheNext]_cacheVars => CacheInv'
  <2>1. CacheInv' <=> CacheTypeOK' /\ CacheFacts'
    BY DEF CacheInv, CacheFacts
  <2>. QED
    BY <1>1, <2>1, CacheStep, CacheAssumption
<1>. QED
  BY <1>2, <1>3, PTL DEF CacheSpec

\* remember(), forget(), pull(), flush(): whatever callers do between the commands of
\* a call, no entry is older than its source unless it is excused, and what was
\* forgotten is gone.
THEOREM CacheFreshHolds == CacheSpec => []CacheFresh
<1>1. CacheInv => CacheFresh
  BY DEF CacheInv, CacheFresh
<1>. QED
  BY <1>1, CacheInductive, PTL

-----------------------------------------------------------------------------
(* Uploads: calls and their types.                                         *)

UploadStates == {NoUpload} \cup {UploadResult(b) : b \in BOOLEAN} \cup UploadCall

\* save() is called.
LEMMA SavedCall ==
    ASSUME MaxUploads \in Nat, NEW left \in Seq(UploadFile), NEW options \in UploadOptions, NEW y,
           y = [pc |-> "parsing", left |-> left, options |-> options, name |-> <<>>, id |-> 0,
                refused |-> FALSE]
    PROVE  y \in UploadCall /\ y.pc = "parsing"
<1>1. 0 \in 0 .. MaxUploads /\ <<>> \in FileNames \cup {<<>>} /\ FALSE \in BOOLEAN
  OBVIOUS
<1>. QED
  BY <1>1 DEF UploadCall

\* The call of a request changes; the others stay where they are.
LEMMA UploadMoves ==
    ASSUME upload \in [Uploaders -> UploadStates], NEW u \in Uploaders, NEW r \in UploadStates,
           upload' = [upload EXCEPT ![u] = r]
    PROVE  /\ upload' \in [Uploaders -> UploadStates] /\ upload'[u] = r
           /\ \A v \in Uploaders \ {u} : upload'[v] = upload[v]
  OBVIOUS

\* Who is neither idle nor answered is in a call.
LEMMA UploadCallOf ==
    ASSUME UploadsTypeOK, NEW u \in Uploaders,
           upload[u].pc \in {"parsing", "processing", "reading"}
    PROVE  /\ upload[u] \in UploadCall /\ upload[u].left \in Seq(UploadFile)
           /\ upload[u].options \in UploadOptions /\ upload[u].refused \in BOOLEAN
<1>1. /\ upload[u] \in UploadStates
      /\ NoUpload.pc = "idle" /\ \A b \in BOOLEAN : UploadResult(b).pc = "answered"
  BY DEF UploadsTypeOK, UploadStates, NoUpload, UploadResult
<1>2. upload[u] \in UploadCall
  BY <1>1 DEF UploadStates
<1>. QED
  BY <1>2 DEF UploadCall

\* A request is answered.
LEMMA AnsweredCall ==
    ASSUME NEW b \in BOOLEAN
    PROVE  UploadResult(b) \in UploadStates /\ UploadResult(b).pc = "answered"
  BY DEF UploadStates, UploadResult

\* The result of a file: the next one is held, or the request is answered.
LEMMA ResultFacts ==
    ASSUME UploadsAssumption, UploadsTypeOK, NEW u \in Uploaders, NEW refusal,
           upload[u] \in UploadCall, upload[u].left # <<>>, Result(u, refusal)
    PROVE  /\ upload' \in [Uploaders -> UploadStates]
           /\ \A v \in Uploaders \ {u} : upload'[v] = upload[v]
           /\ \/ upload'[u].pc = "answered"
              \/ upload'[u].pc = "processing" /\ upload'[u].left # <<>>
<1>1. PICK left : left = Tail(upload[u].left)
  OBVIOUS
<1>2. left \in Seq(UploadFile) /\ upload \in [Uploaders -> UploadStates] /\ MaxUploads \in Nat
  <2>1. upload[u].left \in Seq(UploadFile)
    BY DEF UploadCall
  <2>. QED
    BY <1>1, <2>1, TailFacts DEF UploadsTypeOK, UploadStates, UploadsAssumption
<1>3. PICK refused \in BOOLEAN : refused <=> upload[u].refused \/ refusal # "none"
  OBVIOUS
<1>4. CASE left = <<>>
  <2>1. PICK b \in BOOLEAN : b <=> ~ (upload[u].refused \/ refusal # "none")
    OBVIOUS
  <2>2. PICK r \in UploadStates : r = UploadResult(b) /\ r.pc = "answered"
    BY AnsweredCall
  <2>3. upload' = [upload EXCEPT ![u] = r]
    BY <1>1, <1>4, <2>1, <2>2 DEF Result
  <2>. QED
    BY <1>2, <2>2, <2>3, UploadMoves
<1>5. CASE left # <<>>
  <2>1. PICK x \in UploadCall : x = upload[u]
    OBVIOUS
  <2>2. PICK r : r = [x EXCEPT !.pc = "processing", !.left = left, !.name = <<>>, !.id = 0,
                               !.refused = refused]
    OBVIOUS
  <2>3. r \in UploadCall /\ r.pc = "processing" /\ r.left = left
    <3>1. 0 \in 0 .. MaxUploads /\ <<>> \in FileNames \cup {<<>>}
      BY <1>2
    <3>. QED
      BY <1>2, <2>2, <3>1 DEF UploadCall
  <2>4. upload' = [upload EXCEPT ![u] = r]
    BY <1>1, <1>3, <1>5, <2>1, <2>2 DEF Result
  <2>5. r \in UploadStates
    BY <2>3 DEF UploadStates
  <2>. QED
    BY <1>2, <1>5, <2>3, <2>4, <2>5, UploadMoves
<1>. QED
  BY <1>4, <1>5

\* generateFileName().
LEMMA FileNameType ==
    ASSUME NEW f \in UploadFile, instant \in Nat, uploads \in Nat, NEW naming
    PROVE  FileName(f, naming) \in FileNames
<1>1. f.name \in STRING
  BY DEF UploadFile
<1>2. /\ \A k \in {"original", "timestamp", "hash"}, n \in Nat, s \in STRING :
            <<k, n, s>> \in FileNames
      /\ \A n \in Nat : <<"uuid", n>> \in FileNames
  BY DEF FileNames
<1>3. FileName(f, naming) \in {<<"original", 0, f.name>>, <<"timestamp", instant, f.name>>,
                               <<"hash", uploads + 1, f.name>>, <<"uuid", uploads + 1>>}
  BY DEF FileName
<1>4. 0 \in Nat /\ uploads + 1 \in Nat
  OBVIOUS
<1>5. {<<"original", 0, f.name>>, <<"timestamp", instant, f.name>>,
       <<"hash", uploads + 1, f.name>>, <<"uuid", uploads + 1>>} \subseteq FileNames
  BY <1>1, <1>2, <1>4
<1>. QED
  BY <1>3, <1>5

-----------------------------------------------------------------------------
(* Uploads: what the directory holds.                                      *)

UploadFacts == HoldsFile /\ FoundFree /\ StoredAsTold

\* The types, one by one.
LEMMA UploadTypes ==
    ASSUME UploadsAssumption, UploadsTypeOK
    PROVE  /\ upload \in [Uploaders -> UploadStates]
           /\ uploads \in Nat /\ instant \in Nat /\ uploads <= MaxUploads /\ MaxUploads \in Nat
           /\ \A n \in DOMAIN directory : directory[n] \in 0 .. MaxUploads
           /\ \A n \in DOMAIN promised : promised[n] \in 1 .. uploads
  BY DEF UploadsAssumption, UploadsTypeOK, UploadStates, Range

\* ... and together.
LEMMA UploadTypesMet ==
    ASSUME htaccess' \in BOOLEAN, uploads' \in 0 .. MaxUploads, instant' \in 0 .. MaxInstant,
           upload' \in [Uploaders -> UploadStates],
           \A n \in DOMAIN directory' : directory'[n] \in 0 .. MaxUploads,
           \A n \in DOMAIN promised' : promised'[n] \in 1 .. uploads'
    PROVE  UploadsTypeOK'
  BY DEF UploadsTypeOK, UploadStates, Range

\* A step of one request that touches no file.
LEMMA QuietUpload ==
    ASSUME UploadsAssumption, UploadsTypeOK, UploadFacts,
           UNCHANGED <<directory, htaccess, promised, coincided, clobbered, instant>>,
           uploads' \in {uploads, uploads + 1}, uploads' \in 0 .. MaxUploads,
           NEW u \in Uploaders, upload' \in [Uploaders -> UploadStates],
           \A v \in Uploaders \ {u} : upload'[v] = upload[v],
           ~ ReadsFile(u)', upload'[u].pc = "processing" => upload'[u].left # <<>>
    PROVE  UploadsTypeOK' /\ UploadFacts'
<1>1. \A n \in Nat : n \in 1 .. uploads => n \in 1 .. uploads'
  BY UploadTypes
<1>2. UploadsTypeOK'
  <2>1. \A n \in DOMAIN promised' : promised'[n] \in 1 .. uploads'
    BY <1>1, UploadTypes
  <2>. QED
    BY <2>1, UploadTypes, UploadTypesMet DEF UploadsTypeOK
<1>3. HoldsFile'
  <2>1. ASSUME NEW v \in Uploaders
        PROVE  /\ upload'[v].pc \in {"processing", "reading"} => upload'[v].left # <<>>
               /\ ReadsFile(v)' => upload'[v].id \in 1 .. uploads'
    <3>1. CASE v = u
      BY <3>1 DEF ReadsFile
    <3>2. CASE v # u
      <4>1. upload'[v] = upload[v]
        BY <3>2
      <4>2. \A n : n \in 1 .. uploads => n \in 1 .. uploads'
        BY <1>1
      <4>. QED
        BY <4>1, <4>2 DEF UploadFacts, HoldsFile, ReadsFile
    <3>. QED
      BY <3>1, <3>2
  <2>. QED
    BY <2>1 DEF HoldsFile
<1>4. FoundFree'
  BY DEF UploadFacts, FoundFree, ReadsFile, Options
<1>5. StoredAsTold'
  BY DEF UploadFacts, StoredAsTold
<1>. QED
  BY <1>2, <1>3, <1>4, <1>5 DEF UploadFacts

\* save(), saveMany() and formData().
LEMMA SavesStep ==
    ASSUME UploadsAssumption, UploadsTypeOK, UploadFacts, NEW u \in Uploaders,
           NEW fields \in Fields, NEW options \in UploadOptions, NEW many \in BOOLEAN,
           saves(u, fields, options, many)
    PROVE  UploadsTypeOK' /\ UploadFacts'
<1>1. fields \in Seq(UploadFile)
  BY DEF UploadsAssumption
<1>2. PICK left : left = IF many \/ fields = <<>> THEN fields ELSE <<Head(fields)>>
  OBVIOUS
<1>3. left \in Seq(UploadFile)
  <2>1. fields # <<>> => Head(fields) \in UploadFile
    BY <1>1, TailFacts
  <2>2. fields # <<>> => <<Head(fields)>> \in Seq(UploadFile)
    BY <2>1
  <2>. QED
    BY <1>1, <1>2, <2>2
<1>4. PICK r : r = [pc |-> "parsing", left |-> left, options |-> options, name |-> <<>>, id |-> 0,
                    refused |-> FALSE]
  OBVIOUS
<1>5. r \in UploadCall /\ r.pc = "parsing"
  BY <1>3, <1>4, SavedCall DEF UploadsAssumption
<1>6. upload' = [upload EXCEPT ![u] = r]
  BY <1>2, <1>4 DEF saves
<1>7. /\ upload' \in [Uploaders -> UploadStates] /\ upload'[u] = r
      /\ \A v \in Uploaders \ {u} : upload'[v] = upload[v]
  <2>1. r \in UploadStates
    BY <1>5 DEF UploadStates
  <2>. QED
    BY <1>6, <2>1, UploadTypes, UploadMoves
<1>8. UNCHANGED <<directory, htaccess, uploads, instant, promised, coincided, clobbered>>
  BY DEF saves
<1>9. ~ ReadsFile(u)' /\ uploads' \in 0 .. MaxUploads
  BY <1>5, <1>7, <1>8 DEF ReadsFile, UploadsTypeOK
<1>. QED
  BY <1>5, <1>7, <1>8, <1>9, QuietUpload

\* formData() resolves, or leaves nothing to process.
LEMMA ParsedStep ==
    ASSUME UploadsAssumption, UploadsTypeOK, UploadFacts, NEW u \in Uploaders, parsed(u)
    PROVE  UploadsTypeOK' /\ UploadFacts'
<1>1. /\ upload[u].pc = "parsing"
      /\ UNCHANGED <<directory, htaccess, uploads, instant, promised, coincided, clobbered>>
  BY DEF parsed
<1>2. upload[u] \in UploadCall /\ upload[u].left \in Seq(UploadFile)
  BY <1>1, UploadCallOf
<1>3. PICK left \in {upload[u].left, <<>>} :
         upload' = [upload EXCEPT ![u] = IF left = <<>> THEN UploadResult(FALSE)
                       ELSE [upload[u] EXCEPT !.pc = "processing", !.left = left]]
  BY DEF parsed
<1>4. /\ upload' \in [Uploaders -> UploadStates]
      /\ \A v \in Uploaders \ {u} : upload'[v] = upload[v]
      /\ ~ ReadsFile(u)' /\ (upload'[u].pc = "processing" => upload'[u].left # <<>>)
  <2>1. CASE left = <<>>
    <3>1. PICK r \in UploadStates : r = UploadResult(FALSE) /\ r.pc = "answered"
      BY AnsweredCall
    <3>2. upload' = [upload EXCEPT ![u] = r]
      BY <1>3, <2>1, <3>1
    <3>3. /\ upload' \in [Uploaders -> UploadStates] /\ upload'[u] = r
          /\ \A v \in Uploaders \ {u} : upload'[v] = upload[v]
      BY <3>2, UploadTypes, UploadMoves
    <3>. QED
      BY <3>1, <3>3 DEF ReadsFile
  <2>2. CASE left # <<>>
    <3>1. PICK x \in UploadCall : x = upload[u]
      BY <1>2
    <3>2. PICK r : r = [x EXCEPT !.pc = "processing", !.left = left]
      OBVIOUS
    <3>3. left \in Seq(UploadFile)
      BY <1>2, <2>2
    <3>4. r \in UploadCall /\ r.pc = "processing" /\ r.left = left
      BY <3>2, <3>3 DEF UploadCall
    <3>5. r \in UploadStates
      BY <3>4 DEF UploadStates
    <3>6. upload' = [upload EXCEPT ![u] = r]
      BY <1>3, <2>2, <3>1, <3>2
    <3>7. /\ upload' \in [Uploaders -> UploadStates] /\ upload'[u] = r
          /\ \A v \in Uploaders \ {u} : upload'[v] = upload[v]
      BY <3>5, <3>6, UploadTypes, UploadMoves
    <3>. QED
      BY <2>2, <3>4, <3>7 DEF ReadsFile
  <2>. QED
    BY <2>1, <2>2
<1>5. uploads' \in 0 .. MaxUploads
  BY <1>1 DEF UploadsTypeOK
<1>. QED
  BY <1>1, <1>4, <1>5, QuietUpload

\* processFile(): whoever takes up a file found its name free, if it had to be.
LEMMA ProcessesStep ==
    ASSUME UploadsAssumption, UploadsTypeOK, UploadFacts, NEW u \in Uploaders, processes(u)
    PROVE  UploadsTypeOK' /\ UploadFacts'
<1>1. /\ upload[u].pc = "processing" /\ uploads < MaxUploads /\ uploads' = uploads + 1
      /\ UNCHANGED <<directory, htaccess, instant, promised, clobbered>>
  BY DEF processes
<1>2. /\ upload[u] \in UploadCall /\ upload[u].left \in Seq(UploadFile) /\ upload[u].left # <<>>
  BY <1>1, UploadCallOf DEF UploadFacts, HoldsFile
<1>3. uploads' \in 0 .. MaxUploads /\ uploads + 1 \in 0 .. MaxUploads /\ uploads \in Nat
  BY <1>1, UploadTypes
<1>4. ASSUME NEW refusal, Result(u, refusal), UNCHANGED coincided
      PROVE  UploadsTypeOK' /\ UploadFacts'
  <2>1. /\ upload' \in [Uploaders -> UploadStates]
        /\ \A v \in Uploaders \ {u} : upload'[v] = upload[v]
        /\ \/ upload'[u].pc = "answered"
           \/ upload'[u].pc = "processing" /\ upload'[u].left # <<>>
    BY <1>2, <1>4, ResultFacts
  <2>2. ~ ReadsFile(u)'
    BY <2>1 DEF ReadsFile
  <2>. QED
    BY <1>1, <1>3, <1>4, <2>1, <2>2, QuietUpload
<1>5. PICK f : f = File(u)
  OBVIOUS
<1>6. PICK o : o = Options(u)
  OBVIOUS
<1>7. PICK name : name = FileName(f, o.naming)
  OBVIOUS
<1>8. ASSUME ~ Taken(name, o),
             upload' = [upload EXCEPT ![u] = [upload[u] EXCEPT !.pc = "reading", !.name = name,
                                                               !.id = uploads + 1]],
             coincided' = IF ReadingSame(u, name) THEN coincided \cup {name} ELSE coincided
      PROVE  UploadsTypeOK' /\ UploadFacts'
  <2>1. name \in FileNames
    <3>1. f \in UploadFile
      BY <1>2, <1>5, TailFacts DEF File
    <3>. QED
      BY <1>7, <3>1, FileNameType, UploadTypes
  <2>2. PICK x \in UploadCall : x = upload[u]
    BY <1>2
  <2>3. PICK r : r = [x EXCEPT !.pc = "reading", !.name = name, !.id = uploads + 1]
    OBVIOUS
  <2>4. /\ r \in UploadCall /\ r.pc = "reading" /\ r.left = x.left
        /\ r.name = name /\ r.id = uploads + 1 /\ r.options = x.options
    BY <1>3, <2>1, <2>3 DEF UploadCall
  <2>5. r \in UploadStates
    BY <2>4 DEF UploadStates
  <2>6. upload' = [upload EXCEPT ![u] = r]
    BY <1>8, <2>2, <2>3
  <2>7. /\ upload' \in [Uploaders -> UploadStates] /\ upload'[u] = r
        /\ \A v \in Uploaders \ {u} : upload'[v] = upload[v]
    BY <2>5, <2>6, UploadTypes, UploadMoves
  <2>8. \A n : n \in 1 .. uploads => n \in 1 .. uploads'
    BY <1>1, <1>3
  <2>9. UploadsTypeOK'
    <3>1. \A n \in DOMAIN promised' : promised'[n] \in 1 .. uploads'
      BY <1>1, <2>8, UploadTypes
    <3>. QED
      BY <1>1, <1>3, <2>7, <3>1, UploadTypes, UploadTypesMet DEF UploadsTypeOK
  <2>10. HoldsFile'
    <3>1. ASSUME NEW v \in Uploaders
          PROVE  /\ upload'[v].pc \in {"processing", "reading"} => upload'[v].left # <<>>
                 /\ ReadsFile(v)' => upload'[v].id \in 1 .. uploads'
      <4>1. CASE v = u
        <5>1. uploads + 1 \in 1 .. uploads'
          BY <1>1, <1>3
        <5>. QED
          BY <1>2, <2>2, <2>4, <2>7, <4>1, <5>1
      <4>2. CASE v # u
        <5>1. upload'[v] = upload[v]
          BY <2>7, <4>2
        <5>. QED
          BY <2>8, <5>1 DEF UploadFacts, HoldsFile, ReadsFile
      <4>. QED
        BY <4>1, <4>2
    <3>. QED
      BY <3>1 DEF HoldsFile
  <2>11. coincided \subseteq coincided'
    BY <1>8
  <2>12. ASSUME NEW v \in Uploaders \ {u}, ReadsFile(v), upload[v].name = name
         PROVE  name \in coincided'
    BY <1>8, <2>12 DEF ReadingSame, ReadsFile
  <2>13. ~ Options(u).overwrite => name \notin DOMAIN promised
    BY <1>6, <1>8 DEF Taken, UploadFacts, StoredAsTold
  <2>14. FoundFree'
    <3>1. ASSUME NEW v \in Uploaders, ReadsFile(v)', NEW w \in Uploaders \ {v}, ReadsFile(w)',
                 upload'[w].name = upload'[v].name
          PROVE  upload'[v].name \in coincided'
      <4>1. CASE v = u
        <5>1. upload'[w] = upload[w] /\ w \in Uploaders \ {u} /\ upload'[v].name = name
          BY <2>4, <2>7, <3>1, <4>1
        <5>. QED
          BY <2>12, <3>1, <5>1 DEF ReadsFile
      <4>2. CASE w = u
        <5>1. upload'[v] = upload[v] /\ v \in Uploaders \ {u} /\ upload'[v].name = name
          BY <2>4, <2>7, <3>1, <4>2
        <5>. QED
          BY <2>12, <3>1, <5>1 DEF ReadsFile
      <4>3. CASE v # u /\ w # u
        <5>1. upload'[v] = upload[v] /\ upload'[w] = upload[w]
          BY <2>7, <4>3
        <5>. QED
          BY <2>11, <3>1, <5>1 DEF UploadFacts, FoundFree, ReadsFile
      <4>. QED
        BY <4>1, <4>2, <4>3
    <3>2. ASSUME NEW v \in Uploaders, ReadsFile(v)', ~ upload'[v].options.overwrite,
                 upload'[v].name \in DOMAIN promised
          PROVE  upload'[v].name \in coincided'
      <4>1. CASE v = u
        <5>1. upload'[v].name = name /\ upload'[v].options = upload[u].options
          BY <2>2, <2>4, <2>7, <4>1
        <5>. QED
          BY <2>13, <3>2, <5>1 DEF Options
      <4>2. CASE v # u
        <5>1. upload'[v] = upload[v]
          BY <2>7, <4>2
        <5>. QED
          BY <2>11, <3>2, <5>1 DEF UploadFacts, FoundFree, ReadsFile, Options
      <4>. QED
        BY <4>1, <4>2
    <3>. QED
      BY <1>1, <3>1, <3>2 DEF FoundFree, Options
  <2>15. StoredAsTold'
    BY <1>1, <2>11 DEF UploadFacts, StoredAsTold
  <2>. QED
    BY <2>9, <2>10, <2>14, <2>15 DEF UploadFacts
<1>. QED
  BY <1>4, <1>5, <1>6, <1>7, <1>8 DEF processes

\* A request that read a file is through with it: its name at most is promised
\* now, and it has taken the place of another file only where the name coincided.
LEMMA ThroughWithFile ==
    ASSUME UploadsAssumption, UploadsTypeOK, UploadFacts, NEW u \in Uploaders, NEW refusal,
           ReadsFile(u), Result(u, refusal), UNCHANGED <<uploads, instant, coincided>>,
           htaccess' \in BOOLEAN, NEW name, name = upload[u].name,
           \A n \in DOMAIN directory' : directory'[n] \in 0 .. MaxUploads,
           \A n \in DOMAIN promised' : promised'[n] \in 1 .. uploads,
           DOMAIN promised' \subseteq DOMAIN promised \cup {name},
           clobbered' \subseteq clobbered \cup {name},
           name \in clobbered' =>
              name \in clobbered \/ (name \in DOMAIN promised /\ ~ Options(u).overwrite),
           \A n \in DOMAIN promised' : n \in DOMAIN directory' /\ directory'[n] = promised'[n]
    PROVE  UploadsTypeOK' /\ UploadFacts'
<1>1. upload[u] \in UploadCall /\ upload[u].left # <<>>
  BY UploadCallOf DEF UploadFacts, HoldsFile, ReadsFile
<1>2. /\ upload' \in [Uploaders -> UploadStates]
      /\ \A v \in Uploaders \ {u} : upload'[v] = upload[v]
      /\ \/ upload'[u].pc = "answered"
         \/ upload'[u].pc = "processing" /\ upload'[u].left # <<>>
  BY <1>1, ResultFacts
<1>3. ~ ReadsFile(u)' /\ \A v \in Uploaders : ReadsFile(v)' => v # u /\ upload'[v] = upload[v]
  BY <1>2 DEF ReadsFile
<1>4. UploadsTypeOK'
  BY <1>2, UploadTypes, UploadTypesMet DEF UploadsTypeOK
<1>5. HoldsFile'
  <2>1. ASSUME NEW v \in Uploaders
        PROVE  /\ upload'[v].pc \in {"processing", "reading"} => upload'[v].left # <<>>
               /\ ReadsFile(v)' => upload'[v].id \in 1 .. uploads'
    <3>1. CASE v = u
      BY <1>2, <1>3, <3>1
    <3>2. CASE v # u
      BY <1>2, <3>2 DEF UploadFacts, HoldsFile, ReadsFile
    <3>. QED
      BY <3>1, <3>2
  <2>. QED
    BY <2>1 DEF HoldsFile
<1>6. FoundFree'
  <2>1. ASSUME NEW v \in Uploaders, ReadsFile(v)', NEW w \in Uploaders \ {v}, ReadsFile(w)',
               upload'[w].name = upload'[v].name
        PROVE  upload'[v].name \in coincided'
    BY <1>3, <2>1 DEF UploadFacts, FoundFree, ReadsFile
  <2>2. ASSUME NEW v \in Uploaders, ReadsFile(v)', ~ upload'[v].options.overwrite,
               upload'[v].name \in DOMAIN promised'
        PROVE  upload'[v].name \in coincided'
    <3>1. v # u /\ upload'[v] = upload[v] /\ ReadsFile(v)
      BY <1>3, <2>2 DEF ReadsFile
    <3>2. CASE upload[v].name = name
      BY <3>1, <3>2 DEF UploadFacts, FoundFree
    <3>3. CASE upload[v].name # name
      BY <2>2, <3>1, <3>3 DEF UploadFacts, FoundFree, Options
    <3>. QED
      BY <3>2, <3>3
  <2>. QED
    BY <2>1, <2>2 DEF FoundFree, Options
<1>7. StoredAsTold'
  <2>1. name \in DOMAIN promised /\ ~ Options(u).overwrite => name \in coincided
    BY DEF UploadFacts, FoundFree
  <2>. QED
    BY <2>1 DEF UploadFacts, StoredAsTold
<1>. QED
  BY <1>4, <1>5, <1>6, <1>7 DEF UploadFacts

\* writeFileSync(): the file holds what its result tells of.
LEMMA WritesStep ==
    ASSUME UploadsAssumption, UploadsTypeOK, UploadFacts, NEW u \in Uploaders, writes(u)
    PROVE  UploadsTypeOK' /\ UploadFacts'
<1>1. PICK name : name = upload[u].name
  OBVIOUS
<1>2. PICK id : id = upload[u].id
  OBVIOUS
<1>3. /\ ReadsFile(u) /\ Result(u, "none") /\ UNCHANGED <<uploads, instant, coincided>>
      /\ directory' = Keeping(directory, name, id) /\ promised' = Keeping(promised, name, id)
      /\ htaccess' \in {htaccess, TRUE}
      /\ clobbered' = IF name \in DOMAIN promised /\ ~ Options(u).overwrite
                      THEN clobbered \cup {name} ELSE clobbered
  BY <1>1, <1>2 DEF writes, ReadsFile
<1>4. id \in 1 .. uploads /\ id \in 0 .. MaxUploads
  <2>1. id \in 1 .. uploads
    BY <1>2, <1>3 DEF UploadFacts, HoldsFile
  <2>. QED
    BY <2>1, UploadTypes
<1>5. /\ DOMAIN directory' = DOMAIN directory \cup {name} /\ directory'[name] = id
      /\ \A n \in DOMAIN directory : n # name => directory'[n] = directory[n]
  BY <1>3 DEF Keeping
<1>6. /\ DOMAIN promised' = DOMAIN promised \cup {name} /\ promised'[name] = id
      /\ \A n \in DOMAIN promised : n # name => promised'[n] = promised[n]
  BY <1>3 DEF Keeping
<1>7. /\ \A n \in DOMAIN directory' : directory'[n] \in 0 .. MaxUploads
      /\ \A n \in DOMAIN promised' : promised'[n] \in 1 .. uploads
  BY <1>4, <1>5, <1>6, UploadTypes
<1>8. \A n \in DOMAIN promised' : n \in DOMAIN directory' /\ directory'[n] = promised'[n]
  BY <1>5, <1>6 DEF UploadFacts, StoredAsTold
<1>9. /\ htaccess' \in BOOLEAN /\ clobbered' \subseteq clobbered \cup {name}
      /\ name \in clobbered' =>
            name \in clobbered \/ (name \in DOMAIN promised /\ ~ Options(u).overwrite)
  BY <1>3 DEF UploadsTypeOK
<1>. QED
  BY <1>1, <1>3, <1>6, <1>7, <1>8, <1>9, ThroughWithFile

\* A file that could not be read, or not be written whole, is promised to nobody.
LEMMA FailsStep ==
    ASSUME UploadsAssumption, UploadsTypeOK, UploadFacts, NEW u \in Uploaders, fails(u)
    PROVE  UploadsTypeOK' /\ UploadFacts'
<1>1. PICK name : name = upload[u].name
  OBVIOUS
<1>2. /\ ReadsFile(u) /\ Result(u, "failed")
      /\ UNCHANGED <<htaccess, uploads, instant, coincided>> /\ htaccess' \in BOOLEAN
  BY DEF fails, ReadsFile, UploadsTypeOK
<1>3. \/ UNCHANGED <<directory, promised, clobbered>>
      \/ /\ directory' = Keeping(directory, name, 0)
         /\ clobbered' = IF name \in DOMAIN promised /\ ~ Options(u).overwrite
                         THEN clobbered \cup {name} ELSE clobbered
         /\ promised' = Dropping(promised, name)
  BY <1>1 DEF fails
<1>4. ASSUME UNCHANGED <<directory, promised, clobbered>>
      PROVE  UploadsTypeOK' /\ UploadFacts'
  <2>1. /\ \A n \in DOMAIN directory' : directory'[n] \in 0 .. MaxUploads
        /\ \A n \in DOMAIN promised' : promised'[n] \in 1 .. uploads
    BY <1>4, UploadTypes
  <2>2. \A n \in DOMAIN promised' : n \in DOMAIN directory' /\ directory'[n] = promised'[n]
    BY <1>4 DEF UploadFacts, StoredAsTold
  <2>3. /\ DOMAIN promised' \subseteq DOMAIN promised \cup {name}
        /\ clobbered' \subseteq clobbered \cup {name}
        /\ name \in clobbered' => name \in clobbered
    BY <1>4
  <2>. QED
    BY <1>1, <1>2, <2>1, <2>2, <2>3, ThroughWithFile
<1>5. ASSUME directory' = Keeping(directory, name, 0), promised' = Dropping(promised, name),
             clobbered' = IF name \in DOMAIN promised /\ ~ Options(u).overwrite
                          THEN clobbered \cup {name} ELSE clobbered
      PROVE  UploadsTypeOK' /\ UploadFacts'
  <2>1. /\ DOMAIN directory' = DOMAIN directory \cup {name} /\ directory'[name] = 0
        /\ \A n \in DOMAIN directory : n # name => directory'[n] = directory[n]
    BY <1>5 DEF Keeping
  <2>2. /\ DOMAIN promised' = DOMAIN promised \ {name}
        /\ \A n \in DOMAIN promised' : promised'[n] = promised[n]
    BY <1>5 DEF Dropping
  <2>3. 0 \in 0 .. MaxUploads
    BY UploadTypes
  <2>4. /\ \A n \in DOMAIN directory' : directory'[n] \in 0 .. MaxUploads
        /\ \A n \in DOMAIN promised' : promised'[n] \in 1 .. uploads
    BY <2>1, <2>2, <2>3, UploadTypes
  <2>5. \A n \in DOMAIN promised' : n \in DOMAIN directory' /\ directory'[n] = promised'[n]
    BY <2>1, <2>2 DEF UploadFacts, StoredAsTold
  <2>6. /\ DOMAIN promised' \subseteq DOMAIN promised \cup {name}
        /\ clobbered' \subseteq clobbered \cup {name}
        /\ name \in clobbered' =>
              name \in clobbered \/ (name \in DOMAIN promised /\ ~ Options(u).overwrite)
    BY <1>5, <2>2
  <2>. QED
    BY <1>1, <1>2, <2>4, <2>5, <2>6, ThroughWithFile
<1>. QED
  BY <1>3, <1>4, <1>5

\* delete(): whoever deletes a file takes the promise of it back.
LEMMA DeletesStep ==
    ASSUME UploadsAssumption, UploadsTypeOK, UploadFacts, NEW name, deletesFile(name)
    PROVE  UploadsTypeOK' /\ UploadFacts'
<1>1. /\ directory' = Dropping(directory, name) /\ promised' = Dropping(promised, name)
      /\ UNCHANGED <<htaccess, upload, uploads, instant, coincided, clobbered>>
  BY DEF deletesFile
<1>2. /\ DOMAIN directory' = DOMAIN directory \ {name}
      /\ \A n \in DOMAIN directory' : directory'[n] = directory[n]
  BY <1>1 DEF Dropping
<1>3. /\ DOMAIN promised' = DOMAIN promised \ {name}
      /\ \A n \in DOMAIN promised' : promised'[n] = promised[n]
  BY <1>1 DEF Dropping
<1>4. UploadsTypeOK'
  <2>1. /\ \A n \in DOMAIN directory' : directory'[n] \in 0 .. MaxUploads
        /\ \A n \in DOMAIN promised' : promised'[n] \in 1 .. uploads'
    BY <1>1, <1>2, <1>3, UploadTypes
  <2>. QED
    BY <1>1, <2>1, UploadTypes, UploadTypesMet DEF UploadsTypeOK
<1>5. HoldsFile'
  BY <1>1 DEF UploadFacts, HoldsFile, ReadsFile
<1>6. FoundFree'
  BY <1>1, <1>3 DEF UploadFacts, FoundFree, ReadsFile, Options
<1>7. StoredAsTold'
  BY <1>1, <1>2, <1>3 DEF UploadFacts, StoredAsTold
<1>. QED
  BY <1>4, <1>5, <1>6, <1>7 DEF UploadFacts

\* Time passes, or nothing does.
LEMMA UploadsIdle ==
    ASSUME UploadsAssumption, UploadsTypeOK, UploadFacts, instant' \in 0 .. MaxInstant,
           UNCHANGED <<directory, htaccess, upload, uploads, promised, coincided, clobbered>>
    PROVE  UploadsTypeOK' /\ UploadFacts'
<1>1. UploadsTypeOK'
  BY DEF UploadsTypeOK
<1>2. HoldsFile' /\ FoundFree' /\ StoredAsTold'
  BY DEF UploadFacts, HoldsFile, FoundFree, StoredAsTold, ReadsFile, Options
<1>. QED
  BY <1>1, <1>2 DEF UploadFacts

\* The directory is empty, and nobody has uploaded anything.
LEMMA UploadsInitLemma == UploadsAssumption /\ UploadsInit => UploadsInv
<1>. SUFFICES ASSUME UploadsAssumption, UploadsInit
              PROVE  UploadsInv
  OBVIOUS
<1>1. DOMAIN directory = {} /\ DOMAIN promised = {}
  BY DEF UploadsInit
<1>2. \A u \in Uploaders : upload[u].pc = "idle"
  BY DEF UploadsInit, NoUpload
<1>3. UploadsTypeOK
  <2>1. Range(promised) = {} /\ 0 \in 0 .. MaxUploads /\ 0 \in 0 .. MaxInstant
    BY <1>1 DEF Range, UploadsAssumption
  <2>2. upload \in [Uploaders -> {NoUpload} \cup {UploadResult(b) : b \in BOOLEAN} \cup UploadCall]
    BY DEF UploadsInit
  <2>. QED
    BY <1>1, <2>1, <2>2 DEF UploadsInit, UploadsTypeOK
<1>4. HoldsFile /\ FoundFree
  BY <1>2 DEF HoldsFile, FoundFree, ReadsFile
<1>5. StoredAsTold
  BY <1>1 DEF UploadsInit, StoredAsTold
<1>. QED
  BY <1>3, <1>4, <1>5 DEF UploadsInv

\* Every step of the uploads keeps the invariant.
LEMMA UploadsStep == UploadsAssumption /\ UploadsInv /\ [UploadsNext]_uploadVars => UploadsInv'
<1>. SUFFICES ASSUME UploadsAssumption, UploadsInv, [UploadsNext]_uploadVars
              PROVE  UploadsTypeOK' /\ UploadFacts'
  BY DEF UploadsInv, UploadFacts
<1>1. UploadsTypeOK /\ UploadFacts
  BY DEF UploadsInv, UploadFacts
<1>2. ASSUME NEW u \in Uploaders, NEW f \in Fields, NEW o \in UploadOptions,
             NEW many \in BOOLEAN, saves(u, f, o, many)
      PROVE  UploadsTypeOK' /\ UploadFacts'
  BY <1>1, <1>2, SavesStep
<1>3. ASSUME NEW u \in Uploaders, parsed(u)
      PROVE  UploadsTypeOK' /\ UploadFacts'
  BY <1>1, <1>3, ParsedStep
<1>4. ASSUME NEW u \in Uploaders, processes(u)
      PROVE  UploadsTypeOK' /\ UploadFacts'
  BY <1>1, <1>4, ProcessesStep
<1>5. ASSUME NEW u \in Uploaders, writes(u)
      PROVE  UploadsTypeOK' /\ UploadFacts'
  BY <1>1, <1>5, WritesStep
<1>6. ASSUME NEW u \in Uploaders, fails(u)
      PROVE  UploadsTypeOK' /\ UploadFacts'
  BY <1>1, <1>6, FailsStep
<1>7. ASSUME NEW name, deletesFile(name)
      PROVE  UploadsTypeOK' /\ UploadFacts'
  BY <1>1, <1>7, DeletesStep
<1>8. CASE passInstant
  <2>1. instant' \in 0 .. MaxInstant
    BY <1>1, <1>8 DEF passInstant, UploadsAssumption, UploadsTypeOK
  <2>. QED
    BY <1>1, <1>8, <2>1, UploadsIdle DEF passInstant
<1>9. CASE UNCHANGED uploadVars
  BY <1>1, <1>9, UploadsIdle DEF uploadVars, UploadsTypeOK
<1>. QED
  BY <1>2, <1>3, <1>4, <1>5, <1>6, <1>7, <1>8, <1>9 DEF UploadsNext

\* The inductive invariant of the uploads (processFile, delete): with any number of
\* requests, files and options, whoever reads a file found its name free unless the
\* name has been given to two at once.
THEOREM UploadsInductive == UploadsSpec => []UploadsInv
<1>1. UploadsInit => UploadsInv
  BY UploadsInitLemma, UploadsAssumption
<1>2. UploadsInv /\ [UploadsNext]_uploadVars => UploadsInv'
  BY UploadsStep, UploadsAssumption
<1>. QED
  BY <1>1, <1>2, PTL DEF UploadsSpec

\* What a result told its caller is stored is there with its own content until it is
\* deleted or replaced with overwrite; without overwrite only requests that found
\* the name free at once replace one another.
THEOREM StoredAsToldHolds == UploadsSpec => []StoredAsTold
<1>1. UploadsInv => StoredAsTold
  BY DEF UploadsInv
<1>. QED
  BY <1>1, UploadsInductive, PTL

-----------------------------------------------------------------------------
(* The pipeline: requests and tokens.                                      *)

Exchanges == {NoExchange} \cup Exchange

\* A request changes its place; the others stay where they are.
LEMMA ExchangeMoves ==
    ASSUME exchange \in [Slots -> Exchanges], NEW s \in Slots, NEW r \in Exchanges,
           exchange' = [exchange EXCEPT ![s] = r]
    PROVE  /\ exchange' \in [Slots -> Exchanges] /\ exchange'[s] = r
           /\ \A t \in Slots \ {s} : exchange'[t] = exchange[t]
  OBVIOUS

\* A slot is empty or holds a request.
LEMMA ExchangeOf ==
    ASSUME PipelineTypeOK, NEW s \in Slots
    PROVE  /\ exchange \in [Slots -> Exchanges] /\ NoExchange.pc = "none"
           /\ Pc(s) # "none" => exchange[s] \in Exchange
  BY DEF PipelineTypeOK, Exchanges, NoExchange, Pc

\* Tokens and requests: all but the limits.
CsrfFacts == PassedSoFar /\ TokensKnown /\ PagesMatchCookie /\ CookiesMatch

\* The types of all but the limits.
CsrfTypes ==
    /\ clock \in Nat /\ clock <= MaxClock /\ asked \in 0 .. MaxRequests
    /\ jar \in [Browsers -> 0 .. MaxTokens] /\ pages \in [Browsers -> SUBSET Tokens]
    /\ expiry \in Seq(Nat) /\ Len(expiry) <= MaxTokens /\ raced \subseteq Browsers
    /\ exchange \in [Slots -> Exchanges]

\* A step of one request that takes no time, generates no token and leaves its
\* cookie as it is.
LEMMA QuietExchange ==
    ASSUME PipelineTypeOK, CsrfFacts, NEW s \in Slots, Pc(s) # "none",
           UNCHANGED <<clock, csrfVars>>, NEW r \in Exchanges,
           exchange' = [exchange EXCEPT ![s] = r], Passed(r),
           r.pc # "none" => /\ r.cookie = exchange[s].cookie /\ r.at = exchange[s].at
                            /\ r.browser = exchange[s].browser
    PROVE  CsrfFacts' /\ exchange' \in [Slots -> Exchanges]
<1>1. /\ exchange' \in [Slots -> Exchanges] /\ exchange'[s] = r
      /\ \A t \in Slots \ {s} : exchange'[t] = exchange[t]
  BY ExchangeOf, ExchangeMoves
<1>2. UNCHANGED <<clock, jar, pages, expiry, raced>>
  BY DEF csrfVars
<1>4. PassedSoFar'
  <2>1. ASSUME NEW t \in Slots
        PROVE  Passed(exchange'[t])
    BY <1>1 DEF CsrfFacts, PassedSoFar
  <2>. QED
    BY <1>2, <2>1 DEF PassedSoFar, Passed, LetPass, Effective, ChainOf
<1>5. TokensKnown'
  BY <1>1, <1>2 DEF CsrfFacts, TokensKnown, Pc
<1>6. PagesMatchCookie'
  BY <1>2 DEF CsrfFacts, PagesMatchCookie, Valid
<1>7. CookiesMatch'
  BY <1>1, <1>2 DEF CsrfFacts, CookiesMatch, Valid, Pc
<1>. QED
  BY <1>1, <1>4, <1>5, <1>6, <1>7 DEF CsrfFacts

\* A request in the pipeline has a chain of middlewares, one of which is in charge.
LEMMA ChainFacts ==
    ASSUME PipelineAssumption, NEW r \in Exchange, Passed(r), r.pc \in {"pipeline", "reading"},
           NEW chain, chain = ChainOf(r.path)
    PROVE  /\ Len(chain) \in Nat /\ DOMAIN chain = 1 .. Len(chain)
           /\ chain # <<>> => r.pos \in 1 .. Len(chain)
           /\ chain = <<>> => Len(chain) = 0
           /\ \A i \in DOMAIN chain : i < r.pos => LetPass(r, chain[i])
           /\ \A i \in DOMAIN chain : chain[i] \in Middleware
           /\ r.path \in DOMAIN Explicit
<1>1. r.path \in DOMAIN Explicit /\ (chain # <<>> => r.pos \in DOMAIN chain)
  BY DEF Passed
<1>2. chain \in Seq(Range(chain))
  BY <1>1 DEF ChainOf, PipelineAssumption
<1>3. Len(chain) \in Nat /\ DOMAIN chain = 1 .. Len(chain) /\ (chain = <<>> => Len(chain) = 0)
  BY <1>2, LenProperties
<1>4. \A i \in DOMAIN chain : chain[i] \in Middleware
  BY <1>1 DEF ChainOf, Middleware, Range
<1>5. \A i \in DOMAIN chain : i < r.pos => LetPass(r, chain[i])
  BY DEF Passed
<1>. QED
  BY <1>1, <1>3, <1>4, <1>5

\* next() leads on when the middleware in charge has let the request pass.
LEMMA NextFacts ==
    ASSUME PipelineAssumption, NEW r \in Exchange, Passed(r), r.pc \in {"pipeline", "reading"},
           ChainOf(r.path) # <<>>, LetPass(r, ChainOf(r.path)[r.pos]), NEW x, x = Next_(r)
    PROVE  /\ x \in Exchange /\ Passed(x)
           /\ x.cookie = r.cookie /\ x.at = r.at /\ x.browser = r.browser
<1>1. PICK chain : chain = ChainOf(r.path)
  OBVIOUS
<1>2. /\ Len(chain) \in Nat /\ DOMAIN chain = 1 .. Len(chain) /\ r.pos \in 1 .. Len(chain)
      /\ \A i \in DOMAIN chain : i < r.pos => LetPass(r, chain[i])
      /\ r.path \in DOMAIN Explicit
  BY <1>1, ChainFacts
<1>3. \A i \in DOMAIN chain : i <= r.pos => LetPass(r, chain[i])
  <2>1. ASSUME NEW i \in DOMAIN chain, i <= r.pos
        PROVE  LetPass(r, chain[i])
    <3>1. i < r.pos \/ i = r.pos
      BY <1>2, <2>1
    <3>. QED
      BY <1>1, <1>2, <3>1
  <2>. QED
    BY <2>1
<1>4. /\ x.path = r.path /\ x.passed = r.passed /\ x.method = r.method /\ x.cookie = r.cookie
      /\ x.field = r.field /\ x.at = r.at /\ x.browser = r.browser
  BY DEF Next_, Exchange
<1>5. \A m : LetPass(x, m) <=> LetPass(r, m)
  BY <1>4 DEF LetPass
<1>6. CASE r.pos < Len(chain)
  <2>1. x = [r EXCEPT !.pc = "pipeline", !.pos = r.pos + 1]
    BY <1>1, <1>6 DEF Next_
  <2>2. r.pos + 1 \in Nat /\ r.pos + 1 \in 1 .. Len(chain)
    BY <1>2, <1>6
  <2>3. x \in Exchange /\ x.pc = "pipeline" /\ x.pos = r.pos + 1
    BY <2>1, <2>2 DEF Exchange
  <2>4. \A i \in DOMAIN chain : i < x.pos => LetPass(x, chain[i])
    <3>1. \A i \in DOMAIN chain : i < r.pos + 1 => i <= r.pos
      BY <1>2
    <3>. QED
      BY <1>3, <1>5, <2>3, <3>1
  <2>. QED
    BY <1>1, <1>2, <1>4, <2>2, <2>3, <2>4 DEF Passed
<1>7. CASE ~ (r.pos < Len(chain))
  <2>1. x = [r EXCEPT !.pc = "binding"]
    BY <1>1, <1>7 DEF Next_
  <2>2. x \in Exchange /\ x.pc = "binding"
    BY <2>1 DEF Exchange
  <2>3. \A i \in DOMAIN chain : LetPass(x, chain[i])
    <3>1. \A i \in DOMAIN chain : i <= r.pos
      BY <1>2, <1>7
    <3>. QED
      BY <1>3, <1>5, <3>1
  <2>4. \A m \in Effective(x.path) : LetPass(x, m)
    BY <1>1, <1>4, <2>3 DEF Effective
  <2>. QED
    BY <1>4, <2>2, <2>4 DEF Passed
<1>. QED
  BY <1>6, <1>7

\* A slot that becomes empty.
LEMMA AnswerFacts == NoExchange \in Exchanges /\ NoExchange.pc = "none" /\ Passed(NoExchange)
<1>1. NoExchange \in Exchanges /\ NoExchange.pc = "none"
  BY DEF Exchanges, NoExchange
<1>. QED
  BY <1>1 DEF Passed

\* A request whose slot becomes empty.
LEMMA AnsweredStep ==
    ASSUME PipelineTypeOK, CsrfFacts, NEW s \in Slots, Pc(s) # "none",
           UNCHANGED <<clock, csrfVars>>, exchange' = Answer(s)
    PROVE  CsrfFacts' /\ exchange' \in [Slots -> Exchanges]
<1>1. PICK r \in Exchanges : r = NoExchange /\ r.pc = "none" /\ Passed(r)
  BY AnswerFacts
<1>2. exchange' = [exchange EXCEPT ![s] = r]
  BY <1>1 DEF Answer
<1>. QED
  BY <1>1, <1>2, QuietExchange

\* A request that next() leads on.
LEMMA ProceedStep ==
    ASSUME PipelineAssumption, PipelineTypeOK, CsrfFacts, NEW s \in Slots,
           Pc(s) \in {"pipeline", "reading"}, ChainOf(exchange[s].path) # <<>>,
           LetPass(exchange[s], MiddlewareOf(s)),
           UNCHANGED <<clock, csrfVars>>, exchange' = Proceed(s)
    PROVE  CsrfFacts' /\ exchange' \in [Slots -> Exchanges]
<1>1. PICK r \in Exchange : r = exchange[s] /\ r.pc = Pc(s) /\ Passed(r)
  BY ExchangeOf DEF CsrfFacts, PassedSoFar, Pc
<1>2. PICK x : x = Next_(r)
  OBVIOUS
<1>3. /\ x \in Exchange /\ Passed(x)
      /\ x.cookie = r.cookie /\ x.at = r.at /\ x.browser = r.browser
  BY <1>1, <1>2, NextFacts DEF MiddlewareOf
<1>4. x \in Exchanges /\ exchange' = [exchange EXCEPT ![s] = x]
  BY <1>1, <1>2, <1>3 DEF Exchanges, Proceed
<1>. QED
  BY <1>1, <1>3, <1>4, QuietExchange

\* skipped(): a silent middleware cuts off what comes after it.
LEMMA SkippedStep ==
    ASSUME PipelineAssumption, PipelineTypeOK, CsrfFacts, NEW s \in Slots, skipped(s)
    PROVE  CsrfFacts' /\ exchange' \in [Slots -> Exchanges]
<1>1. PICK r \in Exchange : r = exchange[s] /\ r.pc = "pipeline" /\ Passed(r)
  BY ExchangeOf DEF CsrfFacts, PassedSoFar, Pc, skipped
<1>2. PICK x : x = [r EXCEPT !.pc = "binding"]
  OBVIOUS
<1>3. /\ x \in Exchange /\ x.pc = "binding"
      /\ x.path = r.path /\ x.passed = r.passed /\ x.method = r.method /\ x.cookie = r.cookie
      /\ x.field = r.field /\ x.at = r.at /\ x.browser = r.browser
  BY <1>2 DEF Exchange
<1>4. \A m : LetPass(x, m) <=> LetPass(r, m)
  BY <1>3 DEF LetPass
<1>5. PICK chain : chain = ChainOf(r.path)
  OBVIOUS
<1>6. /\ Len(chain) \in Nat /\ DOMAIN chain = 1 .. Len(chain)
      /\ chain # <<>> => r.pos \in 1 .. Len(chain)
      /\ chain = <<>> => Len(chain) = 0
      /\ \A i \in DOMAIN chain : i < r.pos => LetPass(r, chain[i])
  BY <1>1, <1>5, ChainFacts
<1>7. \A m \in Effective(r.path) : LetPass(r, m)
  <2>1. CASE chain = <<>>
    BY <1>5, <1>6, <2>1 DEF Effective
  <2>2. CASE chain # <<>> /\ chain[r.pos].kind = "silent"
    <3>1. ASSUME NEW i \in DOMAIN chain, \A j \in 1 .. i : chain[j].kind # "silent"
          PROVE  i < r.pos
      BY <1>6, <2>2, <3>1
    <3>. QED
      BY <1>5, <1>6, <3>1 DEF Effective
  <2>. QED
    BY <1>1, <1>5, <2>1, <2>2 DEF skipped, InCharge
<1>8. Passed(x)
  BY <1>3, <1>4, <1>7 DEF Passed
<1>9. x \in Exchanges /\ exchange' = [exchange EXCEPT ![s] = x] /\ Pc(s) # "none"
      /\ UNCHANGED <<clock, csrfVars>>
  BY <1>1, <1>2, <1>3 DEF Exchanges, skipped, Pc
<1>. QED
  BY <1>1, <1>3, <1>8, <1>9, QuietExchange

\* handleCors(): a preflight is answered.
LEMMA CorsStep ==
    ASSUME PipelineAssumption, PipelineTypeOK, CsrfFacts, NEW s \in Slots, handleCors(s)
    PROVE  CsrfFacts' /\ exchange' \in [Slots -> Exchanges]
<1>1. /\ Pc(s) = "pipeline" /\ ChainOf(exchange[s].path) # <<>>
      /\ MiddlewareOf(s).kind = "cors" /\ UNCHANGED <<clock, csrfVars>>
      /\ exchange' = IF exchange[s].method = "OPTIONS" THEN Answer(s) ELSE Proceed(s)
  BY DEF handleCors, InCharge, MiddlewareOf
<1>2. CASE exchange[s].method = "OPTIONS"
  BY <1>1, <1>2, AnsweredStep
<1>3. CASE exchange[s].method # "OPTIONS"
  <2>1. LetPass(exchange[s], MiddlewareOf(s))
    BY <1>1, <1>3 DEF LetPass
  <2>. QED
    BY <1>1, <1>3, <2>1, ProceedStep
<1>. QED
  BY <1>2, <1>3

\* csrfMiddleware() up to the reading of the body.
LEMMA CsrfStep ==
    ASSUME PipelineAssumption, PipelineTypeOK, CsrfFacts, NEW s \in Slots, csrfMiddleware(s)
    PROVE  CsrfFacts' /\ exchange' \in [Slots -> Exchanges]
<1>1. /\ Pc(s) = "pipeline" /\ ChainOf(exchange[s].path) # <<>>
      /\ MiddlewareOf(s).kind = "csrf" /\ UNCHANGED <<clock, csrfVars>>
      /\ exchange' = IF Safe(s) THEN Proceed(s)
                     ELSE IF Valid(exchange[s].cookie) THEN [exchange EXCEPT ![s].pc = "reading"]
                     ELSE Answer(s)
  BY DEF csrfMiddleware, InCharge, MiddlewareOf
<1>2. CASE Safe(s)
  <2>1. LetPass(exchange[s], MiddlewareOf(s))
    BY <1>1, <1>2 DEF LetPass, Safe
  <2>. QED
    BY <1>1, <1>2, <2>1, ProceedStep
<1>3. CASE ~ Safe(s) /\ Valid(exchange[s].cookie)
  <2>1. PICK r \in Exchange : r = exchange[s] /\ r.pc = "pipeline" /\ Passed(r)
    BY <1>1, ExchangeOf DEF CsrfFacts, PassedSoFar, Pc
  <2>2. PICK x : x = [r EXCEPT !.pc = "reading"]
    OBVIOUS
  <2>3. /\ x \in Exchange /\ x.pc = "reading" /\ x.pos = r.pos
        /\ x.path = r.path /\ x.passed = r.passed /\ x.method = r.method /\ x.cookie = r.cookie
        /\ x.field = r.field /\ x.at = r.at /\ x.browser = r.browser
    BY <2>2 DEF Exchange
  <2>4. \A m : LetPass(x, m) <=> LetPass(r, m)
    BY <2>3 DEF LetPass
  <2>5. x.cookie # NoToken /\ expiry[x.cookie] >= x.at
    <3>1. x.cookie # NoToken /\ clock <= expiry[x.cookie] /\ x.at <= clock
      BY <1>1, <1>3, <2>1, <2>3 DEF Valid, CsrfFacts, TokensKnown
    <3>2. x.cookie \in 1 .. Len(expiry) /\ expiry \in Seq(Nat) /\ clock \in Nat
      BY <1>1, <2>1, <2>3, <3>1 DEF CsrfFacts, TokensKnown, NoToken, Exchange, PipelineTypeOK,
                                   PipelineAssumption
    <3>3. expiry[x.cookie] \in Nat /\ x.at \in Nat
      BY <2>3, <3>2 DEF Exchange
    <3>. QED
      BY <3>1, <3>2, <3>3
  <2>6. Passed(x)
    BY <1>1, <2>1, <2>3, <2>4, <2>5 DEF Passed, MiddlewareOf
  <2>7. x \in Exchanges /\ exchange' = [exchange EXCEPT ![s] = x]
    BY <1>1, <1>3, <2>1, <2>2, <2>3 DEF Exchanges
  <2>. QED
    BY <1>1, <2>1, <2>3, <2>6, <2>7, QuietExchange
<1>4. CASE ~ Safe(s) /\ ~ Valid(exchange[s].cookie)
  BY <1>1, <1>4, AnsweredStep
<1>. QED
  BY <1>2, <1>3, <1>4

\* csrfMiddleware() from there on.
LEMMA ComparedStep ==
    ASSUME PipelineAssumption, PipelineTypeOK, CsrfFacts, NEW s \in Slots, csrfCompared(s)
    PROVE  CsrfFacts' /\ exchange' \in [Slots -> Exchanges]
<1>1. /\ Pc(s) = "reading" /\ UNCHANGED <<clock, csrfVars>>
      /\ exchange' = IF exchange[s].field = exchange[s].cookie THEN Proceed(s) ELSE Answer(s)
  BY DEF csrfCompared
<1>2. CASE exchange[s].field = exchange[s].cookie
  <2>1. Passed(exchange[s]) /\ exchange[s].pc = "reading"
    BY <1>1 DEF CsrfFacts, PassedSoFar, Pc
  <2>2. LetPass(exchange[s], MiddlewareOf(s)) /\ ChainOf(exchange[s].path) # <<>>
    BY <1>2, <2>1 DEF Passed, LetPass, MiddlewareOf
  <2>. QED
    BY <1>1, <1>2, <2>2, ProceedStep
<1>3. CASE exchange[s].field # exchange[s].cookie
  BY <1>1, <1>3, AnsweredStep
<1>. QED
  BY <1>2, <1>3

\* RouteModelBinding.resolve().
LEMMA ResolveStep ==
    ASSUME PipelineTypeOK, CsrfFacts, NEW s \in Slots, NEW found \in BOOLEAN, resolve(s, found)
    PROVE  CsrfFacts' /\ exchange' \in [Slots -> Exchanges]
<1>1. /\ Pc(s) = "binding" /\ UNCHANGED <<clock, csrfVars>>
      /\ exchange' = IF found THEN [exchange EXCEPT ![s].pc = "handler"] ELSE Answer(s)
  BY DEF resolve
<1>2. CASE found
  <2>1. PICK r \in Exchange : r = exchange[s] /\ r.pc = "binding" /\ Passed(r)
    BY <1>1, ExchangeOf DEF CsrfFacts, PassedSoFar, Pc
  <2>2. PICK x : x = [r EXCEPT !.pc = "handler"]
    OBVIOUS
  <2>3. /\ x \in Exchange /\ x.pc = "handler"
        /\ x.path = r.path /\ x.passed = r.passed /\ x.method = r.method /\ x.cookie = r.cookie
        /\ x.field = r.field /\ x.at = r.at /\ x.browser = r.browser
    BY <2>2 DEF Exchange
  <2>4. \A m : LetPass(x, m) <=> LetPass(r, m)
    BY <2>3 DEF LetPass
  <2>5. Passed(x)
    BY <2>1, <2>3, <2>4 DEF Passed
  <2>6. x \in Exchanges /\ exchange' = [exchange EXCEPT ![s] = x]
    BY <1>1, <1>2, <2>1, <2>2, <2>3 DEF Exchanges
  <2>. QED
    BY <1>1, <2>1, <2>3, <2>5, <2>6, QuietExchange
<1>3. CASE ~ found
  BY <1>1, <1>3, AnsweredStep
<1>. QED
  BY <1>2, <1>3

\* A request comes in with the cookie its browser has.
LEMMA ReceiveStep ==
    ASSUME PipelineAssumption, PipelineTypeOK, CsrfFacts, NEW s \in Slots, NEW b \in Browsers,
           NEW path \in DOMAIN Explicit \cup AutoPaths, NEW method \in {"GET", "POST", "OPTIONS"},
           NEW field \in pages[b] \cup {NoToken}, receive(s, b, path, method, field)
    PROVE  CsrfFacts' /\ exchange' \in [Slots -> Exchanges]
<1>1. /\ Pc(s) = "none" /\ UNCHANGED <<clock, jar, pages, expiry, raced>>
      /\ exchange' = [exchange EXCEPT ![s] =
            [pc |-> IF path \in AutoPaths THEN "auto" ELSE "pipeline", browser |-> b, path |-> path,
             method |-> method, cookie |-> jar[b], field |-> field, pos |-> 1,
             at |-> clock, passed |-> {}]]
  BY DEF receive, csrfVars
<1>2. PICK pc \in {"auto", "pipeline"} : pc = IF path \in AutoPaths THEN "auto" ELSE "pipeline"
  OBVIOUS
<1>3. PICK r : r = [pc |-> pc, browser |-> b, path |-> path, method |-> method, cookie |-> jar[b],
                    field |-> field, pos |-> 1, at |-> clock, passed |-> {}]
  OBVIOUS
<1>4. r \in Exchange
  <2>1. jar[b] \in 0 .. MaxTokens /\ field \in 0 .. MaxTokens /\ clock \in Nat
    BY DEF PipelineTypeOK, PipelineAssumption, Tokens, NoToken
  <2>2. {} \in SUBSET Limiters /\ 1 \in Nat /\ pc \in {"pipeline", "reading", "binding", "handler", "auto"}
    OBVIOUS
  <2>. QED
    BY <1>3, <2>1, <2>2 DEF Exchange
<1>5. r.pc = pc /\ r.pos = 1 /\ r.path = path /\ r.cookie = jar[b] /\ r.at = clock /\ r.browser = b
  BY <1>3
<1>6. Passed(r)
  <2>1. CASE pc = "auto"
    BY <1>5, <2>1 DEF Passed
  <2>2. CASE pc = "pipeline"
    <3>1. path \in DOMAIN Explicit
      BY <1>2, <2>2
    <3>2. PICK chain : chain = ChainOf(path)
      OBVIOUS
    <3>3. chain \in Seq(Range(chain))
      BY <3>1, <3>2 DEF PipelineAssumption, ChainOf
    <3>4. /\ DOMAIN chain = 1 .. Len(chain) /\ Len(chain) \in Nat
          /\ chain # <<>> => Len(chain) # 0
      BY <3>3, LenProperties, EmptySeq
    <3>5. /\ chain # <<>> => 1 \in DOMAIN chain
          /\ \A i \in DOMAIN chain : ~ (i < 1)
      BY <3>4
    <3>. QED
      BY <1>5, <2>2, <3>1, <3>2, <3>5 DEF Passed
  <2>. QED
    BY <2>1, <2>2
<1>7. r \in Exchanges /\ exchange' = [exchange EXCEPT ![s] = r]
  BY <1>1, <1>2, <1>3, <1>4 DEF Exchanges
<1>8. /\ exchange' \in [Slots -> Exchanges] /\ exchange'[s] = r
      /\ \A t \in Slots \ {s} : exchange'[t] = exchange[t]
  BY <1>7, ExchangeOf, ExchangeMoves
<1>9. PassedSoFar'
  <2>1. ASSUME NEW t \in Slots
        PROVE  Passed(exchange'[t])
    BY <1>6, <1>8 DEF CsrfFacts, PassedSoFar
  <2>. QED
    BY <1>1, <2>1 DEF PassedSoFar, Passed, LetPass, Effective, ChainOf
<1>10. TokensKnown'
  <2>1. clock \in Nat /\ jar[b] <= Len(expiry)
    BY DEF PipelineTypeOK, PipelineAssumption, CsrfFacts, TokensKnown
  <2>. QED
    BY <1>1, <1>5, <1>8, <2>1 DEF CsrfFacts, TokensKnown, Pc
<1>11. PagesMatchCookie'
  BY <1>1 DEF CsrfFacts, PagesMatchCookie, Valid
<1>12. CookiesMatch'
  BY <1>1, <1>5, <1>8 DEF CsrfFacts, CookiesMatch, Valid, Pc
<1>. QED
  BY <1>8, <1>9, <1>10, <1>11, <1>12 DEF CsrfFacts

\* Tokens that are known keep their end when another is generated.
LEMMA ExpiryGrows ==
    ASSUME expiry \in Seq(Nat), NEW e \in Nat, expiry' \in {expiry, Append(expiry, e)},
           clock' = clock
    PROVE  /\ \A token \in 1 .. Len(expiry) : expiry'[token] = expiry[token]
           /\ \A token \in 0 .. Len(expiry) : Valid(token)' <=> Valid(token)
           /\ expiry' \in Seq(Nat) /\ Len(expiry) <= Len(expiry') /\ Len(expiry) \in Nat
<1>1. /\ expiry' \in Seq(Nat) /\ Len(expiry) \in Nat /\ Len(expiry) <= Len(expiry')
      /\ \A token \in 1 .. Len(expiry) : expiry'[token] = expiry[token]
  <2>1. Len(expiry) \in Nat
    BY LenProperties
  <2>2. CASE expiry' = expiry
    BY <2>1, <2>2
  <2>3. CASE expiry' = Append(expiry, e)
    <3>1. /\ expiry' \in Seq(Nat) /\ Len(expiry') = Len(expiry) + 1
          /\ \A token \in 1 .. Len(expiry) : expiry'[token] = expiry[token]
      BY <2>3, AppendFacts
    <3>. QED
      BY <2>1, <3>1
  <2>. QED
    BY <2>2, <2>3
<1>2. ASSUME NEW token \in 0 .. Len(expiry)
      PROVE  Valid(token)' <=> Valid(token)
  BY <1>1 DEF Valid, NoToken
<1>. QED
  BY <1>1, <1>2

\* What has let a request pass still does so then.
LEMMA PassedStays ==
    ASSUME NEW r \in Exchange, Passed(r), Len(expiry) \in Nat, r.cookie <= Len(expiry),
           \A token \in 1 .. Len(expiry) : expiry'[token] = expiry[token]
    PROVE  Passed(r)'
<1>1. r.cookie # NoToken => expiry'[r.cookie] = expiry[r.cookie]
  BY DEF Exchange, NoToken
<1>2. \A m : LetPass(r, m) => LetPass(r, m)'
  BY <1>1 DEF LetPass
<1>. QED
  BY <1>1, <1>2 DEF Passed, Effective, ChainOf

\* getCsrfToken() and the cookie that comes with the form.
LEMMA FormStep ==
    ASSUME PipelineAssumption, PipelineTypeOK, CsrfFacts, NEW s \in Slots, handleForm(s)
    PROVE  /\ CsrfFacts' /\ exchange' \in [Slots -> Exchanges]
           /\ jar' \in [Browsers -> 0 .. MaxTokens] /\ pages' \in [Browsers -> SUBSET Tokens]
           /\ expiry' \in Seq(Nat) /\ Len(expiry') <= MaxTokens /\ raced' \subseteq Browsers
<1>1. PICK r \in Exchange : r = exchange[s] /\ r.pc # "none" /\ r.cookie <= Len(expiry)
  BY ExchangeOf DEF CsrfFacts, TokensKnown, Pc, handleForm
<1>2. PICK b \in Browsers : b = r.browser
  BY <1>1 DEF Exchange
<1>3. PICK token : token = TokenFor(s)
  OBVIOUS
<1>4. /\ token <= MaxTokens /\ UNCHANGED clock
      /\ expiry' = IF token > Len(expiry) THEN Append(expiry, clock + TokenLife) ELSE expiry
      /\ jar' = [jar EXCEPT ![b] = token]
      /\ pages' = [pages EXCEPT ![b] = pages[b] \cup {token}]
      /\ raced' = IF token > Len(expiry) /\ jar[b] # r.cookie THEN raced \cup {b} ELSE raced
      /\ exchange' = Answer(s)
  BY <1>1, <1>2, <1>3 DEF handleForm
<1>5. /\ clock \in Nat /\ clock + TokenLife \in Nat /\ expiry \in Seq(Nat) /\ Len(expiry) \in Nat
      /\ jar \in [Browsers -> 0 .. MaxTokens] /\ pages \in [Browsers -> SUBSET Tokens]
      /\ Len(expiry) <= MaxTokens /\ MaxTokens \in Nat /\ r.cookie \in Nat
  BY LenProperties DEF PipelineTypeOK, PipelineAssumption, Exchange
<1>6. /\ \A t \in 1 .. Len(expiry) : expiry'[t] = expiry[t]
      /\ \A t \in 0 .. Len(expiry) : Valid(t)' <=> Valid(t)
      /\ expiry' \in Seq(Nat) /\ Len(expiry) <= Len(expiry')
  BY <1>4, <1>5, ExpiryGrows
<1>7. \/ token = Len(expiry) + 1 /\ Len(expiry') = Len(expiry) + 1 /\ ~ Valid(r.cookie)
      \/ token = r.cookie /\ token # 0 /\ expiry' = expiry /\ Valid(r.cookie)
  <2>1. CASE Valid(r.cookie)
    BY <1>1, <1>3, <1>4, <1>5, <2>1 DEF TokenFor, Valid, NoToken
  <2>2. CASE ~ Valid(r.cookie)
    <3>1. token = Len(expiry) + 1
      BY <1>1, <1>3, <2>2 DEF TokenFor
    <3>2. expiry' = Append(expiry, clock + TokenLife)
      BY <1>4, <1>5, <3>1
    <3>. QED
      BY <1>5, <2>2, <3>1, <3>2, AppendFacts
  <2>. QED
    BY <2>1, <2>2
<1>8. token \in Tokens /\ token <= Len(expiry') /\ Len(expiry') <= MaxTokens
  BY <1>1, <1>4, <1>5, <1>7 DEF Tokens
<1>9. /\ exchange' \in [Slots -> Exchanges] /\ exchange'[s] = NoExchange
      /\ \A t \in Slots \ {s} : exchange'[t] = exchange[t]
  BY <1>4, ExchangeOf, AnswerFacts, ExchangeMoves DEF Answer
<1>10. \A t \in Slots : exchange'[t].pc # "none" =>
          /\ t # s /\ exchange'[t] = exchange[t] /\ exchange[t] \in Exchange
          /\ Pc(t) # "none" /\ exchange[t].cookie <= Len(expiry)
          /\ exchange[t].cookie \in 0 .. Len(expiry) /\ exchange[t].browser \in Browsers
  <2>1. ASSUME NEW t \in Slots, exchange'[t].pc # "none"
        PROVE  /\ t # s /\ exchange'[t] = exchange[t] /\ exchange[t] \in Exchange
               /\ Pc(t) # "none" /\ exchange[t].cookie <= Len(expiry)
               /\ exchange[t].cookie \in 0 .. Len(expiry) /\ exchange[t].browser \in Browsers
    <3>1. t # s /\ exchange'[t] = exchange[t] /\ Pc(t) # "none"
      BY <1>9, <2>1, AnswerFacts DEF Pc
    <3>2. exchange[t] \in Exchange /\ exchange[t].cookie <= Len(expiry)
      BY <3>1, ExchangeOf DEF CsrfFacts, TokensKnown
    <3>3. exchange[t].cookie \in Nat /\ exchange[t].browser \in Browsers
      BY <1>5, <3>2 DEF Exchange
    <3>4. exchange[t].cookie \in 0 .. Len(expiry)
      BY <1>5, <3>2, <3>3
    <3>. QED
      BY <3>1, <3>2, <3>3, <3>4
  <2>. QED
    BY <2>1
<1>11. PassedSoFar'
  <2>1. ASSUME NEW t \in Slots
        PROVE  Passed(exchange[t])' \/ exchange'[t] = NoExchange
    <3>1. CASE exchange'[t].pc # "none"
      <4>1. PICK x \in Exchange : x = exchange[t] /\ x = exchange'[t] /\ x.cookie <= Len(expiry)
        BY <1>10, <3>1
      <4>2. Passed(x)
        BY <4>1 DEF CsrfFacts, PassedSoFar
      <4>3. Passed(x)'
        BY <1>5, <1>6, <4>1, <4>2, PassedStays
      <4>. QED
        BY <4>1, <4>3
    <3>2. CASE exchange'[t].pc = "none"
      BY <1>9, <3>2 DEF Exchanges, Exchange
    <3>. QED
      BY <3>1, <3>2
  <2>2. Passed(NoExchange)'
    BY AnswerFacts DEF Passed
  <2>. QED
    BY <2>1, <2>2 DEF PassedSoFar
<1>12. /\ jar' \in [Browsers -> 0 .. MaxTokens] /\ jar'[b] = token
       /\ \A c \in Browsers \ {b} : jar'[c] = jar[c]
       /\ pages' \in [Browsers -> SUBSET Tokens] /\ pages'[b] = pages[b] \cup {token}
       /\ \A c \in Browsers \ {b} : pages'[c] = pages[c]
  <2>1. token \in 0 .. MaxTokens /\ pages[b] \cup {token} \in SUBSET Tokens
    BY <1>5, <1>8 DEF Tokens
  <2>. QED
    BY <1>4, <1>5, <2>1
<1>13. TokensKnown'
  <2>1. \A c \in Browsers : \A t \in pages'[c] \cup {jar'[c]} : t <= Len(expiry')
    <3>1. ASSUME NEW c \in Browsers, NEW t \in pages'[c] \cup {jar'[c]}
          PROVE  t <= Len(expiry')
      <4>1. t = token \/ t \in pages[c] \cup {jar[c]}
        BY <1>12, <3>1
      <4>2. ASSUME t \in pages[c] \cup {jar[c]} PROVE t \in Nat /\ t <= Len(expiry)
        BY <1>5, <4>2 DEF CsrfFacts, TokensKnown, Tokens
      <4>. QED
        BY <1>5, <1>6, <1>8, <4>1, <4>2, LenProperties
    <3>. QED
      BY <3>1
  <2>2. \A t \in Slots : exchange'[t].pc # "none" =>
           exchange'[t].cookie <= Len(expiry') /\ exchange'[t].at <= clock
    <3>1. Len(expiry') \in Nat
      BY <1>6, LenProperties
    <3>2. ASSUME NEW t \in Slots, exchange'[t].pc # "none"
          PROVE  exchange'[t].cookie <= Len(expiry') /\ exchange'[t].at <= clock
      <4>1. PICK x \in Exchange : x = exchange[t] /\ x = exchange'[t] /\ Pc(t) # "none"
        BY <1>10, <3>2
      <4>2. x.cookie <= Len(expiry) /\ x.at <= clock
        BY <4>1 DEF CsrfFacts, TokensKnown
      <4>3. x.cookie \in Nat
        BY <1>5, <4>1 DEF Exchange
      <4>4. x.cookie <= Len(expiry')
        BY <1>5, <1>6, <3>1, <4>2, <4>3
      <4>. QED
        BY <4>1, <4>2, <4>4
    <3>. QED
      BY <3>2
  <2>. QED
    BY <1>4, <2>1, <2>2 DEF TokensKnown, Pc
<1>14. ASSUME NEW c \in Browsers, c \notin raced', NEW k \in 0 .. Len(expiry), Valid(k)',
              Valid(k) => k = jar[c]
       PROVE  k = jar'[c]
  <2>1. c \notin raced /\ Valid(k) /\ k = jar[c]
    BY <1>4, <1>6, <1>14
  <2>2. CASE c # b
    BY <1>12, <2>1, <2>2
  <2>3. CASE c = b /\ token = r.cookie /\ Valid(r.cookie)
    <3>1. r.cookie = jar[b]
      BY <1>1, <1>2, <2>1, <2>3 DEF CsrfFacts, CookiesMatch, Pc
    <3>. QED
      BY <1>12, <2>1, <2>3, <3>1
  <2>4. CASE c = b /\ token = Len(expiry) + 1 /\ ~ Valid(r.cookie)
    <3>1. k # r.cookie
      BY <2>1, <2>4
    <3>2. b \in raced'
      BY <1>4, <1>5, <2>1, <2>4, <3>1
    <3>. QED
      BY <1>14, <2>4, <3>2
  <2>. QED
    BY <1>7, <2>2, <2>3, <2>4
<1>15. PagesMatchCookie'
  <2>1. ASSUME NEW c \in Browsers, c \notin raced', NEW k \in pages'[c], Valid(k)'
        PROVE  k = jar'[c]
    <3>1. CASE k \in pages[c]
      <4>1. k \in 0 .. Len(expiry) /\ c \notin raced
        BY <1>4, <1>5, <2>1, <3>1 DEF CsrfFacts, TokensKnown, Tokens
      <4>2. Valid(k) => k = jar[c]
        BY <3>1, <4>1 DEF CsrfFacts, PagesMatchCookie
      <4>. QED
        BY <1>14, <2>1, <4>1, <4>2
    <3>2. CASE k \notin pages[c]
      BY <1>12, <2>1, <3>2
    <3>. QED
      BY <3>1, <3>2
  <2>. QED
    BY <2>1 DEF PagesMatchCookie
<1>16. CookiesMatch'
  <2>1. ASSUME NEW t \in Slots, exchange'[t].pc # "none", exchange'[t].browser \notin raced',
               NEW k, k = exchange'[t].cookie, Valid(k)'
        PROVE  k = jar'[exchange'[t].browser]
    <3>1. /\ exchange'[t] = exchange[t] /\ Pc(t) # "none" /\ k \in 0 .. Len(expiry)
          /\ exchange[t].browser \in Browsers
      BY <1>10, <2>1
    <3>2. PICK c \in Browsers : c = exchange[t].browser /\ c \notin raced'
      BY <2>1, <3>1
    <3>3. c \notin raced
      BY <1>4, <3>2
    <3>4. Valid(k) => k = jar[c]
      BY <2>1, <3>1, <3>2, <3>3 DEF CsrfFacts, CookiesMatch
    <3>. QED
      BY <1>14, <2>1, <3>1, <3>2, <3>4
  <2>. QED
    BY <2>1 DEF CookiesMatch, Valid, Pc
<1>. QED
  BY <1>4, <1>5, <1>6, <1>8, <1>9, <1>11, <1>12, <1>13, <1>15, <1>16 DEF CsrfFacts, PipelineTypeOK

\* A limiter in charge of a request.
LEMMA LimiterInCharge ==
    ASSUME PipelineAssumption, PipelineTypeOK, CsrfFacts, NEW s \in Slots, InCharge(s, "limit")
    PROVE  /\ MiddlewareOf(s) \in Limiters /\ exchange[s] \in Exchange
           /\ exchange[s].browser \in Browsers
           /\ Pc(s) = "pipeline" /\ ChainOf(exchange[s].path) # <<>> /\ Passed(exchange[s])
<1>1. PICK r \in Exchange : r = exchange[s] /\ r.pc = "pipeline" /\ Passed(r)
  BY ExchangeOf DEF CsrfFacts, PassedSoFar, Pc, InCharge
<1>2. PICK chain : chain = ChainOf(r.path)
  OBVIOUS
<1>3. chain # <<>> /\ chain[r.pos].kind = "limit"
  BY <1>1, <1>2 DEF InCharge
<1>4. r.pos \in DOMAIN chain /\ \A i \in DOMAIN chain : chain[i] \in Middleware
  BY <1>1, <1>2, <1>3, ChainFacts
<1>5. MiddlewareOf(s) \in Limiters
  BY <1>1, <1>2, <1>3, <1>4 DEF Limiters, MiddlewareOf
<1>. QED
  BY <1>1, <1>2, <1>3, <1>5 DEF Exchange, InCharge

\* handleRateLimit(): a request that is let pass is known to have been.
LEMMA LimitStep ==
    ASSUME PipelineAssumption, PipelineTypeOK, CsrfFacts, NEW s \in Slots, handleRateLimit(s)
    PROVE  CsrfFacts' /\ exchange' \in [Slots -> Exchanges]
<1>1. InCharge(s, "limit") /\ UNCHANGED <<clock, csrfVars>>
  BY DEF handleRateLimit
<1>2. PICK r \in Exchange : /\ r = exchange[s] /\ r.pc = "pipeline" /\ Passed(r)
                            /\ ChainOf(r.path) # <<>> /\ MiddlewareOf(s) \in Limiters
  BY <1>1, LimiterInCharge DEF Pc
<1>3. PICK limiter \in Limiters : limiter = MiddlewareOf(s)
  BY <1>2
<1>4. PICK q : q = [r EXCEPT !.passed = r.passed \cup {limiter}]
  OBVIOUS
<1>5. \/ exchange' = Answer(s)
      \/ exchange' = [exchange EXCEPT ![s] = Next_(q)]
  BY <1>2, <1>3, <1>4 DEF handleRateLimit
<1>6. CASE exchange' = Answer(s)
  BY <1>1, <1>2, <1>6, AnsweredStep DEF Pc
<1>7. CASE exchange' = [exchange EXCEPT ![s] = Next_(q)]
  <2>1. r.passed \cup {limiter} \in SUBSET Limiters
    BY DEF Exchange
  <2>2. /\ q \in Exchange /\ q.pc = "pipeline" /\ q.pos = r.pos /\ q.passed = r.passed \cup {limiter}
        /\ q.path = r.path /\ q.method = r.method /\ q.cookie = r.cookie
        /\ q.field = r.field /\ q.at = r.at /\ q.browser = r.browser
    BY <1>2, <1>4, <2>1 DEF Exchange
  <2>3. \A m : LetPass(r, m) => LetPass(q, m)
    BY <2>2 DEF LetPass
  <2>4. Passed(q)
    BY <1>2, <2>2, <2>3 DEF Passed
  <2>5. LetPass(q, ChainOf(q.path)[q.pos])
    BY <1>2, <1>3, <2>2 DEF LetPass, MiddlewareOf, Limiters
  <2>6. PICK x : x = Next_(q)
    OBVIOUS
  <2>7. /\ x \in Exchange /\ Passed(x)
        /\ x.cookie = q.cookie /\ x.at = q.at /\ x.browser = q.browser
    BY <1>2, <2>2, <2>4, <2>5, <2>6, NextFacts
  <2>8. x \in Exchanges /\ exchange' = [exchange EXCEPT ![s] = x] /\ Pc(s) # "none"
    BY <1>2, <1>7, <2>6, <2>7 DEF Exchanges, Pc
  <2>. QED
    BY <1>1, <1>2, <2>2, <2>7, <2>8, QuietExchange
<1>. QED
  BY <1>5, <1>6, <1>7

\* What requests have passed does not depend on the time.
LEMMA PassedUntouched ==
    ASSUME PassedSoFar, expiry' = expiry, exchange' = exchange
    PROVE  PassedSoFar'
<1>1. \A r, m : LetPass(r, m)' <=> LetPass(r, m)
  BY DEF LetPass
<1>2. \A r : Passed(r)' <=> Passed(r)
  BY <1>1 DEF Passed, Effective, ChainOf
<1>. QED
  BY <1>2 DEF PassedSoFar

\* Steps that touch no request and no token.
LEMMA CsrfUntouched ==
    ASSUME CsrfFacts, UNCHANGED <<clock, csrfVars, exchange>>
    PROVE  CsrfFacts'
<1>1. UNCHANGED <<clock, jar, pages, expiry, raced, exchange>>
  BY DEF csrfVars
<1>2. PassedSoFar'
  BY <1>1, PassedUntouched DEF CsrfFacts
<1>3. TokensKnown' /\ PagesMatchCookie' /\ CookiesMatch'
  BY <1>1 DEF CsrfFacts, TokensKnown, PagesMatchCookie, CookiesMatch, Valid, Pc
<1>. QED
  BY <1>2, <1>3 DEF CsrfFacts

\* As time passes, tokens only expire.
LEMMA TimeStep ==
    ASSUME PipelineAssumption, PipelineTypeOK, CsrfFacts, passTime
    PROVE  CsrfFacts' /\ clock' \in 0 .. MaxClock
<1>1. /\ UNCHANGED <<jar, pages, expiry, raced, exchange>> /\ clock' = clock + 1
      /\ clock \in Nat /\ clock' \in 0 .. MaxClock
  BY DEF passTime, csrfVars, PipelineTypeOK, PipelineAssumption
<1>2. PassedSoFar'
  <2>1. expiry' = expiry /\ exchange' = exchange
    BY <1>1
  <2>2. PassedSoFar
    BY DEF CsrfFacts
  <2>. QED
    BY <2>1, <2>2, PassedUntouched
<1>3. TokensKnown'
  <2>1. ASSUME NEW s \in Slots, Pc(s) # "none"
        PROVE  exchange[s].cookie <= Len(expiry) /\ exchange[s].at <= clock + 1
    <3>1. exchange[s].cookie <= Len(expiry) /\ exchange[s].at <= clock
      BY <2>1 DEF CsrfFacts, TokensKnown
    <3>2. exchange[s].at \in Nat
      BY <2>1, ExchangeOf DEF Exchange
    <3>. QED
      BY <1>1, <3>1, <3>2
  <2>. QED
    BY <1>1, <2>1 DEF CsrfFacts, TokensKnown, Pc
<1>4. ASSUME NEW token \in 0 .. Len(expiry), Valid(token)'
      PROVE  Valid(token)
  <2>1. token \in 1 .. Len(expiry) /\ clock + 1 <= expiry[token] /\ expiry \in Seq(Nat)
    BY <1>1, <1>4 DEF Valid, NoToken, PipelineTypeOK
  <2>2. expiry[token] \in Nat
    BY <2>1
  <2>. QED
    BY <1>1, <1>4, <2>1, <2>2 DEF Valid
<1>5. PagesMatchCookie'
  <2>1. ASSUME NEW b \in Browsers, b \notin raced, NEW k \in pages[b], Valid(k)'
        PROVE  k = jar[b]
    <3>1. k \in 0 .. Len(expiry)
      BY <2>1 DEF CsrfFacts, TokensKnown, PipelineTypeOK, Tokens
    <3>. QED
      BY <1>4, <2>1, <3>1 DEF CsrfFacts, PagesMatchCookie
  <2>. QED
    BY <1>1, <2>1 DEF PagesMatchCookie
<1>6. CookiesMatch'
  <2>1. ASSUME NEW t \in Slots, Pc(t) # "none", exchange[t].browser \notin raced,
               NEW k, k = exchange[t].cookie, Valid(k)'
        PROVE  k = jar[exchange[t].browser]
    <3>1. k \in 0 .. Len(expiry)
      <4>1. k \in 0 .. MaxTokens /\ MaxTokens \in Nat
        BY <2>1, ExchangeOf DEF Exchange, PipelineAssumption
      <4>2. k <= Len(expiry) /\ Len(expiry) \in Nat
        BY <2>1, LenProperties DEF CsrfFacts, TokensKnown, PipelineTypeOK
      <4>. QED
        BY <4>1, <4>2
    <3>. QED
      BY <1>4, <2>1, <3>1 DEF CsrfFacts, CookiesMatch
  <2>. QED
    BY <1>1, <2>1 DEF CookiesMatch, Valid, Pc
<1>. QED
  BY <1>1, <1>2, <1>3, <1>5, <1>6 DEF CsrfFacts

\* What a step does to tokens and requests.
LEMMA CsrfKept ==
    ASSUME PipelineAssumption, PipelineTypeOK, CsrfFacts, [PipelineNext]_pipelineVars
    PROVE  CsrfFacts' /\ CsrfTypes'
<1>. DEFINE Others == UNCHANGED <<clock, asked, jar, pages, expiry, raced>>
<1>0. CsrfTypes
  BY ExchangeOf DEF PipelineTypeOK, CsrfTypes, PipelineAssumption
<1>1. ASSUME Others, CsrfFacts', exchange' \in [Slots -> Exchanges]
      PROVE  CsrfFacts' /\ CsrfTypes'
  BY <1>0, <1>1 DEF CsrfTypes
<1>2. ASSUME NEW s \in Slots, NEW b \in Browsers, NEW path \in DOMAIN Explicit \cup AutoPaths,
             NEW method \in {"GET", "POST", "OPTIONS"}, NEW field \in pages[b] \cup {NoToken},
             receive(s, b, path, method, field)
      PROVE  CsrfFacts' /\ CsrfTypes'
  <2>1. /\ asked < MaxRequests /\ asked' = asked + 1
        /\ UNCHANGED <<clock, jar, pages, expiry, raced>>
    BY <1>2 DEF receive, csrfVars
  <2>2. CsrfFacts' /\ exchange' \in [Slots -> Exchanges]
    BY <1>2, ReceiveStep
  <2>. QED
    BY <1>0, <2>1, <2>2 DEF CsrfTypes, PipelineAssumption
<1>3. ASSUME NEW s \in Slots,
             \/ skipped(s) \/ handleRateLimit(s) \/ handleCors(s) \/ csrfMiddleware(s)
             \/ csrfCompared(s) \/ (\E found \in BOOLEAN : resolve(s, found)) \/ handle(s)
      PROVE  CsrfFacts' /\ CsrfTypes'
  <2>1. Others
    BY <1>3 DEF skipped, handleRateLimit, handleCors, csrfMiddleware, csrfCompared, resolve, handle,
                csrfVars
  <2>2. CASE handle(s)
    BY <1>1, <2>1, <2>2, AnsweredStep DEF handle, Pc
  <2>. QED
    BY <1>1, <1>3, <2>1, <2>2, SkippedStep, LimitStep, CorsStep, CsrfStep, ComparedStep, ResolveStep
<1>4. ASSUME NEW s \in Slots, handleForm(s)
      PROVE  CsrfFacts' /\ CsrfTypes'
  <2>1. UNCHANGED <<clock, asked>>
    BY <1>4 DEF handleForm
  <2>. QED
    BY <1>0, <1>4, <2>1, FormStep DEF CsrfTypes
<1>5. ASSUME \/ cleanupRateLimitStore
             \/ \E keys \in (SUBSET LimitKeys) \ {{}} : resetRateLimit(keys)
             \/ UNCHANGED pipelineVars
      PROVE  CsrfFacts' /\ CsrfTypes'
  <2>1. UNCHANGED <<clock, asked, csrfVars, exchange>>
    BY <1>5 DEF cleanupRateLimitStore, resetRateLimit, pipelineVars
  <2>2. exchange' \in [Slots -> Exchanges] /\ Others
    BY <1>0, <2>1 DEF csrfVars, CsrfTypes
  <2>3. CsrfFacts'
    BY <2>1, CsrfUntouched
  <2>. QED
    BY <1>1, <2>2, <2>3
<1>6. ASSUME passTime
      PROVE  CsrfFacts' /\ CsrfTypes'
  <2>1. UNCHANGED <<jar, pages, expiry, raced, exchange, asked>>
    BY <1>6 DEF passTime, csrfVars
  <2>2. CsrfFacts' /\ clock' \in 0 .. MaxClock
    BY <1>6, TimeStep
  <2>. QED
    BY <1>0, <2>1, <2>2 DEF CsrfTypes, PipelineAssumption
<1>. QED
  BY <1>2, <1>3, <1>4, <1>5, <1>6 DEF PipelineNext

-----------------------------------------------------------------------------
(* The pipeline: limits.                                                   *)

\* The shortest window is one that no limiter's is shorter than.
LEMMA ShortestFacts ==
    ASSUME PipelineAssumption, NEW limiter \in Limiters
    PROVE  ShortestWindow \in Nat /\ ShortestWindow <= limiter.windowMs
<1>1. PICK windows : windows = {m.windowMs : m \in Limiters}
  OBVIOUS
<1>2. windows \subseteq Nat /\ limiter.windowMs \in windows
  BY <1>1 DEF PipelineAssumption
<1>3. \E w \in windows : \A v \in windows : w <= v
  BY <1>2, LeastNumber
<1>4. ShortestWindow = CHOOSE w \in windows : \A v \in windows : w <= v
  BY <1>1 DEF ShortestWindow
<1>5. ShortestWindow \in windows /\ \A v \in windows : ShortestWindow <= v
  BY <1>3, <1>4
<1>. QED
  BY <1>2, <1>5

\* When the time of an entry is over, what was let pass under it is.
LEMMA OverWhenLapsed ==
    ASSUME clock \in Nat, ShortestWindow \in Nat, NEW entry \in Entry, NEW times \in Seq(Nat),
           NEW max \in Nat, Under(entry, times, max), entry.resetTime < clock
    PROVE  Over(times, max)
<1>1. PICK b \in 0 .. Len(times) :
         /\ Len(times) - b <= entry.count /\ Len(times) - b <= max
         /\ \A i \in DOMAIN times :
               /\ times[i] <= entry.resetTime
               /\ i <= b => times[i] + ShortestWindow < entry.resetTime
               /\ i + max <= b => times[i] + ShortestWindow < clock
  BY DEF Under
<1>2. Len(times) \in Nat /\ DOMAIN times = 1 .. Len(times) /\ entry.resetTime \in Nat
  BY LenProperties DEF Entry
<1>3. ASSUME NEW i \in DOMAIN times
      PROVE  times[i] < clock /\ (i + max <= Len(times) => times[i] + ShortestWindow < clock)
  <2>1. /\ times[i] \in Nat /\ i \in Nat /\ times[i] <= entry.resetTime
        /\ i <= b => times[i] + ShortestWindow < entry.resetTime
    BY <1>1, <1>2, <1>3
  <2>2. i + max <= Len(times) => i <= b
    BY <1>1, <1>2, <2>1
  <2>. QED
    BY <1>2, <2>1, <2>2
<1>. QED
  BY <1>3 DEF Over

\* A new entry, when nothing passes under it.
LEMMA UnderNew ==
    ASSUME clock \in Nat, ShortestWindow \in Nat, NEW entry \in Entry, NEW times \in Seq(Nat),
           NEW max \in Nat, Over(times, max), clock + ShortestWindow <= entry.resetTime
    PROVE  Under(entry, times, max)
<1>1. /\ Len(times) \in Nat /\ DOMAIN times = 1 .. Len(times) /\ entry.resetTime \in Nat
      /\ entry.count \in Nat
  BY LenProperties DEF Entry
<1>2. ASSUME NEW i \in DOMAIN times
      PROVE  /\ times[i] <= entry.resetTime
             /\ i <= Len(times) => times[i] + ShortestWindow < entry.resetTime
             /\ i + max <= Len(times) => times[i] + ShortestWindow < clock
  <2>1. times[i] \in Nat /\ times[i] < clock
    BY <1>2 DEF Over
  <2>2. i + max <= Len(times) => times[i] + ShortestWindow < clock
    BY <1>2 DEF Over
  <2>. QED
    BY <1>1, <2>1, <2>2
<1>3. /\ Len(times) \in 0 .. Len(times)
      /\ Len(times) - Len(times) <= entry.count /\ Len(times) - Len(times) <= max
  BY <1>1
<1>. QED
  BY <1>2, <1>3 DEF Under

\* A new entry, and the request that it is for is let pass.
LEMMA UnderNewAdmitted ==
    ASSUME clock \in Nat, ShortestWindow \in Nat, NEW entry \in Entry, NEW times \in Seq(Nat),
           NEW max \in Nat, Over(times, max), clock + ShortestWindow <= entry.resetTime,
           1 <= entry.count, 1 <= max, NEW more, more = Append(times, clock)
    PROVE  /\ Under(entry, more, max)
           /\ \A i \in DOMAIN times : i + 2 * max <= Len(times) + 1 =>
                 times[i] + ShortestWindow < clock
<1>1. /\ Len(times) \in Nat /\ DOMAIN times = 1 .. Len(times) /\ entry.resetTime \in Nat
      /\ entry.count \in Nat
  BY LenProperties DEF Entry
<1>2. /\ Len(more) = Len(times) + 1 /\ DOMAIN more = 1 .. Len(times) + 1
      /\ \A i \in 1 .. Len(times) : more[i] = times[i]
      /\ more[Len(times) + 1] = clock
  BY AppendFacts
<1>3. \A i \in DOMAIN times :
         /\ times[i] \in Nat /\ times[i] < clock
         /\ i + max <= Len(times) => times[i] + ShortestWindow < clock
  BY DEF Over
<1>4. ASSUME NEW i \in DOMAIN more
      PROVE  /\ more[i] <= entry.resetTime
             /\ i <= Len(times) => more[i] + ShortestWindow < entry.resetTime
             /\ i + max <= Len(times) => more[i] + ShortestWindow < clock
  <2>1. CASE i \in DOMAIN times
    BY <1>1, <1>2, <1>3, <2>1
  <2>2. CASE i = Len(times) + 1
    BY <1>1, <1>2, <2>2
  <2>. QED
    BY <1>1, <1>2, <2>1, <2>2
<1>5. /\ Len(times) \in 0 .. Len(more)
      /\ Len(more) - Len(times) <= entry.count /\ Len(more) - Len(times) <= max
  BY <1>1, <1>2
<1>6. Under(entry, more, max)
  BY <1>4, <1>5 DEF Under
<1>7. ASSUME NEW i \in DOMAIN times, i + 2 * max <= Len(times) + 1
      PROVE  times[i] + ShortestWindow < clock
  <2>1. i \in Nat /\ i + max <= Len(times)
    BY <1>1, <1>7
  <2>. QED
    BY <1>3, <2>1
<1>. QED
  BY <1>6, <1>7

\* An entry counts one request more, which is refused or is another limiter's.
LEMMA UnderCounted ==
    ASSUME NEW entry \in Entry, NEW counted \in Entry, NEW times \in Seq(Nat), NEW max \in Nat,
           Under(entry, times, max), counted.count = entry.count + 1,
           counted.resetTime = entry.resetTime
    PROVE  Under(counted, times, max)
<1>1. PICK b \in 0 .. Len(times) :
         /\ Len(times) - b <= entry.count /\ Len(times) - b <= max
         /\ \A i \in DOMAIN times :
               /\ times[i] <= entry.resetTime
               /\ i <= b => times[i] + ShortestWindow < entry.resetTime
               /\ i + max <= b => times[i] + ShortestWindow < clock
  BY DEF Under
<1>2. Len(times) - b <= counted.count
  BY <1>1, LenProperties DEF Entry
<1>. QED
  BY <1>1, <1>2 DEF Under

\* An entry counts one request more, which is let pass.
LEMMA UnderAdmitted ==
    ASSUME clock \in Nat, ShortestWindow \in Nat, NEW entry \in Entry, NEW counted \in Entry,
           NEW times \in Seq(Nat), NEW max \in Nat, Under(entry, times, max),
           counted.count = entry.count + 1, counted.resetTime = entry.resetTime,
           clock <= entry.resetTime, counted.count <= max, NEW more, more = Append(times, clock)
    PROVE  /\ Under(counted, more, max)
           /\ \A i \in DOMAIN times : i + 2 * max <= Len(times) + 1 =>
                 times[i] + ShortestWindow < clock
<1>1. PICK b \in 0 .. Len(times) :
         /\ Len(times) - b <= entry.count /\ Len(times) - b <= max
         /\ \A i \in DOMAIN times :
               /\ times[i] <= entry.resetTime
               /\ i <= b => times[i] + ShortestWindow < entry.resetTime
               /\ i + max <= b => times[i] + ShortestWindow < clock
  BY DEF Under
<1>2. /\ Len(times) \in Nat /\ DOMAIN times = 1 .. Len(times) /\ entry.resetTime \in Nat
      /\ entry.count \in Nat
  BY LenProperties DEF Entry
<1>3. /\ Len(more) = Len(times) + 1 /\ DOMAIN more = 1 .. Len(times) + 1
      /\ \A i \in 1 .. Len(times) : more[i] = times[i]
      /\ more[Len(times) + 1] = clock
  BY AppendFacts
<1>4. ASSUME NEW i \in DOMAIN more
      PROVE  /\ more[i] <= counted.resetTime
             /\ i <= b => more[i] + ShortestWindow < counted.resetTime
             /\ i + max <= b => more[i] + ShortestWindow < clock
  <2>1. CASE i \in DOMAIN times
    BY <1>1, <1>2, <1>3, <2>1
  <2>2. CASE i = Len(times) + 1
    BY <1>1, <1>2, <1>3, <2>2
  <2>. QED
    BY <1>2, <1>3, <2>1, <2>2
<1>5. /\ b \in 0 .. Len(more)
      /\ Len(more) - b <= counted.count /\ Len(more) - b <= max
  BY <1>1, <1>2, <1>3
<1>6. Under(counted, more, max)
  BY <1>4, <1>5 DEF Under
<1>7. ASSUME NEW i \in DOMAIN times, i + 2 * max <= Len(times) + 1
      PROVE  times[i] + ShortestWindow < clock
  <2>1. i \in Nat /\ i + max <= b
    BY <1>1, <1>2, <1>3, <1>5, <1>7
  <2>. QED
    BY <1>1, <1>7, <2>1
<1>. QED
  BY <1>6, <1>7

\* An entry is written.
LEMMA WrittenFacts ==
    ASSUME limits \in [DOMAIN limits -> Entry], NEW key, NEW entry \in Entry, NEW renewed,
           renewed = [k \in DOMAIN limits \cup {key} |-> IF k = key THEN entry ELSE limits[k]]
    PROVE  /\ DOMAIN renewed = DOMAIN limits \cup {key}
           /\ renewed \in [DOMAIN renewed -> Entry] /\ renewed[key] = entry
           /\ \A k \in DOMAIN limits \ {key} : renewed[k] = limits[k]
  OBVIOUS

\* The types of the limits.
LimitTypes ==
    /\ DOMAIN limits \subseteq LimitKeys /\ limits \in [DOMAIN limits -> Entry]
    /\ admissions \in [LimitKeys \X Limiters -> Seq(Nat)]

\* What WindowsKept says of one key and one limiter.
Window(key, l, times) ==
    /\ \A i \in DOMAIN times : times[i] <= clock
    /\ \A i, j \in DOMAIN times :
          i + 2 * l.maxRequests <= j => times[i] + ShortestWindow < times[j]
    /\ key \in DOMAIN limits => Under(limits[key], times, l.maxRequests)
    /\ key \notin DOMAIN limits => Over(times, l.maxRequests)

\* The window of a key and a limiter.
LEMMA WindowOf ==
    /\ WindowsKept <=> \A key \in LimitKeys, l \in Limiters : Window(key, l, admissions[<<key, l>>])
    /\ WindowsKept' <=>
          \A key \in LimitKeys, l \in Limiters : Window(key, l, admissions[<<key, l>>])'
  BY DEF WindowsKept, Window

\* What the facts about windows rest on.
LEMMA WindowTypes ==
    ASSUME PipelineAssumption, PipelineTypeOK, WindowsKept, NEW key \in LimitKeys, NEW l \in Limiters
    PROVE  /\ clock \in Nat /\ ShortestWindow \in Nat /\ l.maxRequests \in Nat
           /\ admissions[<<key, l>>] \in Seq(Nat)
           /\ Window(key, l, admissions[<<key, l>>])
           /\ key \in DOMAIN limits => limits[key] \in Entry
<1>1. clock \in Nat /\ ShortestWindow \in Nat /\ l.maxRequests \in Nat
  BY ShortestFacts DEF PipelineTypeOK, PipelineAssumption
<1>2. admissions[<<key, l>>] \in Seq(Nat) /\ (key \in DOMAIN limits => limits[key] \in Entry)
  BY DEF PipelineTypeOK
<1>3. Window(key, l, admissions[<<key, l>>])
  BY WindowOf
<1>. QED
  BY <1>1, <1>2, <1>3

\* Another request is let pass.
LEMMA WindowGrows ==
    ASSUME NEW l \in Limiters, l.maxRequests \in Nat, clock \in Nat, ShortestWindow \in Nat,
           NEW times \in Seq(Nat), NEW more, more = Append(times, clock),
           \A i \in DOMAIN times : times[i] <= clock,
           \A i, j \in DOMAIN times :
              i + 2 * l.maxRequests <= j => times[i] + ShortestWindow < times[j],
           \A i \in DOMAIN times : i + 2 * l.maxRequests <= Len(times) + 1 =>
              times[i] + ShortestWindow < clock,
           1 <= l.maxRequests
    PROVE  /\ \A i \in DOMAIN more : more[i] <= clock
           /\ \A i, j \in DOMAIN more :
                 i + 2 * l.maxRequests <= j => more[i] + ShortestWindow < more[j]
<1>1. Len(times) \in Nat /\ DOMAIN times = 1 .. Len(times)
  BY LenProperties
<1>2. /\ DOMAIN more = 1 .. Len(times) + 1
      /\ \A i \in 1 .. Len(times) : more[i] = times[i]
      /\ more[Len(times) + 1] = clock
  BY AppendFacts
<1>3. \A i \in DOMAIN more : more[i] <= clock
  BY <1>1, <1>2
<1>4. ASSUME NEW i \in DOMAIN more, NEW j \in DOMAIN more, i + 2 * l.maxRequests <= j
      PROVE  more[i] + ShortestWindow < more[j]
  <2>1. i \in DOMAIN times /\ more[i] = times[i]
    BY <1>1, <1>2, <1>4
  <2>2. CASE j \in DOMAIN times
    BY <1>1, <1>2, <1>4, <2>1, <2>2
  <2>3. CASE j = Len(times) + 1
    BY <1>1, <1>2, <1>4, <2>1, <2>3
  <2>. QED
    BY <1>1, <1>2, <2>2, <2>3
<1>. QED
  BY <1>3, <1>4

\* handleRateLimit(): the entry that counts the request, and who it lets pass.
LEMMA LimitWindows ==
    ASSUME PipelineAssumption, PipelineTypeOK, CsrfFacts, WindowsKept, NEW s \in Slots,
           handleRateLimit(s)
    PROVE  LimitTypes' /\ WindowsKept'
<1>1. PICK limiter \in Limiters, browser \in Browsers :
         limiter = MiddlewareOf(s) /\ browser = exchange[s].browser
  BY LimiterInCharge DEF handleRateLimit
<1>2. PICK key \in LimitKeys : key = KeyOf(limiter, browser)
  BY DEF LimitKeys
<1>3. PICK now : now = Current(key, limiter)
  OBVIOUS
<1>4. PICK entry : entry = [now EXCEPT !.count = now.count + 1]
  OBVIOUS
<1>5. /\ limits' = [k \in DOMAIN limits \cup {key} |-> IF k = key THEN entry ELSE limits[k]]
      /\ UNCHANGED clock
      /\ \/ UNCHANGED admissions
         \/ /\ ~ Exceeds(entry, limiter)
            /\ admissions' = [admissions EXCEPT
                  ![<<key, limiter>>] = Append(admissions[<<key, limiter>>], clock)]
  BY <1>1, <1>2, <1>3, <1>4 DEF handleRateLimit
<1>6. /\ limits \in [DOMAIN limits -> Entry] /\ DOMAIN limits \subseteq LimitKeys
      /\ admissions \in [LimitKeys \X Limiters -> Seq(Nat)] /\ clock \in Nat
      /\ limiter.windowMs \in Nat /\ limiter.maxRequests \in Nat
      /\ ShortestWindow \in Nat /\ ShortestWindow <= limiter.windowMs
  BY ShortestFacts DEF PipelineTypeOK, PipelineAssumption
<1>7. \/ /\ key \in DOMAIN limits /\ clock <= limits[key].resetTime /\ now = limits[key]
      \/ /\ key \in DOMAIN limits => limits[key].resetTime < clock
         /\ now = [count |-> 0, resetTime |-> clock + limiter.windowMs]
  <2>1. CASE key \in DOMAIN limits /\ clock <= limits[key].resetTime
    BY <1>3, <2>1 DEF Current
  <2>2. CASE ~ (key \in DOMAIN limits /\ clock <= limits[key].resetTime)
    <3>1. key \in DOMAIN limits => limits[key].resetTime \in Nat
      BY <1>6 DEF Entry
    <3>2. key \in DOMAIN limits => limits[key].resetTime < clock
      BY <1>6, <2>2, <3>1
    <3>. QED
      BY <1>3, <2>2, <3>2 DEF Current
  <2>. QED
    BY <2>1, <2>2
<1>8. now \in Entry /\ entry \in Entry
      /\ entry.count = now.count + 1 /\ entry.resetTime = now.resetTime
  <2>1. now \in Entry
    BY <1>6, <1>7 DEF Entry
  <2>. QED
    BY <1>4, <2>1 DEF Entry
<1>9. /\ DOMAIN limits' = DOMAIN limits \cup {key} /\ limits' \in [DOMAIN limits' -> Entry]
      /\ limits'[key] = entry /\ \A k \in DOMAIN limits \ {key} : limits'[k] = limits[k]
  BY <1>5, <1>6, <1>8, WrittenFacts
<1>10. LimitTypes'
  <2>1. Append(admissions[<<key, limiter>>], clock) \in Seq(Nat)
    BY <1>6, AppendFacts
  <2>2. admissions' \in [LimitKeys \X Limiters -> Seq(Nat)]
    BY <1>5, <1>6, <2>1
  <2>. QED
    BY <1>6, <1>9, <2>2 DEF LimitTypes
<1>11. ASSUME NEW k \in LimitKeys, NEW l \in Limiters
       PROVE  Window(k, l, admissions[<<k, l>>])'
  <2>1. PICK times \in Seq(Nat) : times = admissions[<<k, l>>]
    BY <1>6
  <2>2. PICK more : more = admissions'[<<k, l>>]
    OBVIOUS
  <2>3. /\ ShortestWindow \in Nat /\ l.maxRequests \in Nat /\ Window(k, l, times)
        /\ k \in DOMAIN limits => limits[k] \in Entry
    BY <2>1, WindowTypes
  <2>4. \/ more = times
        \/ /\ k = key /\ l = limiter /\ more = Append(times, clock)
           /\ ~ Exceeds(entry, limiter)
    BY <1>5, <1>6, <2>1, <2>2
  <2>5. ASSUME k # key
        PROVE  Window(k, l, more)'
    <3>1. more = times
      BY <2>4, <2>5
    <3>2. (k \in DOMAIN limits' <=> k \in DOMAIN limits)
          /\ (k \in DOMAIN limits => limits'[k] = limits[k])
      BY <1>9, <2>5
    <3>. QED
      BY <1>5, <2>3, <3>1, <3>2 DEF Window, Under, Over
  <2>6. ASSUME k = key, key \in DOMAIN limits, clock <= limits[key].resetTime, now = limits[key]
        PROVE  Window(k, l, more)'
    <3>1. Under(now, times, l.maxRequests)
      BY <2>3, <2>6 DEF Window
    <3>2. CASE more = times
      <4>1. Under(entry, more, l.maxRequests)
        BY <1>8, <2>3, <3>1, <3>2, UnderCounted
      <4>. QED
        BY <1>5, <1>9, <2>3, <2>6, <3>2, <4>1 DEF Window, Under
    <3>3. CASE l = limiter /\ more = Append(times, clock) /\ ~ Exceeds(entry, limiter)
      <4>1. entry.count <= l.maxRequests /\ 1 <= l.maxRequests
        <5>1. entry.count \in Nat /\ now.count \in Nat
          BY <1>8 DEF Entry
        <5>. QED
          BY <1>6, <1>8, <3>3, <5>1 DEF Exceeds
      <4>2. clock <= now.resetTime
        BY <2>6
      <4>3. /\ Under(entry, more, l.maxRequests)
            /\ \A i \in DOMAIN times : i + 2 * l.maxRequests <= Len(times) + 1 =>
                  times[i] + ShortestWindow < clock
        BY <1>6, <1>8, <2>3, <3>1, <3>3, <4>1, <4>2, UnderAdmitted
      <4>4. /\ \A i \in DOMAIN times : times[i] <= clock
            /\ \A i, j \in DOMAIN times :
                  i + 2 * l.maxRequests <= j => times[i] + ShortestWindow < times[j]
        BY <2>3 DEF Window
      <4>5. /\ \A i \in DOMAIN more : more[i] <= clock
            /\ \A i, j \in DOMAIN more :
                  i + 2 * l.maxRequests <= j => more[i] + ShortestWindow < more[j]
        BY <1>6, <2>3, <3>3, <4>1, <4>3, <4>4, WindowGrows
      <4>. QED
        BY <1>5, <1>9, <2>6, <4>3, <4>5 DEF Window, Under
    <3>. QED
      BY <2>4, <3>2, <3>3
  <2>7. ASSUME k = key, key \in DOMAIN limits => limits[key].resetTime < clock,
               now = [count |-> 0, resetTime |-> clock + limiter.windowMs]
        PROVE  Window(k, l, more)'
    <3>1. Over(times, l.maxRequests)
      BY <1>6, <2>3, <2>7, OverWhenLapsed DEF Window
    <3>2. clock + ShortestWindow <= entry.resetTime /\ entry.count = 1
      BY <1>6, <1>8, <2>7
    <3>3. CASE more = times
      <4>1. Under(entry, more, l.maxRequests)
        BY <1>6, <1>8, <2>3, <3>1, <3>2, <3>3, UnderNew
      <4>. QED
        BY <1>5, <1>9, <2>3, <2>7, <3>3, <4>1 DEF Window, Under
    <3>4. CASE l = limiter /\ more = Append(times, clock) /\ ~ Exceeds(entry, limiter)
      <4>1. 1 <= entry.count /\ 1 <= l.maxRequests
        BY <1>6, <3>2, <3>4 DEF Exceeds
      <4>3. /\ Under(entry, more, l.maxRequests)
            /\ \A i \in DOMAIN times : i + 2 * l.maxRequests <= Len(times) + 1 =>
                  times[i] + ShortestWindow < clock
        BY <1>6, <1>8, <2>3, <3>1, <3>2, <3>4, <4>1, UnderNewAdmitted
      <4>4. /\ \A i \in DOMAIN times : times[i] <= clock
            /\ \A i, j \in DOMAIN times :
                  i + 2 * l.maxRequests <= j => times[i] + ShortestWindow < times[j]
        BY <2>3 DEF Window
      <4>5. /\ \A i \in DOMAIN more : more[i] <= clock
            /\ \A i, j \in DOMAIN more :
                  i + 2 * l.maxRequests <= j => more[i] + ShortestWindow < more[j]
        BY <1>6, <2>3, <3>4, <4>1, <4>3, <4>4, WindowGrows
      <4>. QED
        BY <1>5, <1>9, <2>7, <4>3, <4>5 DEF Window, Under
    <3>. QED
      BY <2>4, <3>3, <3>4
  <2>8. Window(k, l, more)'
    BY <1>7, <2>5, <2>6, <2>7
  <2>. QED
    BY <2>2, <2>8 DEF Window
<1>. QED
  BY <1>10, <1>11, WindowOf

\* cleanupRateLimitStore(): an entry goes when its time is over.
LEMMA CleanupWindows ==
    ASSUME PipelineAssumption, PipelineTypeOK, WindowsKept, cleanupRateLimitStore
    PROVE  LimitTypes' /\ WindowsKept'
<1>1. PICK live : live = {key \in DOMAIN limits : clock <= limits[key].resetTime}
  OBVIOUS
<1>2. /\ UNCHANGED <<clock, admissions>> /\ live \subseteq DOMAIN limits
      /\ DOMAIN limits' = live /\ \A k \in live : limits'[k] = limits[k]
      /\ limits \in [DOMAIN limits -> Entry]
  BY <1>1 DEF cleanupRateLimitStore, Restrict, PipelineTypeOK
<1>3. limits' \in [DOMAIN limits' -> Entry]
  BY <1>1, <1>2 DEF cleanupRateLimitStore, Restrict
<1>4. LimitTypes'
  BY <1>2, <1>3 DEF LimitTypes, PipelineTypeOK
<1>5. ASSUME NEW k \in LimitKeys, NEW l \in Limiters
      PROVE  Window(k, l, admissions[<<k, l>>])'
  <2>1. PICK times \in Seq(Nat) : times = admissions[<<k, l>>]
    BY WindowTypes
  <2>2. /\ ShortestWindow \in Nat /\ l.maxRequests \in Nat /\ Window(k, l, times) /\ clock \in Nat
        /\ k \in DOMAIN limits => limits[k] \in Entry
    BY <2>1, WindowTypes
  <2>3. ASSUME k \in live
        PROVE  Window(k, l, times)'
    BY <1>2, <2>2, <2>3 DEF Window, Under
  <2>4. ASSUME k \notin live
        PROVE  Window(k, l, times)'
    <3>1. ASSUME k \in DOMAIN limits
          PROVE  limits[k].resetTime < clock
      BY <1>1, <2>2, <2>4, <3>1 DEF Entry
    <3>2. Over(times, l.maxRequests)
      BY <2>2, <3>1, OverWhenLapsed DEF Window
    <3>. QED
      BY <1>2, <2>2, <2>4, <3>2 DEF Window, Over
  <2>5. Window(k, l, times)'
    BY <2>3, <2>4
  <2>. QED
    BY <1>2, <2>1, <2>5 DEF Window
<1>. QED
  BY <1>4, <1>5, WindowOf

\* resetRateLimitForKey(): a key starts anew.
LEMMA ResetWindows ==
    ASSUME PipelineAssumption, PipelineTypeOK, WindowsKept, NEW keys, resetRateLimit(keys)
    PROVE  LimitTypes' /\ WindowsKept'
<1>1. /\ UNCHANGED clock /\ DOMAIN limits' = DOMAIN limits \ keys
      /\ \A k \in DOMAIN limits \ keys : limits'[k] = limits[k]
      /\ limits' = [k \in DOMAIN limits \ keys |-> limits[k]]
      /\ limits \in [DOMAIN limits -> Entry]
  BY DEF resetRateLimit, Restrict, PipelineTypeOK
<1>2. /\ admissions' = [kl \in LimitKeys \X Limiters |->
                           IF kl[1] \in keys THEN <<>> ELSE admissions[kl]]
      /\ admissions \in [LimitKeys \X Limiters -> Seq(Nat)]
  BY DEF resetRateLimit, PipelineTypeOK
<1>3. <<>> \in Seq(Nat) /\ DOMAIN <<>> = {}
  OBVIOUS
<1>4. LimitTypes'
  <2>1. limits' \in [DOMAIN limits' -> Entry] /\ DOMAIN limits' \subseteq LimitKeys
    BY <1>1 DEF PipelineTypeOK
  <2>2. admissions' \in [LimitKeys \X Limiters -> Seq(Nat)]
    BY <1>2, <1>3
  <2>. QED
    BY <2>1, <2>2 DEF LimitTypes
<1>5. ASSUME NEW k \in LimitKeys, NEW l \in Limiters
      PROVE  Window(k, l, admissions[<<k, l>>])'
  <2>1. PICK times : times = admissions[<<k, l>>]
    OBVIOUS
  <2>2. PICK more : more = admissions'[<<k, l>>]
    OBVIOUS
  <2>3. ASSUME k \in keys
        PROVE  Window(k, l, more)'
    <3>1. more = <<>> /\ DOMAIN more = {} /\ k \notin DOMAIN limits'
      BY <1>1, <1>2, <1>3, <2>2, <2>3
    <3>. QED
      BY <3>1 DEF Window, Over
  <2>4. ASSUME k \notin keys
        PROVE  Window(k, l, more)'
    <3>1. more = times /\ Window(k, l, times)
      BY <1>2, <2>1, <2>2, <2>4, WindowTypes
    <3>2. (k \in DOMAIN limits' <=> k \in DOMAIN limits)
          /\ (k \in DOMAIN limits => limits'[k] = limits[k])
      BY <1>1, <2>4
    <3>. QED
      BY <1>1, <3>1, <3>2 DEF Window, Under, Over
  <2>5. Window(k, l, more)'
    BY <2>3, <2>4
  <2>. QED
    BY <2>2, <2>5 DEF Window
<1>. QED
  BY <1>4, <1>5, WindowOf

\* As time passes, what was let pass lies further back.
LEMMA TimeWindows ==
    ASSUME PipelineAssumption, PipelineTypeOK, WindowsKept, passTime
    PROVE  LimitTypes' /\ WindowsKept'
<1>1. UNCHANGED <<limits, admissions>> /\ clock' = clock + 1
  BY DEF passTime, limitVars
<1>2. LimitTypes'
  BY <1>1 DEF LimitTypes, PipelineTypeOK
<1>3. ASSUME NEW k \in LimitKeys, NEW l \in Limiters
      PROVE  Window(k, l, admissions[<<k, l>>])'
  <2>1. PICK times \in Seq(Nat) : times = admissions[<<k, l>>]
    BY WindowTypes
  <2>2. /\ ShortestWindow \in Nat /\ l.maxRequests \in Nat /\ Window(k, l, times) /\ clock \in Nat
        /\ k \in DOMAIN limits => limits[k] \in Entry
    BY <2>1, WindowTypes
  <2>3. \A i \in DOMAIN times : times[i] \in Nat
    OBVIOUS
  <2>4. \A i \in DOMAIN times : times[i] <= clock'
    BY <1>1, <2>2, <2>3 DEF Window
  <2>5. ASSUME k \in DOMAIN limits
        PROVE  Under(limits[k], times, l.maxRequests)'
    <3>1. PICK entry \in Entry : entry = limits[k] /\ entry = limits'[k]
      BY <1>1, <2>2, <2>5
    <3>2. PICK b \in 0 .. Len(times) :
             /\ Len(times) - b <= entry.count /\ Len(times) - b <= l.maxRequests
             /\ \A i \in DOMAIN times :
                   /\ times[i] <= entry.resetTime
                   /\ i <= b => times[i] + ShortestWindow < entry.resetTime
                   /\ i + l.maxRequests <= b => times[i] + ShortestWindow < clock
      BY <2>2, <2>5, <3>1 DEF Window, Under
    <3>3. \A i \in DOMAIN times :
             i + l.maxRequests <= b => times[i] + ShortestWindow < clock'
      BY <1>1, <2>2, <2>3, <3>2
    <3>4. Under(entry, times, l.maxRequests)'
      BY <3>2, <3>3 DEF Under
    <3>. QED
      BY <3>1, <3>4 DEF Under
  <2>6. ASSUME k \notin DOMAIN limits
        PROVE  Over(times, l.maxRequests)'
    <3>1. \A i \in DOMAIN times :
             /\ times[i] < clock
             /\ i + l.maxRequests <= Len(times) => times[i] + ShortestWindow < clock
      BY <2>2, <2>6 DEF Window, Over
    <3>2. \A i \in DOMAIN times :
             /\ times[i] < clock'
             /\ i + l.maxRequests <= Len(times) => times[i] + ShortestWindow < clock'
      BY <1>1, <2>2, <2>3, <3>1
    <3>. QED
      BY <3>2 DEF Over
  <2>7. Window(k, l, times)'
    BY <1>1, <2>2, <2>4, <2>5, <2>6 DEF Window
  <2>. QED
    BY <1>1, <2>1, <2>7 DEF Window
<1>. QED
  BY <1>2, <1>3, WindowOf

\* Steps that let nobody pass.
LEMMA WindowsUntouched ==
    ASSUME PipelineTypeOK, WindowsKept, UNCHANGED <<clock, limitVars>>
    PROVE  LimitTypes' /\ WindowsKept'
<1>1. UNCHANGED <<clock, limits, admissions>>
  BY DEF limitVars
<1>2. LimitTypes'
  BY <1>1 DEF LimitTypes, PipelineTypeOK
<1>3. WindowsKept'
  <2>1. \A times, max : Over(times, max)' <=> Over(times, max)
    BY <1>1 DEF Over
  <2>2. \A entry, times, max : Under(entry, times, max)' <=> Under(entry, times, max)
    BY <1>1 DEF Under
  <2>3. clock' = clock /\ limits' = limits /\ admissions' = admissions
    BY <1>1
  <2>. QED
    BY <2>1, <2>2, <2>3 DEF WindowsKept
<1>. QED
  BY <1>2, <1>3

\* What a step does to the limits.
LEMMA WindowsStep ==
    ASSUME PipelineAssumption, PipelineTypeOK, CsrfFacts, WindowsKept, [PipelineNext]_pipelineVars
    PROVE  LimitTypes' /\ WindowsKept'
<1>1. ASSUME NEW s \in Slots,
             \/ \E b \in Browsers, path \in DOMAIN Explicit \cup AutoPaths,
                   method \in {"GET", "POST", "OPTIONS"} :
                   \E field \in pages[b] \cup {NoToken} : receive(s, b, path, method, field)
             \/ skipped(s) \/ handleCors(s) \/ csrfMiddleware(s) \/ csrfCompared(s)
             \/ (\E found \in BOOLEAN : resolve(s, found)) \/ handle(s) \/ handleForm(s)
      PROVE  LimitTypes' /\ WindowsKept'
  <2>1. UNCHANGED <<clock, limitVars>>
    BY <1>1 DEF receive, skipped, handleCors, csrfMiddleware, csrfCompared, resolve, handle,
                handleForm
  <2>. QED
    BY <2>1, WindowsUntouched
<1>2. ASSUME UNCHANGED pipelineVars
      PROVE  LimitTypes' /\ WindowsKept'
  BY <1>2, WindowsUntouched DEF pipelineVars
<1>. QED
  BY <1>1, <1>2, LimitWindows, CleanupWindows, ResetWindows, TimeWindows DEF PipelineNext

\* No more than twice maxRequests fit between two instants a window apart.
LEMMA BurstFollows ==
    ASSUME PipelineAssumption, PipelineTypeOK, WindowsKept
    PROVE  BurstBounded
<1>1. ASSUME NEW key \in LimitKeys, NEW l \in Limiters, NEW times \in Seq(Nat),
             times = admissions[<<key, l>>], NEW i \in DOMAIN times, NEW J,
             J = {j \in DOMAIN times : j >= i /\ times[j] <= times[i] + ShortestWindow}
      PROVE  Cardinality(J) <= 2 * l.maxRequests
  <2>1. PICK most : most = 2 * l.maxRequests
    OBVIOUS
  <2>2. /\ ShortestWindow \in Nat /\ l.maxRequests \in Nat /\ Window(key, l, times)
        /\ most \in Nat
    BY <1>1, <2>1, WindowTypes
  <2>3. Len(times) \in Nat /\ DOMAIN times = 1 .. Len(times) /\ \A j \in DOMAIN times : times[j] \in Nat
    BY LenProperties
  <2>4. J \subseteq i .. i + most - 1
    <3>1. ASSUME NEW j \in J
          PROVE  j \in i .. i + most - 1
      <4>1. j \in DOMAIN times /\ j >= i /\ times[j] <= times[i] + ShortestWindow
        BY <1>1, <3>1
      <4>2. ~ (i + most <= j)
        <5>1. ASSUME i + most <= j
              PROVE  FALSE
          <6>1. times[i] + ShortestWindow < times[j]
            BY <2>1, <2>2, <4>1, <5>1 DEF Window
          <6>. QED
            BY <2>2, <2>3, <4>1, <6>1
        <5>. QED
          BY <5>1
      <4>. QED
        BY <2>2, <2>3, <4>1, <4>2
    <3>. QED
      BY <3>1
  <2>5. i \in Int /\ i + most - 1 \in Int
    BY <2>2, <2>3
  <2>6. /\ IsFiniteSet(i .. i + most - 1)
        /\ Cardinality(i .. i + most - 1) =
              IF i > i + most - 1 THEN 0 ELSE (i + most - 1) - i + 1
    BY <2>5, FS_Interval
  <2>7. Cardinality(i .. i + most - 1) = most
    BY <2>2, <2>3, <2>6
  <2>8. Cardinality(J) <= Cardinality(i .. i + most - 1)
    BY <2>4, <2>6, FS_Subset
  <2>. QED
    BY <2>1, <2>7, <2>8
<1>2. ASSUME NEW key \in LimitKeys, NEW l \in Limiters
      PROVE  admissions[<<key, l>>] \in Seq(Nat)
  BY <1>2, WindowTypes
<1>. QED
  BY <1>1, <1>2 DEF BurstBounded

-----------------------------------------------------------------------------
(* The pipeline.                                                           *)

\* A pipeline invariant is one of types, of requests and tokens, and of limits.
LEMMA PipelineParts ==
    /\ PipelineInv <=> PipelineTypeOK /\ CsrfFacts /\ WindowsKept
    /\ CsrfFacts' /\ PipelineTypeOK' /\ WindowsKept' => PipelineInv'
    /\ PipelineAssumption /\ CsrfTypes' /\ LimitTypes' => PipelineTypeOK'
<1>1. PipelineInv <=> PipelineTypeOK /\ CsrfFacts /\ WindowsKept
  BY DEF PipelineInv, CsrfFacts
<1>2. CsrfFacts' /\ PipelineTypeOK' /\ WindowsKept' => PipelineInv'
  BY DEF PipelineInv, CsrfFacts
<1>3. ASSUME PipelineAssumption, CsrfTypes', LimitTypes'
      PROVE  PipelineTypeOK'
  <2>1. clock' \in 0 .. MaxClock
    BY <1>3 DEF CsrfTypes, PipelineAssumption
  <2>. QED
    BY <1>3, <2>1 DEF PipelineTypeOK, CsrfTypes, LimitTypes, Exchanges
<1>. QED
  BY <1>1, <1>2, <1>3

\* A system nobody has asked anything.
LEMMA PipelineInitially ==
    ASSUME PipelineAssumption, PipelineInit
    PROVE  PipelineInv
<1>1. /\ clock = 0 /\ limits = <<>> /\ jar = [b \in Browsers |-> NoToken]
      /\ pages = [b \in Browsers |-> {}] /\ expiry = <<>> /\ asked = 0 /\ raced = {}
      /\ exchange = [s \in Slots |-> NoExchange]
      /\ admissions = [kl \in LimitKeys \X Limiters |-> <<>>]
  BY DEF PipelineInit
<1>2. /\ <<>> \in Seq(Nat) /\ DOMAIN <<>> = {} /\ Len(<<>>) = 0
      /\ 0 \in 0 .. MaxClock /\ 0 \in 0 .. MaxTokens /\ 0 \in 0 .. MaxRequests
      /\ 0 <= MaxTokens /\ MaxTokens \in Nat
  BY DEF PipelineAssumption
<1>3. PipelineTypeOK
  <2>1. DOMAIN limits = {} /\ limits \in [DOMAIN limits -> Entry]
    BY <1>1, <1>2
  <2>2. jar \in [Browsers -> 0 .. MaxTokens] /\ pages \in [Browsers -> SUBSET Tokens]
    BY <1>1, <1>2 DEF NoToken
  <2>3. expiry \in Seq(Nat) /\ Len(expiry) <= MaxTokens
    BY <1>1, <1>2
  <2>4. exchange \in [Slots -> {NoExchange} \cup Exchange]
    BY <1>1
  <2>5. admissions \in [LimitKeys \X Limiters -> Seq(Nat)]
    BY <1>1, <1>2
  <2>. QED
    BY <1>1, <1>2, <2>1, <2>2, <2>3, <2>4, <2>5 DEF PipelineTypeOK
<1>4. \A s \in Slots : Pc(s) = "none" /\ exchange[s] = NoExchange
  BY <1>1, AnswerFacts DEF Pc
<1>5. CsrfFacts
  <2>1. PassedSoFar
    BY <1>4, AnswerFacts DEF PassedSoFar
  <2>2. TokensKnown
    BY <1>1, <1>2, <1>4 DEF TokensKnown, NoToken
  <2>3. PagesMatchCookie /\ CookiesMatch
    BY <1>1, <1>4 DEF PagesMatchCookie, CookiesMatch
  <2>. QED
    BY <2>1, <2>2, <2>3 DEF CsrfFacts
<1>6. WindowsKept
  <2>1. ASSUME NEW k \in LimitKeys, NEW l \in Limiters
        PROVE  Window(k, l, admissions[<<k, l>>])
    <3>1. PICK times : times = admissions[<<k, l>>]
      OBVIOUS
    <3>2. DOMAIN times = {}
      BY <1>1, <1>2, <3>1
    <3>3. k \notin DOMAIN limits
      BY <1>1, <1>2
    <3>4. Window(k, l, times)
      BY <3>2, <3>3 DEF Window, Over
    <3>. QED
      BY <3>1, <3>4
  <2>. QED
    BY <2>1, WindowOf
<1>. QED
  BY <1>3, <1>5, <1>6, PipelineParts

\* receive() to the answer, with limits, tokens and the middlewares of every chain:
\* the invariant of the pipeline is inductive.
THEOREM PipelineInductive == PipelineSpec => []PipelineInv
<1>. USE PipelineAssumption
<1>1. PipelineInit => PipelineInv
  BY PipelineInitially
<1>2. PipelineInv /\ [PipelineNext]_pipelineVars => PipelineInv'
  <2>1. ASSUME PipelineInv, [PipelineNext]_pipelineVars
        PROVE  PipelineInv'
    <3>1. PipelineTypeOK /\ CsrfFacts /\ WindowsKept
      BY <2>1, PipelineParts
    <3>2. CsrfFacts' /\ CsrfTypes'
      BY <2>1, <3>1, CsrfKept
    <3>3. LimitTypes' /\ WindowsKept'
      BY <2>1, <3>1, WindowsStep
    <3>. QED
      BY <3>2, <3>3, PipelineParts
  <2>. QED
    BY <2>1
<1>. QED
  BY <1>1, <1>2, PTL DEF PipelineSpec

\* executeRoute(), runMiddlewarePipeline(): whatever else runs between two of its
\* steps, a handler gets the requests that every effective middleware of its chain
\* let pass.
THEOREM HandlerGuardedHolds == PipelineSpec => []HandlerGuarded
<1>1. PipelineInv => HandlerGuarded
  BY DEF PipelineInv, HandlerGuarded, PassedSoFar, Passed, Pc
<1>. QED
  BY <1>1, PipelineInductive, PTL

\* handleRateLimit(): no limiter lets more than twice its maxRequests pass within
\* the shortest window, for any limiters that share the store.
THEOREM BurstBoundedHolds == PipelineSpec => []BurstBounded
<1>1. PipelineInv => BurstBounded
  BY PipelineAssumption, BurstFollows DEF PipelineInv
<1>. QED
  BY <1>1, PipelineInductive, PTL

\* getCsrfToken(): the pages of a browser that was not given two tokens at once carry
\* the token of its cookie.
THEOREM PagesMatchCookieHolds == PipelineSpec => []PagesMatchCookie
<1>1. PipelineInv => PagesMatchCookie
  BY DEF PipelineInv
<1>. QED
  BY <1>1, PipelineInductive, PTL

\* The pipeline keeps all three promises, whatever the routes and the browsers are.
THEOREM RequestsGuardedHolds == PipelineSpec => []RequestsGuarded
<1>. QED
  BY HandlerGuardedHolds, BurstBoundedHolds, PagesMatchCookieHolds, PTL DEF RequestsGuarded

-----------------------------------------------------------------------------
(* Sessions: what the store has once everything on its way has arrived.   *)

\* A request is one of those of its type.
LEMMA RequestOf ==
    ASSUME SessionsTypeOK, NEW r \in Requests
    PROVE  /\ request \in [Requests -> Req] /\ request[r] \in Req
           /\ RequestPc(r) = request[r].pc /\ request[r].server \in WebServers
           /\ request[r].id \in 0 .. MaxIds /\ request[r].ref \in Objects
           /\ request[r].ref[1] \in Requests /\ DataOf(r) \subseteq Keys
           /\ r \in Busy <=> RequestPc(r) \in {"loading", "open", "waiting"}
<1>1. request \in [Requests -> Req] /\ request[r] \in Req
  BY DEF SessionsTypeOK
<1>2. /\ request[r].server \in WebServers /\ request[r].id \in 0 .. MaxIds
      /\ request[r].ref \in Objects
      /\ request[r].pc \in {"idle", "loading", "open", "waiting", "done"}
  BY <1>1 DEF Req
<1>3. request[r].ref[1] \in Requests
  BY <1>2 DEF Objects
<1>4. DataOf(r) \subseteq Keys
  BY <1>2 DEF DataOf, SessionsTypeOK
<1>5. r \in Busy <=> RequestPc(r) \in {"loading", "open", "waiting"}
  BY <1>2 DEF Busy, RequestPc
<1>. QED
  BY <1>1, <1>2, <1>3, <1>4, <1>5 DEF RequestPc

\* One request goes on; the others stay where they are.
LEMMA RequestMoves ==
    ASSUME SessionsTypeOK, NEW r \in Requests, NEW x \in Req,
           request' = [request EXCEPT ![r] = x], x.pc # "idle"
    PROVE  /\ request' \in [Requests -> Req] /\ request'[r] = x
           /\ \A q \in Requests \ {r} : request'[q] = request[q]
           /\ \A q \in Requests : request'[q].pc = "idle" => q # r /\ request[q].pc = "idle"
           /\ x.pc = "done" => Busy' = Busy \ {r}
           /\ x.pc # "done" => Busy' = Busy \cup {r}
<1>1. request \in [Requests -> Req]
  BY DEF SessionsTypeOK
<1>2. /\ request' \in [Requests -> Req] /\ request'[r] = x
      /\ \A q \in Requests \ {r} : request'[q] = request[q]
  BY <1>1
<1>3. \A q \in Requests : request'[q].pc = "idle" => q # r /\ request[q].pc = "idle"
  BY <1>2
<1>4. \A q \in Requests : q \in Busy' <=> request'[q].pc \notin {"idle", "done"}
  BY DEF Busy, RequestPc
<1>5. \A q \in Requests : q \in Busy <=> request[q].pc \notin {"idle", "done"}
  BY DEF Busy, RequestPc
<1>6. Busy \subseteq Requests /\ Busy' \subseteq Requests
  BY DEF Busy
<1>7. CASE x.pc = "done"
  <2>1. \A q \in Requests : q \in Busy' <=> q \in Busy \ {r}
    BY <1>2, <1>4, <1>5, <1>7
  <2>. QED
    BY <1>2, <1>3, <1>6, <1>7, <2>1
<1>8. CASE x.pc # "done"
  <2>1. \A q \in Requests : q \in Busy' <=> q \in Busy \cup {r}
    BY <1>2, <1>4, <1>5, <1>8
  <2>. QED
    BY <1>2, <1>3, <1>6, <1>8, <2>1
<1>. QED
  BY <1>7, <1>8

\* What a step of one request keeps true of ids and owners.
LEMMA IdsKept ==
    ASSUME SessionsTypeOK, IdsKnown, NEW r \in Requests, NEW x \in Req,
           request' = [request EXCEPT ![r] = x], x.pc # "idle",
           driver' = driver, generated' \in Nat, generated <= generated', generated \in Nat,
           exists' \cup gone' \cup {cookie'} \subseteq 0 .. generated',
           x.pc # "done" =>
              /\ x.id \in 1 .. generated'
              /\ x.moved => driver \in {"memory", "file"}
              /\ ~ SharesObjects => x.ref[1] = r
              /\ x.ref[1] = r \/ RequestPc(x.ref[1]) # "idle"
              /\ driver # "redis" => x.pc = "open",
           \A q \in Requests \ {r} : RequestPc(q) = "idle" =>
              object'[<<q, "first">>] = object[<<q, "first">>],
           driver # "redis" => unexpiring' = {} /\ wire' = wire,
           SharesObjects => \A id \in exists' :
              kept'[id][1] = r \/ (id \in exists /\ kept'[id] = kept[id])
                               \/ (r \in Busy /\ kept'[id] = request[r].ref),
           SharesObjects => \A id \in exists' : kept'[id][1] \in Requests
    PROVE  IdsKnown'
<1>1. /\ request' \in [Requests -> Req] /\ request'[r] = x
      /\ \A q \in Requests \ {r} : request'[q] = request[q]
      /\ \A q \in Requests : request'[q].pc = "idle" => q # r /\ request[q].pc = "idle"
      /\ x.pc = "done" => Busy' = Busy \ {r}
      /\ x.pc # "done" => Busy' = Busy \cup {r}
  BY RequestMoves
<1>2. /\ \A q \in Busy' : q = r \/ (q # r /\ q \in Busy /\ q \in Requests)
      /\ \A q \in Busy' : q = r => x.pc # "done"
      /\ Busy' \subseteq Requests
  <2>1. Busy \subseteq Requests
    BY DEF Busy
  <2>2. CASE x.pc = "done"
    <3>1. Busy' = Busy \ {r}
      BY <1>1, <2>2
    <3>. QED
      BY <2>1, <3>1
  <2>3. CASE x.pc # "done"
    <3>1. Busy' = Busy \cup {r}
      BY <1>1, <2>3
    <3>. QED
      BY <2>1, <2>3, <3>1
  <2>. QED
    BY <2>2, <2>3
<1>3. \A q \in Requests : RequestPc(q)' = "idle" => q # r /\ RequestPc(q) = "idle"
  BY <1>1 DEF RequestPc
<1>4. exists' \cup gone' \cup {cookie'} \subseteq 0 .. generated'
  OBVIOUS
<1>5. \A q \in Busy' : request'[q].id \in 1 .. generated'
  <2>1. \A q \in Busy : request[q].id \in 1 .. generated
    BY DEF IdsKnown
  <2>. QED
    BY <1>1, <1>2, <2>1
<1>6. \A q \in Requests : RequestPc(q)' = "idle" => object'[<<q, "first">>] = {}
  <2>1. \A q \in Requests : RequestPc(q) = "idle" => object[<<q, "first">>] = {}
    BY DEF IdsKnown
  <2>2. ASSUME NEW q \in Requests, RequestPc(q)' = "idle"
        PROVE  object'[<<q, "first">>] = {}
    <3>1. q # r /\ RequestPc(q) = "idle"
      BY <1>3, <2>2
    <3>. QED
      BY <2>1, <3>1
  <2>. QED
    BY <2>2
<1>7. ASSUME driver' # "redis"
      PROVE  /\ unexpiring' = {} /\ \A s \in WebServers : wire'[s] = <<>>
             /\ \A q \in Busy' : Open(q)'
  <2>1. driver # "redis" /\ unexpiring' = {} /\ wire' = wire
    BY <1>7
  <2>2. (\A s \in WebServers : wire[s] = <<>>) /\ \A q \in Busy : Open(q)
    BY <2>1 DEF IdsKnown
  <2>3. ASSUME NEW q \in Busy'
        PROVE  Open(q)'
    <3>1. \/ request'[q] = x /\ x.pc = "open"
          \/ q \in Busy /\ request'[q] = request[q]
      BY <1>1, <1>2, <2>1, <2>3
    <3>. QED
      BY <2>2, <3>1 DEF Open, RequestPc
  <2>. QED
    BY <2>1, <2>2, <2>3
<1>8. SharesObjects' <=> SharesObjects
  BY DEF SharesObjects
<1>9. ASSUME NEW q \in Busy'
      PROVE  /\ request'[q].moved => driver' \in {"memory", "file"}
             /\ ~ SharesObjects' => request'[q].ref[1] = q
             /\ (RequestPc(request[q].ref[1]) # "idle")'
  <2>1. CASE q = r
    <3>1. request'[q] = x /\ x.pc # "done" /\ x.ref[1] \in Requests
      BY <1>1, <1>2, <2>1 DEF Req, Objects
    <3>2. RequestPc(x.ref[1])' # "idle"
      BY <1>3, <3>1
    <3>. QED
      BY <1>8, <2>1, <3>1, <3>2 DEF RequestPc
  <2>2. CASE q # r
    <3>1. request'[q] = request[q] /\ q \in Busy /\ request[q].ref[1] \in Requests
      BY <1>1, <1>2, <2>2, RequestOf
    <3>2. RequestPc(request[q].ref[1]) # "idle"
      BY <3>1 DEF IdsKnown
    <3>3. PICK o \in Requests : o = request[q].ref[1] /\ RequestPc(o) # "idle"
      BY <3>1, <3>2
    <3>4. RequestPc(o)' # "idle"
      BY <1>3, <3>3
    <3>. QED
      BY <1>8, <3>1, <3>3, <3>4 DEF IdsKnown, RequestPc
  <2>. QED
    BY <2>1, <2>2
<1>10. ASSUME SharesObjects, NEW id \in exists'
       PROVE  (RequestPc(kept[id][1]))' # "idle"
  <2>1. PICK o \in Requests : o = kept'[id][1]
    BY <1>10
  <2>2. o = r \/ RequestPc(o) # "idle"
    <3>1. r \in Busy => RequestPc(request[r].ref[1]) # "idle"
      BY DEF IdsKnown
    <3>. QED
      BY <1>10, <2>1, <3>1 DEF IdsKnown
  <2>3. RequestPc(o)' # "idle"
    BY <1>3, <2>2
  <2>. QED
    BY <2>1, <2>3 DEF RequestPc
<1>. QED
  BY <1>4, <1>5, <1>6, <1>7, <1>8, <1>9, <1>10 DEF IdsKnown

\* No command is on its way but to Redis: what will be is what is.
LEMMA LocalFacts ==
    ASSUME IdsKnown, driver # "redis"
    PROVE  /\ \A s \in WebServers : wire[s] = <<>>
           /\ \A id, data : WillHold(id, data) <=> Stored(id) = data
           /\ \A id : WillBeGone(id) <=> id \notin exists
           /\ CommandsAwaited
<1>1. \A s \in WebServers : wire[s] = <<>> /\ DOMAIN wire[s] = {}
  BY DEF IdsKnown
<1>2. \A id : ~ Pending(id)
  BY <1>1 DEF Pending
<1>. QED
  BY <1>1, <1>2 DEF WillHold, WillBeGone, CommandsAwaited

\* The same of the next state.
LEMMA LocalFactsNext ==
    ASSUME IdsKnown', driver' # "redis"
    PROVE  /\ \A s \in WebServers : wire'[s] = <<>> /\ DOMAIN wire'[s] = {}
           /\ \A id, data : WillHold(id, data)' <=> Stored(id)' = data
           /\ \A id : WillBeGone(id)' <=> id \notin exists'
           /\ CommandsAwaited'
<1>1. \A s \in WebServers : wire'[s] = <<>> /\ DOMAIN wire'[s] = {}
  BY DEF IdsKnown
<1>2. \A id : ~ Pending(id)'
  BY <1>1 DEF Pending
<1>. QED
  BY <1>1, <1>2 DEF WillHold, WillBeGone, CommandsAwaited

\* What requests with the same id share, when one of them goes on.
LEMMA SharedKept ==
    ASSUME SessionsTypeOK, NoLostUpdate, NEW r \in Requests, NEW x \in Req,
           request' = [request EXCEPT ![r] = x], x.pc # "idle", driver' = driver,
           SharesObjects =>
              /\ x.pc # "done" =>
                    /\ \A q \in Busy \ {r} : request[q].id = x.id => request[q].ref = x.ref
                    /\ x.id \in exists' => kept'[x.id] = x.ref
              /\ \A q \in Busy \ {r} : request[q].id \in exists' =>
                    kept'[request[q].id] = request[q].ref
    PROVE  NoLostUpdate'
<1>1. /\ request'[r] = x /\ \A q \in Requests \ {r} : request'[q] = request[q]
      /\ x.pc = "done" => Busy' = Busy \ {r}
      /\ x.pc # "done" => Busy' = Busy \cup {r}
  BY RequestMoves
<1>2. SharesObjects' <=> SharesObjects
  BY DEF SharesObjects
<1>3. Busy \subseteq Requests
  BY DEF Busy
<1>4. ASSUME SharesObjects, NEW q \in Busy'
      PROVE  \/ q = r /\ request'[q] = x /\ x.pc # "done"
             \/ q \in Busy \ {r} /\ request'[q] = request[q]
  BY <1>1, <1>3, <1>4
<1>5. ASSUME SharesObjects, NEW p \in Busy', NEW q \in Busy', request'[p].id = request'[q].id
      PROVE  /\ request'[p].ref = request'[q].ref
             /\ request'[p].id \in exists' => kept'[request'[p].id] = request'[p].ref
  <2>1. /\ \/ p = r /\ request'[p] = x /\ x.pc # "done"
           \/ p \in Busy \ {r} /\ request'[p] = request[p]
        /\ \/ q = r /\ request'[q] = x /\ x.pc # "done"
           \/ q \in Busy \ {r} /\ request'[q] = request[q]
    BY <1>4, <1>5
  <2>2. \A o \in Busy, t \in Busy : request[o].id = request[t].id => request[o].ref = request[t].ref
    BY <1>5 DEF NoLostUpdate
  <2>. QED
    BY <1>5, <2>1, <2>2
<1>. QED
  BY <1>2, <1>5 DEF NoLostUpdate

\* Where nothing is on its way, one request at a time.
LEMMA LocalCalm ==
    ASSUME SessionsTypeOK, IdsKnown', NEW r \in Requests, NEW x \in Req,
           request' = [request EXCEPT ![r] = x], x.pc \in {"open", "done"},
           driver' = driver, driver # "redis", Busy \subseteq {r}, gone' \cap exists' = {},
           x.pc = "open" =>
              /\ x.id \notin gone'
              /\ ~ x.isDirty /\ driver # "plain" =>
                    /\ x.moved => x.id \notin exists'
                    /\ ~ x.moved => Stored(x.id)' = object'[x.ref],
           x.pc = "done" => cookie' \notin gone' /\ (~ lost' => Stored(cookie)' = final')
    PROVE  Calm'
<1>1. /\ request'[r] = x
      /\ x.pc = "done" => Busy' = Busy \ {r}
      /\ x.pc # "done" => Busy' = Busy \cup {r}
  BY RequestMoves
<1>2. /\ \A s \in WebServers : wire'[s] = <<>> /\ DOMAIN wire'[s] = {}
      /\ \A id, data : WillHold(id, data)' <=> Stored(id)' = data
      /\ \A id : WillBeGone(id)' <=> id \notin exists'
  BY LocalFactsNext
<1>3. /\ x.pc = "open" => Busy' = {r}
      /\ x.pc = "done" => Busy' = {}
  BY <1>1
<1>4. OneByOne'
  <2>1. \A q \in Busy', p \in Busy' : q = p
    BY <1>3
  <2>. QED
    BY <1>2, <2>1 DEF OneByOne
<1>5. RequestStored'
  <2>1. ASSUME NEW q \in Busy'
        PROVE  q = r /\ request'[q] = x /\ x.pc = "open"
    BY <1>1, <1>3, <2>1
  <2>2. ASSUME x.pc = "open", ~ x.isDirty, driver # "plain", ~ x.moved
        PROVE  WillHold(x.id, object[x.ref])'
    <3>1. PICK data : data = object'[x.ref]
      OBVIOUS
    <3>2. WillHold(x.id, data)'
      BY <1>2, <2>2, <3>1
    <3>. QED
      BY <3>1, <3>2 DEF WillHold
  <2>3. WillHold(x.id, object[x.ref])' => (WillHold(request[r].id, DataOf(r)))'
    BY <1>1 DEF WillHold, DataOf, Decides, Pending, Stored
  <2>. QED
    BY <1>1, <2>1, <2>2, <2>3 DEF RequestStored, Open, RequestPc
<1>6. LastAwaited'
  BY <1>2 DEF LastAwaited
<1>7. Busy' = {} => cookie' \notin gone' /\ (~ lost' => WillHold(cookie, final)')
  <2>1. ASSUME Busy' = {}, ~ lost'
        PROVE  WillHold(cookie, final)'
    <3>1. PICK id, data : id = cookie' /\ data = final'
      OBVIOUS
    <3>2. Stored(id)' = data
      BY <1>3, <2>1, <3>1 DEF Stored
    <3>3. WillHold(id, data)'
      BY <1>2, <3>2
    <3>. QED
      BY <3>1, <3>3 DEF WillHold, Decides, Pending, Stored
  <2>. QED
    BY <1>3, <2>1
<1>8. \A id \in gone' : WillBeGone(id)'
  BY <1>2
<1>. QED
  BY <1>4, <1>5, <1>6, <1>7, <1>8 DEF Calm

\* Where nothing is on its way, types.
LEMMA LocalTypes ==
    ASSUME SessionsTypeOK, driver # "redis", driver' = driver, wire' = wire,
           unexpiring' = unexpiring, rejections' = rejections, unexpiring = {},
           request' \in [Requests -> Req], generated' \in 0 .. MaxIds,
           cookie' \in 0 .. MaxIds, exists' \subseteq Ids, gone' \subseteq Ids,
           kept' \in [Ids -> Objects], written' \in [Ids -> SUBSET Keys],
           object' \in [Objects -> SUBSET Keys], final' \subseteq Keys,
           lost' \in BOOLEAN, disturbed' \in BOOLEAN
    PROVE  SessionsTypeOK'
<1>1. {lost', disturbed'} \subseteq BOOLEAN
  OBVIOUS
<1>2. driver \in Drivers /\ unexpiring' \subseteq exists' /\ rejections \in 0 .. MaxRejections
      /\ wire \in [WebServers -> Seq(WireCommand)]
  BY DEF SessionsTypeOK
<1>. QED
  BY <1>1, <1>2 DEF SessionsTypeOK

\* The bounds and the ids so far.
LEMMA IdFacts ==
    ASSUME SessionsAssumption, SessionsTypeOK, IdsKnown
    PROVE  /\ generated \in Nat /\ MaxIds \in Nat /\ generated <= MaxIds
           /\ NewId = generated + 1 /\ NewId \notin exists /\ NewId \notin gone /\ NewId # cookie
           /\ exists \subseteq 1 .. generated /\ gone \subseteq 1 .. generated
           /\ cookie \in 0 .. generated
           /\ \A r \in Busy : request[r].id \in 1 .. generated /\ request[r].id # NewId
           /\ CanGenerate => NewId \in 1 .. MaxIds /\ NewId \in Ids /\ NewId \in 0 .. MaxIds
           /\ Ids = 1 .. MaxIds
<1>1. generated \in Nat /\ MaxIds \in Nat /\ generated <= MaxIds /\ Ids = 1 .. MaxIds
  BY DEF SessionsAssumption, SessionsTypeOK, Ids
<1>2. exists \cup gone \cup {cookie} \subseteq 0 .. generated
  BY DEF IdsKnown
<1>3. exists \subseteq 1 .. MaxIds /\ gone \subseteq 1 .. MaxIds
  BY <1>1 DEF SessionsTypeOK
<1>4. exists \subseteq 1 .. generated /\ gone \subseteq 1 .. generated /\ cookie \in 0 .. generated
  BY <1>1, <1>2, <1>3
<1>5. \A r \in Busy : request[r].id \in 1 .. generated
  BY DEF IdsKnown
<1>6. NewId = generated + 1
  BY DEF NewId
<1>. QED
  BY <1>1, <1>4, <1>5, <1>6 DEF CanGenerate

\* What is calm is of requests one by one, whose ids are not given up.
LEMMA LocalCalmFacts ==
    ASSUME SessionsInv, driver # "redis", ~ disturbed
    PROVE  /\ \A q \in Busy, p \in Busy : q = p
           /\ gone \cap exists = {}
           /\ Busy = {} => cookie \notin gone /\ (~ lost => Stored(cookie) = final)
           /\ \A r \in Busy :
                 /\ request[r].id \notin gone
                 /\ Open(r) /\ ~ request[r].isDirty /\ driver # "plain" =>
                       /\ request[r].moved => request[r].id \notin exists
                       /\ ~ request[r].moved => Stored(request[r].id) = DataOf(r)
<1>1. IdsKnown /\ Calm
  BY DEF SessionsInv
<1>2. /\ \A id, data : WillHold(id, data) <=> Stored(id) = data
      /\ \A id : WillBeGone(id) <=> id \notin exists
  BY <1>1, LocalFacts
<1>. QED
  BY <1>1, <1>2 DEF Calm, OneByOne, RequestStored

\* The constructors, but for RedisSession's.
LEMMA CreateLocal ==
    ASSUME SessionsAssumption, SessionsInv, driver # "redis", NEW r \in Requests,
           NEW s \in WebServers, createSession(r, s)
    PROVE  SessionsInv'
<1>1. SessionsTypeOK /\ IdsKnown /\ NoLostUpdate
  BY DEF SessionsInv
<1>2. /\ RequestPc(r) = "idle" /\ UNCHANGED <<driver, cookie, exists, kept, written, unexpiring>>
      /\ UNCHANGED <<rejections, gone, final, lost>>
      /\ disturbed' = (disturbed \/ Overlaps(s))
      /\ SharesObjects => ConstructShared(r, s)
      /\ ~ SharesObjects => ConstructFile(r, s)
  <2>1. driver \in {"plain", "memory", "file", "redis"}
    BY <1>1 DEF SessionsTypeOK, SessionsAssumption
  <2>2. SharesObjects \/ driver = "file"
    BY <2>1 DEF SharesObjects
  <2>. QED
    BY <2>2 DEF createSession, storage, SharesObjects
<1>3. /\ generated \in Nat /\ MaxIds \in Nat /\ generated <= MaxIds
      /\ NewId = generated + 1 /\ NewId \notin exists /\ NewId \notin gone /\ NewId # cookie
      /\ exists \subseteq 1 .. generated /\ gone \subseteq 1 .. generated
      /\ cookie \in 0 .. generated /\ \A q \in Busy : request[q].id # NewId
      /\ CanGenerate => NewId \in 1 .. MaxIds
  BY <1>1, IdFacts
<1>4. <<r, "first">> \in Objects /\ <<r, "first">>[1] = r /\ object[<<r, "first">>] = {}
  BY <1>1, <1>2 DEF Objects, IdsKnown
<1>5. PICK id, ref :
         /\ request' = Begun(r, s, "open", id, ref) /\ wire' = wire
         /\ \/ /\ id = cookie /\ id \in exists /\ generated' = generated
               /\ SharesObjects => ref = kept[cookie] /\ object' = object
               /\ ~ SharesObjects => ref = <<r, "first">>
                     /\ object' = [object EXCEPT ![<<r, "first">>] = written[cookie]]
            \/ /\ id = NewId /\ CanGenerate /\ ref = <<r, "first">> /\ object' = object
               /\ generated' = NewId
  <2>1. CASE SharesObjects /\ cookie \in exists
    <3>1. request' = Begun(r, s, "open", cookie, kept[cookie]) /\ UNCHANGED <<object, generated, wire>>
      BY <1>2, <2>1 DEF ConstructShared
    <3>. QED
      BY <2>1, <3>1
  <2>2. CASE SharesObjects /\ cookie \notin exists
    <3>1. /\ CanGenerate /\ request' = Begun(r, s, "open", NewId, <<r, "first">>)
          /\ generated' = NewId /\ UNCHANGED <<object, wire>>
      BY <1>2, <2>2 DEF ConstructShared
    <3>. QED
      BY <3>1
  <2>3. CASE ~ SharesObjects /\ cookie \in exists
    <3>1. /\ request' = Begun(r, s, "open", cookie, <<r, "first">>)
          /\ object' = [object EXCEPT ![<<r, "first">>] = written[cookie]]
          /\ UNCHANGED <<generated, wire>>
      BY <1>2, <2>3 DEF ConstructFile
    <3>. QED
      BY <2>3, <3>1
  <2>4. CASE ~ SharesObjects /\ cookie \notin exists
    <3>1. /\ CanGenerate /\ request' = Begun(r, s, "open", NewId, <<r, "first">>)
          /\ generated' = NewId /\ UNCHANGED <<object, wire>>
      BY <1>2, <2>4 DEF ConstructFile
    <3>. QED
      BY <3>1
  <2>. QED
    BY <2>1, <2>2, <2>3, <2>4
<1>6. PICK x : x = [pc |-> "open", server |-> s, id |-> id, ref |-> ref, found |-> FALSE,
                    isDirty |-> FALSE, moved |-> FALSE]
  OBVIOUS
<1>7. /\ x.pc = "open" /\ x.id = id /\ x.ref = ref /\ ~ x.isDirty /\ ~ x.moved
      /\ request' = [request EXCEPT ![r] = x]
  BY <1>5, <1>6 DEF Begun
<1>8. /\ id \in 1 .. generated' /\ generated' \in 0 .. MaxIds /\ generated <= generated'
      /\ id \notin {0} /\ ref \in Objects /\ id \in 0 .. MaxIds
      /\ ref[1] = r \/ RequestPc(ref[1]) # "idle"
      /\ ~ SharesObjects => ref[1] = r
      /\ object' \in [Objects -> SUBSET Keys]
      /\ \A q \in Requests \ {r} : object'[<<q, "first">>] = object[<<q, "first">>]
  <2>1. object \in [Objects -> SUBSET Keys] /\ kept \in [Ids -> Objects]
        /\ written \in [Ids -> SUBSET Keys] /\ exists \subseteq Ids
    BY <1>1 DEF SessionsTypeOK
  <2>2. \A q \in Requests \ {r} : <<q, "first">> # <<r, "first">> /\ <<q, "first">> \in Objects
    BY DEF Objects
  <2>3. CASE id = NewId /\ CanGenerate /\ ref = <<r, "first">> /\ object' = object
             /\ generated' = NewId
    BY <1>3, <1>4, <2>1, <2>3
  <2>4. CASE /\ id = cookie /\ id \in exists /\ generated' = generated
             /\ SharesObjects => ref = kept[cookie] /\ object' = object
             /\ ~ SharesObjects => ref = <<r, "first">>
                   /\ object' = [object EXCEPT ![<<r, "first">>] = written[cookie]]
    <3>1. id \in 1 .. generated' /\ generated' \in 0 .. MaxIds /\ generated <= generated'
          /\ id \notin {0} /\ id \in 0 .. MaxIds
      BY <1>3, <2>4
    <3>2. CASE SharesObjects
      <4>1. RequestPc(kept[cookie][1]) # "idle"
        BY <1>1, <2>4, <3>2 DEF IdsKnown
      <4>. QED
        BY <2>1, <2>4, <3>1, <3>2, <4>1
    <3>3. CASE ~ SharesObjects
      BY <1>4, <2>1, <2>2, <2>4, <3>1, <3>3
    <3>. QED
      BY <3>2, <3>3
  <2>. QED
    BY <1>5, <2>3, <2>4
<1>9. x \in Req
  BY <1>6, <1>8 DEF Req
<1>10. SessionsTypeOK' /\ IdsKnown' /\ CommandsAwaited'
  <2>1. request' \in [Requests -> Req]
    BY <1>1, <1>7, <1>9, RequestMoves
  <2>2. unexpiring = {}
    BY <1>1 DEF IdsKnown
  <2>3. SessionsTypeOK'
    <3>1. disturbed' \in BOOLEAN
      BY <1>2
    <3>2. /\ exists' \subseteq Ids /\ gone' \subseteq Ids /\ kept' \in [Ids -> Objects]
          /\ written' \in [Ids -> SUBSET Keys] /\ final' \subseteq Keys /\ lost' \in BOOLEAN
          /\ cookie' \in 0 .. MaxIds
      BY <1>1, <1>2 DEF SessionsTypeOK
    <3>. QED
      BY <1>1, <1>2, <1>5, <1>8, <2>1, <2>2, <3>1, <3>2, LocalTypes
  <2>4. IdsKnown'
    <3>1. exists' \cup gone' \cup {cookie'} \subseteq 0 .. generated' /\ generated' \in Nat
      BY <1>2, <1>3, <1>8
    <3>2. ASSUME SharesObjects, NEW k \in exists'
          PROVE  /\ k \in exists /\ kept'[k] = kept[k] /\ kept'[k][1] \in Requests
      BY <1>1, <1>2, <3>2 DEF SessionsTypeOK, Objects
    <3>. QED
      BY <1>1, <1>2, <1>3, <1>5, <1>7, <1>8, <1>9, <2>2, <3>1, <3>2, IdsKept
  <2>5. CommandsAwaited'
    BY <1>2, <2>4, LocalFactsNext
  <2>. QED
    BY <2>3, <2>4, <2>5
<1>11. NoLostUpdate'
  <2>1. SharesObjects => \A q \in Busy : request[q].id \in exists =>
                            kept[request[q].id] = request[q].ref
    BY <1>1 DEF NoLostUpdate
  <2>2. ASSUME SharesObjects
        PROVE  /\ \A q \in Busy \ {r} : request[q].id = x.id => request[q].ref = x.ref
               /\ x.id \in exists' => kept'[x.id] = x.ref
               /\ \A q \in Busy \ {r} : request[q].id \in exists' =>
                     kept'[request[q].id] = request[q].ref
    BY <1>2, <1>3, <1>5, <1>7, <2>1, <2>2
  <2>. QED
    BY <1>1, <1>2, <1>7, <1>9, <2>2, SharedKept
<1>12. ASSUME ~ disturbed'
       PROVE  Calm'
  <2>1. ~ disturbed /\ Busy = {}
    BY <1>2, <1>12 DEF Overlaps
  <2>2. gone \cap exists = {} /\ cookie \notin gone
    BY <2>1, LocalCalmFacts
  <2>3. Stored(id)' = object'[ref] /\ id \notin gone
    <3>1. SharesObjects' <=> SharesObjects
      BY <1>2 DEF SharesObjects
    <3>2. CASE id = NewId /\ ref = <<r, "first">> /\ object' = object
      BY <1>2, <1>3, <1>4, <3>2 DEF Stored
    <3>3. CASE /\ id = cookie /\ id \in exists
               /\ SharesObjects => ref = kept[cookie] /\ object' = object
               /\ ~ SharesObjects => ref = <<r, "first">>
                     /\ object' = [object EXCEPT ![<<r, "first">>] = written[cookie]]
      <4>1. object'[ref] = IF SharesObjects THEN object'[kept[id]] ELSE written[id]
        BY <1>1, <1>4, <3>3 DEF SessionsTypeOK
      <4>. QED
        BY <1>2, <2>2, <3>1, <3>3, <4>1 DEF Stored
    <3>. QED
      BY <1>5, <3>2, <3>3
  <2>4. Stored(x.id)' = object'[x.ref]
    BY <1>7, <2>3 DEF Stored
  <2>. QED
    BY <1>1, <1>2, <1>7, <1>9, <1>10, <2>1, <2>2, <2>3, <2>4, LocalCalm
<1>. QED
  BY <1>10, <1>11, <1>12 DEF SessionsInv

\* What a call of an open session does where nothing is on its way: the request r
\* becomes x, ...
CallMoves(r, x) ==
    /\ request' = [request EXCEPT ![r] = x] /\ x.pc \in {"open", "done"}
    /\ driver' = driver /\ wire' = wire /\ unexpiring' = unexpiring
    /\ rejections' = rejections /\ disturbed' = disturbed

\* ... the rest keeps its type, ...
CallTypes ==
    /\ generated' \in 0 .. MaxIds /\ generated <= generated' /\ exists' \subseteq 1 .. generated'
    /\ gone' \subseteq 1 .. generated' /\ cookie' \in 0 .. generated'
    /\ kept' \in [Ids -> Objects] /\ written' \in [Ids -> SUBSET Keys]
    /\ object' \in [Objects -> SUBSET Keys] /\ final' \subseteq Keys /\ lost' \in BOOLEAN

\* ... others' data objects stay as they are, ...
CallOwns(r) ==
    /\ \A q \in Requests \ {r} : RequestPc(q) = "idle" =>
          object'[<<q, "first">>] = object[<<q, "first">>]
    /\ \A k \in exists' : \/ k \in exists /\ kept'[k] = kept[k]
                          \/ /\ SharesObjects => kept'[k] = request[r].ref
                             /\ k = request[r].id \/ k = NewId

\* ... it goes on with its id and its data or takes new ones, ...
CallGoesOn(r, x) ==
    x.pc = "open" =>
       /\ x.id \in 1 .. generated'
       /\ x.moved => driver \in {"memory", "file"}
       /\ x.ref = request[r].ref \/ x.ref = <<r, "second">>
       /\ x.id = NewId \/ (x.id = request[r].id /\ x.ref = request[r].ref)
       /\ SharesObjects /\ x.id \in exists' => kept'[x.id] = x.ref

\* ... and what it does not change any more is stored.
StoredBefore(r) ==
    /\ gone \cap exists = {} /\ request[r].id \notin gone
    /\ ~ request[r].isDirty /\ driver # "plain" =>
          /\ request[r].moved => request[r].id \notin exists
          /\ ~ request[r].moved => Stored(request[r].id) = DataOf(r)

StoredAfter(x) ==
    /\ gone' \cap exists' = {}
    /\ x.pc = "open" =>
          /\ x.id \notin gone'
          /\ ~ x.isDirty /\ driver # "plain" =>
                /\ x.moved => x.id \notin exists'
                /\ ~ x.moved => Stored(x.id)' = object'[x.ref]
    /\ x.pc = "done" => cookie' \notin gone' /\ (~ lost' => Stored(cookie)' = final')

\* A call of an open session.
LEMMA LocalCall ==
    ASSUME SessionsAssumption, SessionsInv, driver # "redis", NEW r \in Requests, Open(r),
           NEW x \in Req, CallMoves(r, x), CallTypes, CallOwns(r), CallGoesOn(r, x),
           ~ disturbed /\ StoredBefore(r) => StoredAfter(x)
    PROVE  SessionsInv'
<1>0. /\ request' = [request EXCEPT ![r] = x] /\ x.pc \in {"open", "done"} /\ x.pc # "idle"
      /\ driver' = driver /\ wire' = wire /\ unexpiring' = unexpiring
      /\ rejections' = rejections /\ disturbed' = disturbed
  BY DEF CallMoves
<1>1. SessionsTypeOK /\ IdsKnown /\ NoLostUpdate
  BY DEF SessionsInv
<1>2. /\ generated \in Nat /\ MaxIds \in Nat /\ Ids = 1 .. MaxIds
      /\ \A q \in Busy : request[q].id \in 1 .. generated /\ request[q].id # NewId
  BY <1>1, IdFacts
<1>3. /\ r \in Busy /\ request[r].ref[1] \in Requests /\ request[r].ref \in Objects
      /\ unexpiring = {}
      /\ RequestPc(request[r].ref[1]) # "idle" /\ <<r, "second">>[1] = r
      /\ ~ SharesObjects => request[r].ref[1] = r
  <2>1. /\ r \in Busy /\ request[r].ref[1] \in Requests /\ request[r].ref \in Objects
    BY <1>1, RequestOf DEF Open
  <2>. QED
    BY <1>1, <2>1 DEF IdsKnown
<1>4. /\ request' \in [Requests -> Req] /\ generated' \in Nat /\ cookie' \in 0 .. MaxIds
      /\ exists' \subseteq Ids /\ gone' \subseteq Ids
      /\ exists' \cup gone' \cup {cookie'} \subseteq 0 .. generated'
  <2>1. request' \in [Requests -> Req]
    BY <1>0, <1>1, RequestMoves
  <2>2. /\ generated' \in 0 .. MaxIds /\ exists' \subseteq 1 .. generated'
        /\ gone' \subseteq 1 .. generated' /\ cookie' \in 0 .. generated'
    BY DEF CallTypes
  <2>3. /\ generated' \in Nat /\ cookie' \in 0 .. MaxIds
      /\ exists' \subseteq Ids /\ gone' \subseteq Ids
    BY <1>2, <2>2
  <2>. QED
    BY <2>1, <2>2, <2>3
<1>5. SessionsTypeOK'
  <2>1. disturbed' \in BOOLEAN
    BY <1>0, <1>1 DEF SessionsTypeOK
  <2>. QED
    BY <1>0, <1>1, <1>3, <1>4, <2>1, LocalTypes DEF CallTypes
<1>6. IdsKnown'
  <2>1. ASSUME SharesObjects, NEW k \in exists'
        PROVE  /\ \/ k \in exists /\ kept'[k] = kept[k]
                  \/ r \in Busy /\ kept'[k] = request[r].ref
               /\ kept'[k][1] \in Requests
    BY <1>3, <1>4, <2>1 DEF Objects, CallOwns, CallTypes
  <2>2. x.pc # "done" =>
           /\ x.id \in 1 .. generated'
           /\ x.moved => driver \in {"memory", "file"}
           /\ ~ SharesObjects => x.ref[1] = r
           /\ x.ref[1] = r \/ RequestPc(x.ref[1]) # "idle"
           /\ driver # "redis" => x.pc = "open"
    BY <1>0, <1>3 DEF CallGoesOn
  <2>3. /\ generated <= generated' /\ unexpiring' = {}
        /\ \A q \in Requests \ {r} : RequestPc(q) = "idle" =>
              object'[<<q, "first">>] = object[<<q, "first">>]
    BY <1>0, <1>3 DEF CallTypes, CallOwns
  <2>. QED
    BY <1>0, <1>1, <1>2, <1>4, <2>1, <2>2, <2>3, IdsKept
<1>7. CommandsAwaited'
  BY <1>0, <1>6, LocalFactsNext
<1>8. NoLostUpdate'
  <2>1. ASSUME SharesObjects
        PROVE  \A p \in Busy, q \in Busy : request[p].id = request[q].id =>
                  /\ request[p].ref = request[q].ref
                  /\ request[p].id \in exists => kept[request[p].id] = request[p].ref
    BY <1>1, <2>1 DEF NoLostUpdate
  <2>2. ASSUME SharesObjects
        PROVE  /\ x.pc # "done" =>
                    /\ \A q \in Busy \ {r} : request[q].id = x.id => request[q].ref = x.ref
                    /\ x.id \in exists' => kept'[x.id] = x.ref
               /\ \A q \in Busy \ {r} : request[q].id \in exists' =>
                     kept'[request[q].id] = request[q].ref
    <3>1. x.pc # "done" => \A q \in Busy \ {r} : request[q].id = x.id => request[q].ref = x.ref
      BY <1>0, <1>2, <1>3, <2>1, <2>2 DEF CallGoesOn
    <3>2. ASSUME NEW q \in Busy \ {r}, request[q].id \in exists'
          PROVE  kept'[request[q].id] = request[q].ref
      <4>1. PICK k \in exists' : k = request[q].id /\ k # NewId
        BY <1>2, <3>2
      <4>2. \/ k \in exists /\ kept'[k] = kept[k]
            \/ kept'[k] = request[r].ref /\ k = request[r].id
        BY <2>2, <4>1 DEF CallOwns
      <4>. QED
        BY <1>3, <2>1, <2>2, <4>1, <4>2
    <3>. QED
      BY <1>0, <2>2, <3>1, <3>2 DEF CallGoesOn
  <2>. QED
    BY <1>0, <1>1, <2>2, SharedKept
<1>9. ASSUME ~ disturbed'
      PROVE  Calm'
  <2>1. ~ disturbed
    BY <1>0, <1>9
  <2>2. /\ \A q \in Busy, p \in Busy : q = p
        /\ gone \cap exists = {} /\ request[r].id \notin gone
        /\ ~ request[r].isDirty /\ driver # "plain" =>
              /\ request[r].moved => request[r].id \notin exists
              /\ ~ request[r].moved => Stored(request[r].id) = DataOf(r)
    BY <1>3, <2>1, LocalCalmFacts
  <2>3. Busy \subseteq {r}
    BY <1>3, <2>2
  <2>4. StoredAfter(x)
    BY <2>1, <2>2 DEF StoredBefore
  <2>. QED
    BY <1>0, <1>1, <1>6, <2>3, <2>4, LocalCalm DEF StoredAfter
<1>. QED
  BY <1>5, <1>6, <1>7, <1>8, <1>9 DEF SessionsInv

\* What an open session is.
LEMMA OpenFacts ==
    ASSUME SessionsAssumption, SessionsInv, NEW r \in Requests, Open(r)
    PROVE  /\ r \in Busy /\ request[r] \in Req /\ request[r].ref \in Objects
           /\ request[r].id \in 1 .. generated /\ request[r].id \in Ids
           /\ request[r].id # NewId /\ request[r].pc = "open"
           /\ request \in [Requests -> Req] /\ object \in [Objects -> SUBSET Keys]
           /\ kept \in [Ids -> Objects] /\ written \in [Ids -> SUBSET Keys]
           /\ DataOf(r) = object[request[r].ref] /\ DataOf(r) \subseteq Keys
           /\ RequestPc(request[r].ref[1]) # "idle"
           /\ \A q \in Requests : RequestPc(q) = "idle" =>
                 <<q, "first">> # request[r].ref /\ <<q, "first">> \in Objects
           /\ request[r].moved => driver \in {"memory", "file"}
           /\ generated \in 0 .. MaxIds /\ exists \subseteq 1 .. generated
           /\ gone \subseteq 1 .. generated /\ cookie \in 0 .. generated
           /\ final \subseteq Keys /\ lost \in BOOLEAN /\ disturbed \in BOOLEAN
           /\ SharesObjects /\ request[r].id \in exists =>
                 kept[request[r].id] = request[r].ref
<1>1. SessionsTypeOK /\ IdsKnown /\ NoLostUpdate
  BY DEF SessionsInv
<1>2. /\ r \in Busy /\ request[r] \in Req /\ request[r].ref \in Objects /\ request[r].pc = "open"
      /\ request \in [Requests -> Req] /\ DataOf(r) \subseteq Keys
  BY <1>1, RequestOf DEF Open
<1>3. /\ request[r].id \in 1 .. generated /\ request[r].id # NewId /\ generated \in Nat
      /\ MaxIds \in Nat /\ generated <= MaxIds /\ Ids = 1 .. MaxIds
      /\ exists \subseteq 1 .. generated
      /\ gone \subseteq 1 .. generated /\ cookie \in 0 .. generated
  BY <1>1, <1>2, IdFacts
<1>4. /\ RequestPc(request[r].ref[1]) # "idle"
      /\ request[r].moved => driver \in {"memory", "file"}
  BY <1>1, <1>2 DEF IdsKnown
<1>5. \A q \in Requests : RequestPc(q) = "idle" =>
         <<q, "first">> # request[r].ref /\ <<q, "first">> \in Objects
  BY <1>4 DEF Objects
<1>6. SharesObjects /\ request[r].id \in exists => kept[request[r].id] = request[r].ref
  BY <1>1, <1>2 DEF NoLostUpdate
<1>. QED
  BY <1>1, <1>2, <1>3, <1>4, <1>5, <1>6 DEF SessionsTypeOK, DataOf


\* What a save() that reaches the store does where nothing is sent.
LEMMA SavedLocally ==
    ASSUME SessionsAssumption, SessionsTypeOK, driver # "redis", NEW r \in Requests,
           NEW id \in Ids, NEW dirty \in BOOLEAN, SaveAs(r, id, dirty),
           request[r].ref \in Objects, DataOf(r) \subseteq Keys
    PROVE  /\ wire' = wire /\ unexpiring' = unexpiring
           /\ kept' \in [Ids -> Objects] /\ written' \in [Ids -> SUBSET Keys]
           /\ \/ ~ dirty /\ driver # "plain" /\ exists' = exists /\ kept' = kept /\ written' = written
              \/ /\ exists' = exists \cup {id}
                 /\ \A k \in Ids \ {id} : kept'[k] = kept[k]
                 /\ SharesObjects => kept'[id] = request[r].ref
                 /\ ~ SharesObjects => written'[id] = DataOf(r)
<1>1. kept \in [Ids -> Objects] /\ written \in [Ids -> SUBSET Keys] /\ driver \in {"plain", "memory", "file"}
  BY DEF SessionsTypeOK, SessionsAssumption
<1>2. CASE driver \in {"plain", "memory"} /\ SavePlain(r, id)
  <2>1. SharesObjects
    BY <1>2 DEF SharesObjects
  <2>. QED
    BY <1>1, <1>2, <2>1 DEF SavePlain
<1>3. CASE driver = "memory" /\ ~ dirty /\ UNCHANGED <<storage, wire>>
  BY <1>1, <1>3 DEF storage
<1>4. CASE driver = "file"
  <2>1. ~ SharesObjects
    BY <1>4 DEF SharesObjects
  <2>2. SaveFile(r, id, dirty)
    BY <1>4 DEF SaveAs
  <2>3. CASE dirty
    BY <1>1, <1>4, <2>1, <2>2, <2>3 DEF SaveFile
  <2>4. CASE ~ dirty
    BY <1>1, <1>4, <2>2, <2>4 DEF SaveFile, storage
  <2>. QED
    BY <2>3, <2>4
<1>5. driver = "plain" => SavePlain(r, id)
  BY DEF SaveAs
<1>6. driver = "memory" => SaveMemory(r, id, dirty)
  BY DEF SaveAs
<1>7. driver = "memory" => SavePlain(r, id) \/ (~ dirty /\ UNCHANGED <<storage, wire>>)
  BY <1>6 DEF SaveMemory
<1>. QED
  BY <1>1, <1>2, <1>3, <1>4, <1>5, <1>7

\* set(), remove() and getFlash().
LEMMA LocalChanged ==
    ASSUME SessionsAssumption, SessionsInv, driver # "redis", NEW r \in Requests, Open(r),
           NEW data \in SUBSET Keys, Changed(r, data)
    PROVE  SessionsInv'
<1>1. /\ object' = [object EXCEPT ![request[r].ref] = data]
      /\ driver' = driver /\ generated' = generated /\ rejections' = rejections
      /\ cookie' = cookie /\ gone' = gone /\ final' = final /\ lost' = lost
      /\ disturbed' = disturbed
  BY DEF Changed, unchangedByCalls, sessionHistory
<1>2. /\ r \in Busy /\ request[r] \in Req /\ request[r].ref \in Objects
      /\ request[r].id \in 1 .. generated /\ request[r].id \in Ids
      /\ request[r].pc = "open" /\ request \in [Requests -> Req]
      /\ object \in [Objects -> SUBSET Keys]
      /\ kept \in [Ids -> Objects] /\ written \in [Ids -> SUBSET Keys]
      /\ \A q \in Requests : RequestPc(q) = "idle" =>
            <<q, "first">> # request[r].ref /\ <<q, "first">> \in Objects
      /\ request[r].moved => driver \in {"memory", "file"}
      /\ generated \in 0 .. MaxIds /\ exists \subseteq 1 .. generated
      /\ gone \subseteq 1 .. generated /\ cookie \in 0 .. generated
      /\ final \subseteq Keys /\ lost \in BOOLEAN
      /\ SharesObjects /\ request[r].id \in exists => kept[request[r].id] = request[r].ref
  BY OpenFacts
<1>3. PICK x \in Req :
         /\ request' = [request EXCEPT ![r] = x] /\ x.pc = "open" /\ x.id = request[r].id
         /\ x.ref = request[r].ref /\ x.moved = request[r].moved /\ wire' = wire
         /\ unexpiring' = unexpiring
         /\ kept' \in [Ids -> Objects] /\ written' \in [Ids -> SUBSET Keys]
         /\ \/ driver = "plain" /\ exists' = exists \cup {request[r].id}
               /\ kept' = [kept EXCEPT ![request[r].id] = request[r].ref]
            \/ x.isDirty /\ driver # "plain" /\ exists' = exists /\ kept' = kept
  <2>1. CASE driver = "plain"
    <3>1. request' = [request EXCEPT ![r] = request[r]] /\ SavePlain(r, request[r].id)
      BY <1>2, <2>1 DEF Changed
    <3>. QED
      BY <1>2, <2>1, <3>1 DEF SavePlain
  <2>2. CASE driver # "plain"
    <3>1. request' = [request EXCEPT ![r].isDirty = TRUE] /\ UNCHANGED <<storage, wire>>
      BY <2>2 DEF Changed
    <3>2. PICK x : x = [request[r] EXCEPT !.isDirty = TRUE]
      OBVIOUS
    <3>3. /\ x \in Req /\ x.pc = "open" /\ x.id = request[r].id /\ x.ref = request[r].ref
          /\ x.moved = request[r].moved /\ x.isDirty
          /\ request' = [request EXCEPT ![r] = x]
      BY <1>2, <3>1, <3>2 DEF Req
    <3>. QED
      BY <1>2, <2>2, <3>1, <3>3 DEF storage
  <2>. QED
    BY <2>1, <2>2
<1>4. CallMoves(r, x)
  BY <1>1, <1>3 DEF CallMoves
<1>5. CallTypes
  <2>1. exists' \subseteq 1 .. generated'
    BY <1>1, <1>2, <1>3
  <2>2. generated <= generated' /\ object' \in [Objects -> SUBSET Keys]
    BY <1>1, <1>2
  <2>. QED
    BY <1>1, <1>2, <1>3, <2>1, <2>2 DEF CallTypes
<1>6. CallOwns(r)
  <2>1. \A q \in Requests : RequestPc(q) = "idle" => object'[<<q, "first">>] = object[<<q, "first">>]
    BY <1>1, <1>2
  <2>2. ASSUME NEW k \in exists'
        PROVE  \/ k \in exists /\ kept'[k] = kept[k]
               \/ kept'[k] = request[r].ref /\ k = request[r].id
    BY <1>2, <1>3, <2>2 DEF Ids, SessionsInv, SessionsTypeOK
  <2>. QED
    BY <2>1, <2>2 DEF CallOwns
<1>7. CallGoesOn(r, x)
  <2>1. SharesObjects /\ x.id \in exists' => kept'[x.id] = x.ref
    BY <1>2, <1>3
  <2>. QED
    BY <1>1, <1>2, <1>3, <2>1 DEF CallGoesOn
<1>8. StoredBefore(r) => StoredAfter(x)
  BY <1>1, <1>3 DEF StoredBefore, StoredAfter
<1>. QED
  BY <1>4, <1>5, <1>6, <1>7, <1>8, LocalCall


\* The ids of the store, the given up ones and the cookie stay below the counter.
LEMMA CallTypesFrom ==
    ASSUME SessionsAssumption, NEW a, NEW b,
           generated \in 0 .. MaxIds, exists \subseteq 1 .. generated,
           gone \subseteq 1 .. generated, cookie \in 0 .. generated,
           generated' = generated \/ (generated' = generated + 1 /\ generated + 1 \in 1 .. MaxIds),
           a \in 1 .. generated', b \in 1 .. generated,
           exists' \subseteq exists \cup {a}, gone' \subseteq gone \cup {b}, cookie' \in {cookie, b},
           kept' \in [Ids -> Objects], written' \in [Ids -> SUBSET Keys],
           object' \in [Objects -> SUBSET Keys], final' \subseteq Keys, lost' \in BOOLEAN
    PROVE  CallTypes
<1>1. /\ generated \in Nat /\ generated' \in Nat /\ generated <= generated'
      /\ generated' \in 0 .. MaxIds
  BY DEF SessionsAssumption
<1>2. \A k \in 1 .. generated : k \in 1 .. generated' /\ k \in 0 .. generated'
  BY <1>1
<1>3. exists' \subseteq 1 .. generated' /\ gone' \subseteq 1 .. generated'
  BY <1>2
<1>4. cookie' \in 0 .. generated'
  BY <1>1, <1>2
<1>. QED
  BY <1>1, <1>3, <1>4 DEF CallTypes

\* save().
LEMMA LocalSave ==
    ASSUME SessionsAssumption, SessionsInv, driver # "redis", NEW r \in Requests, save(r)
    PROVE  SessionsInv'
<1>1. /\ Open(r) /\ SaveAs(r, request[r].id, TRUE)
      /\ request' = [request EXCEPT ![r].isDirty = FALSE, ![r].moved = FALSE]
      /\ object' = object /\ driver' = driver /\ generated' = generated
      /\ rejections' = rejections /\ cookie' = cookie /\ gone' = gone /\ final' = final
      /\ lost' = lost /\ disturbed' = disturbed
  BY DEF save, unchangedByCalls, sessionHistory
<1>2. /\ r \in Busy /\ request[r] \in Req /\ request[r].ref \in Objects
      /\ request[r].id \in 1 .. generated /\ request[r].id \in Ids /\ request[r].id # NewId
      /\ request[r].pc = "open" /\ request \in [Requests -> Req]
      /\ object \in [Objects -> SUBSET Keys]
      /\ kept \in [Ids -> Objects] /\ written \in [Ids -> SUBSET Keys]
      /\ DataOf(r) = object[request[r].ref] /\ DataOf(r) \subseteq Keys
      /\ \A q \in Requests : RequestPc(q) = "idle" =>
            <<q, "first">> # request[r].ref /\ <<q, "first">> \in Objects
      /\ request[r].moved => driver \in {"memory", "file"}
      /\ generated \in 0 .. MaxIds /\ exists \subseteq 1 .. generated
      /\ gone \subseteq 1 .. generated /\ cookie \in 0 .. generated
      /\ final \subseteq Keys /\ lost \in BOOLEAN
      /\ SharesObjects /\ request[r].id \in exists => kept[request[r].id] = request[r].ref
  BY <1>1, OpenFacts
<1>3. /\ wire' = wire /\ unexpiring' = unexpiring
      /\ kept' \in [Ids -> Objects] /\ written' \in [Ids -> SUBSET Keys]
      /\ exists' = exists \cup {request[r].id}
      /\ \A k \in Ids \ {request[r].id} : kept'[k] = kept[k]
      /\ SharesObjects => kept'[request[r].id] = request[r].ref
      /\ ~ SharesObjects => written'[request[r].id] = DataOf(r)
  <2>1. PICK id \in Ids : id = request[r].id
    BY <1>2
  <2>2. PICK dirty \in BOOLEAN : dirty <=> TRUE
    OBVIOUS
  <2>3. SaveAs(r, id, dirty) /\ dirty
    BY <1>1, <2>1, <2>2 DEF SaveAs, SavePlain, SaveMemory, SaveFile, SaveRedis
  <2>4. SessionsTypeOK
    BY DEF SessionsInv
  <2>5. /\ wire' = wire /\ unexpiring' = unexpiring
        /\ kept' \in [Ids -> Objects] /\ written' \in [Ids -> SUBSET Keys]
        /\ \/ ~ dirty /\ driver # "plain" /\ exists' = exists /\ kept' = kept /\ written' = written
           \/ /\ exists' = exists \cup {id}
              /\ \A k \in Ids \ {id} : kept'[k] = kept[k]
              /\ SharesObjects => kept'[id] = request[r].ref
              /\ ~ SharesObjects => written'[id] = DataOf(r)
    BY <1>2, <2>3, <2>4, SavedLocally
  <2>. QED
    BY <2>1, <2>3, <2>5
<1>4. PICK x \in Req :
         /\ request' = [request EXCEPT ![r] = x] /\ x.pc = "open" /\ x.id = request[r].id
         /\ x.ref = request[r].ref /\ ~ x.moved
  <2>1. PICK x : x = [request[r] EXCEPT !.isDirty = FALSE, !.moved = FALSE]
    OBVIOUS
  <2>2. /\ x \in Req /\ x.pc = "open" /\ x.id = request[r].id /\ x.ref = request[r].ref
        /\ ~ x.moved /\ request' = [request EXCEPT ![r] = x]
    BY <1>1, <1>2, <2>1 DEF Req
  <2>. QED
    BY <2>2
<1>5. CallMoves(r, x)
  BY <1>1, <1>3, <1>4 DEF CallMoves
<1>6. CallTypes
  <2>1. /\ kept' \in [Ids -> Objects] /\ written' \in [Ids -> SUBSET Keys]
        /\ object' \in [Objects -> SUBSET Keys] /\ final' \subseteq Keys
    BY <1>1, <1>2, <1>3
  <2>2. lost' \in BOOLEAN
    BY <1>1, <1>2
  <2>3. PICK a, b : a = request[r].id /\ b = request[r].id
    OBVIOUS
  <2>4. /\ a \in 1 .. generated' /\ b \in 1 .. generated
        /\ generated' = generated \/ (generated' = generated + 1 /\ generated + 1 \in 1 .. MaxIds)
    BY <1>1, <1>2, <1>3, <2>3
  <2>5. /\ exists' \subseteq exists \cup {a} /\ gone' \subseteq gone \cup {b}
        /\ cookie' \in {cookie, b}
    BY <1>1, <1>2, <1>3, <2>3
  <2>. QED
    BY <1>2, <2>1, <2>2, <2>4, <2>5, CallTypesFrom
<1>7. CallOwns(r)
  <2>1. ASSUME NEW k \in exists'
        PROVE  \/ k \in exists /\ kept'[k] = kept[k]
               \/ /\ SharesObjects => kept'[k] = request[r].ref
                  /\ k = request[r].id
    BY <1>2, <1>3, <2>1 DEF SessionsInv, SessionsTypeOK
  <2>. QED
    BY <1>1, <2>1 DEF CallOwns
<1>8. CallGoesOn(r, x)
  BY <1>1, <1>2, <1>3, <1>4 DEF CallGoesOn
<1>9. StoredBefore(r) => StoredAfter(x)
  <2>1. Stored(x.id)' = object'[x.ref]
    <3>1. SharesObjects' <=> SharesObjects
      BY <1>1 DEF SharesObjects
    <3>. QED
      BY <1>1, <1>2, <1>3, <1>4, <3>1 DEF Stored
  <2>. QED
    BY <1>1, <1>3, <1>4, <2>1 DEF StoredBefore, StoredAfter
<1>. QED
  BY <1>1, <1>5, <1>6, <1>7, <1>8, <1>9, LocalCall

\* destroy().
LEMMA LocalDestroy ==
    ASSUME SessionsAssumption, SessionsInv, driver # "redis", NEW r \in Requests, destroy(r)
    PROVE  SessionsInv'
<1>1. /\ Open(r) /\ CanGenerate /\ exists' = exists \ {request[r].id}
      /\ kept' = kept /\ written' = written /\ unexpiring' = unexpiring /\ wire' = wire
      /\ object' = [object EXCEPT ![<<r, "second">>] = {}]
      /\ request' = [request EXCEPT ![r].ref = <<r, "second">>, ![r].id = NewId,
                        ![r].isDirty = FALSE, ![r].pc = "open", ![r].moved = FALSE,
                        ![r].found = FALSE]
      /\ generated' = NewId /\ gone' = gone \cup {request[r].id}
      /\ driver' = driver /\ rejections' = rejections /\ cookie' = cookie
      /\ final' = final /\ lost' = lost /\ disturbed' = disturbed
  BY DEF destroy, Deleted, Emptied, sessionHistory
<1>2. /\ r \in Busy /\ request[r] \in Req /\ request[r].ref \in Objects
      /\ request[r].id \in 1 .. generated /\ request[r].id \in Ids /\ request[r].id # NewId
      /\ request[r].pc = "open" /\ request \in [Requests -> Req]
      /\ object \in [Objects -> SUBSET Keys]
      /\ kept \in [Ids -> Objects] /\ written \in [Ids -> SUBSET Keys]
      /\ DataOf(r) = object[request[r].ref] /\ DataOf(r) \subseteq Keys
      /\ \A q \in Requests : RequestPc(q) = "idle" =>
            <<q, "first">> # request[r].ref /\ <<q, "first">> \in Objects
      /\ request[r].moved => driver \in {"memory", "file"}
      /\ generated \in 0 .. MaxIds /\ exists \subseteq 1 .. generated
      /\ gone \subseteq 1 .. generated /\ cookie \in 0 .. generated
      /\ final \subseteq Keys /\ lost \in BOOLEAN
      /\ SharesObjects /\ request[r].id \in exists => kept[request[r].id] = request[r].ref
  BY <1>1, OpenFacts
<1>3. /\ NewId = generated + 1 /\ MaxIds \in Nat /\ NewId \in 1 .. MaxIds
      /\ NewId \notin exists /\ NewId \notin gone /\ generated \in Nat
  BY <1>1, IdFacts DEF SessionsInv
<1>4. PICK x \in Req :
         /\ request' = [request EXCEPT ![r] = x] /\ x.pc = "open" /\ x.id = NewId
         /\ x.ref = <<r, "second">> /\ ~ x.moved
  <2>1. PICK x : x = [request[r] EXCEPT !.ref = <<r, "second">>, !.id = NewId,
                        !.isDirty = FALSE, !.pc = "open", !.moved = FALSE, !.found = FALSE]
    OBVIOUS
  <2>2. /\ x \in Req /\ x.pc = "open" /\ x.id = NewId /\ x.ref = <<r, "second">>
        /\ ~ x.moved /\ request' = [request EXCEPT ![r] = x]
    BY <1>1, <1>2, <1>3, <2>1 DEF Req, Objects
  <2>. QED
    BY <2>2
<1>5. CallMoves(r, x)
  BY <1>1, <1>4 DEF CallMoves
<1>6. CallTypes
  <2>1. /\ kept' \in [Ids -> Objects] /\ written' \in [Ids -> SUBSET Keys]
        /\ object' \in [Objects -> SUBSET Keys] /\ final' \subseteq Keys
    BY <1>1, <1>2
  <2>2. lost' \in BOOLEAN
    BY <1>1, <1>2
  <2>3. PICK a, b : a = NewId /\ b = request[r].id
    OBVIOUS
  <2>4. /\ a \in 1 .. generated' /\ b \in 1 .. generated
        /\ generated' = generated \/ (generated' = generated + 1 /\ generated + 1 \in 1 .. MaxIds)
    BY <1>1, <1>2, <1>3, <2>3
  <2>5. /\ exists' \subseteq exists \cup {a} /\ gone' \subseteq gone \cup {b}
        /\ cookie' \in {cookie, b}
    BY <1>1, <1>2, <2>3
  <2>. QED
    BY <1>2, <2>1, <2>2, <2>4, <2>5, CallTypesFrom
<1>7. CallOwns(r)
  BY <1>1, <1>2 DEF CallOwns
<1>8. CallGoesOn(r, x)
  BY <1>1, <1>3, <1>4 DEF CallGoesOn
<1>9. StoredBefore(r) => StoredAfter(x)
  <2>1. Stored(x.id)' = object'[x.ref]
    BY <1>1, <1>2, <1>3, <1>4 DEF Stored, Objects
  <2>2. x.id \notin gone'
    BY <1>1, <1>2, <1>3, <1>4
  <2>. QED
    BY <1>1, <1>4, <2>1, <2>2 DEF StoredBefore, StoredAfter
<1>. QED
  BY <1>1, <1>5, <1>6, <1>7, <1>8, <1>9, LocalCall

\* regenerateId().
LEMMA LocalRegenerate ==
    ASSUME SessionsAssumption, SessionsInv, driver # "redis", NEW r \in Requests, regenerateId(r)
    PROVE  SessionsInv'
<1>0. PICK dirty \in BOOLEAN : dirty <=> (MovesAlways \/ request[r].isDirty)
  OBVIOUS
<1>1. /\ Open(r) /\ CanGenerate
      /\ exists' = (exists \ {request[r].id}) \cup (IF dirty THEN {NewId} ELSE {})
      /\ kept' = IF SharesObjects /\ dirty THEN [kept EXCEPT ![NewId] = request[r].ref] ELSE kept
      /\ written' = IF driver = "file" /\ dirty THEN [written EXCEPT ![NewId] = DataOf(r)]
                    ELSE written
      /\ wire' = wire
      /\ request' = [request EXCEPT ![r].id = NewId, ![r].isDirty = FALSE, ![r].moved = ~ dirty]
      /\ generated' = NewId /\ gone' = gone \cup {request[r].id}
      /\ driver' = driver /\ rejections' = rejections /\ cookie' = cookie /\ object' = object
      /\ unexpiring' = unexpiring
      /\ final' = final /\ lost' = lost /\ disturbed' = disturbed
  BY <1>0 DEF regenerateId, sessionHistory
<1>2. /\ r \in Busy /\ request[r] \in Req /\ request[r].ref \in Objects
      /\ request[r].id \in 1 .. generated /\ request[r].id \in Ids /\ request[r].id # NewId
      /\ request[r].pc = "open" /\ request \in [Requests -> Req]
      /\ object \in [Objects -> SUBSET Keys]
      /\ kept \in [Ids -> Objects] /\ written \in [Ids -> SUBSET Keys]
      /\ DataOf(r) = object[request[r].ref] /\ DataOf(r) \subseteq Keys
      /\ \A q \in Requests : RequestPc(q) = "idle" =>
            <<q, "first">> # request[r].ref /\ <<q, "first">> \in Objects
      /\ request[r].moved => driver \in {"memory", "file"}
      /\ generated \in 0 .. MaxIds /\ exists \subseteq 1 .. generated
      /\ gone \subseteq 1 .. generated /\ cookie \in 0 .. generated
      /\ final \subseteq Keys /\ lost \in BOOLEAN
      /\ SharesObjects /\ request[r].id \in exists => kept[request[r].id] = request[r].ref
  BY <1>1, OpenFacts
<1>3. /\ NewId = generated + 1 /\ MaxIds \in Nat /\ NewId \in 1 .. MaxIds /\ NewId \in Ids
      /\ NewId \notin exists /\ NewId \notin gone /\ generated \in Nat
  BY <1>1, IdFacts DEF SessionsInv
<1>4. PICK x \in Req :
         /\ request' = [request EXCEPT ![r] = x] /\ x.pc = "open" /\ x.id = NewId
         /\ x.ref = request[r].ref /\ (x.moved <=> ~ dirty)
  <2>1. PICK x : x = [request[r] EXCEPT !.id = NewId, !.isDirty = FALSE, !.moved = ~ dirty]
    OBVIOUS
  <2>2. request' = [request EXCEPT ![r] = x]
    BY <1>1, <2>1
  <2>3. NewId \in 0 .. MaxIds /\ (~ dirty) \in BOOLEAN
    BY <1>3
  <2>4. x \in Req /\ x.pc = "open" /\ x.id = NewId /\ x.ref = request[r].ref
    BY <1>2, <2>1, <2>3 DEF Req
  <2>5. x.moved = ~ dirty
    BY <1>2, <2>1 DEF Req
  <2>. QED
    BY <2>2, <2>4, <2>5
<1>5. CallMoves(r, x)
  BY <1>1, <1>4 DEF CallMoves
<1>6. /\ driver \in {"plain", "memory", "file"} /\ (~ SharesObjects => driver = "file")
      /\ ~ dirty => driver \in {"memory", "file"}
  BY <1>0 DEF SessionsAssumption, SessionsInv, SessionsTypeOK, SharesObjects, MovesAlways
<1>7. /\ kept' \in [Ids -> Objects] /\ written' \in [Ids -> SUBSET Keys]
      /\ \A k \in Ids \ {NewId} : kept'[k] = kept[k]
      /\ dirty /\ SharesObjects => kept'[NewId] = request[r].ref
      /\ dirty /\ ~ SharesObjects => written'[NewId] = DataOf(r)
      /\ NewId \in exists' <=> dirty
  BY <1>1, <1>2, <1>3, <1>6
<1>8. CallTypes
  <2>1. /\ kept' \in [Ids -> Objects] /\ written' \in [Ids -> SUBSET Keys]
        /\ object' \in [Objects -> SUBSET Keys] /\ final' \subseteq Keys
    BY <1>1, <1>2, <1>7
  <2>2. lost' \in BOOLEAN
    BY <1>1, <1>2
  <2>3. PICK a, b : a = NewId /\ b = request[r].id
    OBVIOUS
  <2>4. /\ a \in 1 .. generated' /\ b \in 1 .. generated
        /\ generated' = generated \/ (generated' = generated + 1 /\ generated + 1 \in 1 .. MaxIds)
    BY <1>1, <1>2, <1>3, <2>3
  <2>5. /\ exists' \subseteq exists \cup {a} /\ gone' \subseteq gone \cup {b}
        /\ cookie' \in {cookie, b}
    BY <1>1, <1>2, <1>7, <2>3
  <2>. QED
    BY <1>2, <2>1, <2>2, <2>4, <2>5, CallTypesFrom
<1>9. CallOwns(r)
  <2>1. ASSUME NEW k \in exists'
        PROVE  \/ k \in exists /\ kept'[k] = kept[k]
               \/ /\ SharesObjects => kept'[k] = request[r].ref
                  /\ k = NewId
    BY <1>1, <1>7, <2>1 DEF SessionsInv, SessionsTypeOK
  <2>. QED
    BY <1>1, <2>1 DEF CallOwns
<1>10. CallGoesOn(r, x)
  BY <1>1, <1>3, <1>4, <1>6, <1>7 DEF CallGoesOn
<1>11. StoredBefore(r) => StoredAfter(x)
  <2>1. ~ x.moved => Stored(x.id)' = object'[x.ref]
    <3>1. SharesObjects' <=> SharesObjects
      BY <1>1 DEF SharesObjects
    <3>. QED
      BY <1>1, <1>2, <1>4, <1>7, <3>1 DEF Stored
  <2>2. /\ x.id \notin gone'
        /\ x.moved => x.id \notin exists'
    BY <1>1, <1>2, <1>3, <1>4, <1>7
  <2>3. gone \cap exists = {} => gone' \cap exists' = {}
    BY <1>1, <1>2, <1>3
  <2>. QED
    BY <1>1, <1>4, <2>1, <2>2, <2>3 DEF StoredBefore, StoredAfter
<1>. QED
  BY <1>1, <1>5, <1>8, <1>9, <1>10, <1>11, LocalCall

\* getCookieHeader().
LEMMA LocalAnswer ==
    ASSUME SessionsAssumption, SessionsInv, driver # "redis", NEW r \in Requests,
           getCookieHeader(r)
    PROVE  SessionsInv'
<1>1. /\ Open(r) /\ SaveAs(r, request[r].id, request[r].isDirty)
      /\ request' = [request EXCEPT ![r] = WithoutSession(r, "done")]
      /\ object' = IF SharesObjects THEN object
                   ELSE [o \in Objects |-> IF o[1] = r THEN {} ELSE object[o]]
      /\ cookie' = request[r].id /\ final' = DataOf(r)
      /\ lost' = (lost \/ (request[r].moved /\ ~ request[r].isDirty /\ DataOf(r) # {}))
      /\ driver' = driver /\ generated' = generated /\ rejections' = rejections
      /\ gone' = gone /\ disturbed' = disturbed
  BY DEF getCookieHeader, Answered
<1>2. /\ r \in Busy /\ request[r] \in Req /\ request[r].ref \in Objects
      /\ request[r].id \in 1 .. generated /\ request[r].id \in Ids /\ request[r].id # NewId
      /\ request[r].pc = "open" /\ request \in [Requests -> Req]
      /\ object \in [Objects -> SUBSET Keys]
      /\ kept \in [Ids -> Objects] /\ written \in [Ids -> SUBSET Keys]
      /\ DataOf(r) = object[request[r].ref] /\ DataOf(r) \subseteq Keys
      /\ \A q \in Requests : RequestPc(q) = "idle" =>
            <<q, "first">> # request[r].ref /\ <<q, "first">> \in Objects
      /\ request[r].moved => driver \in {"memory", "file"}
      /\ generated \in 0 .. MaxIds /\ exists \subseteq 1 .. generated
      /\ gone \subseteq 1 .. generated /\ cookie \in 0 .. generated
      /\ final \subseteq Keys /\ lost \in BOOLEAN
      /\ SharesObjects /\ request[r].id \in exists => kept[request[r].id] = request[r].ref
  BY <1>1, OpenFacts
<1>3. PICK id \in Ids : id = request[r].id
  BY <1>2
<1>4. PICK dirty \in BOOLEAN : dirty = request[r].isDirty
  BY <1>2 DEF Req
<1>5. /\ wire' = wire /\ unexpiring' = unexpiring
      /\ kept' \in [Ids -> Objects] /\ written' \in [Ids -> SUBSET Keys]
      /\ \/ ~ dirty /\ driver # "plain" /\ exists' = exists /\ kept' = kept /\ written' = written
         \/ /\ exists' = exists \cup {id}
            /\ \A k \in Ids \ {id} : kept'[k] = kept[k]
            /\ SharesObjects => kept'[id] = request[r].ref
            /\ ~ SharesObjects => written'[id] = DataOf(r)
  <2>1. SaveAs(r, id, dirty)
    BY <1>1, <1>3, <1>4
  <2>2. SessionsTypeOK
    BY DEF SessionsInv
  <2>. QED
    BY <1>2, <2>1, <2>2, SavedLocally
<1>6. PICK x \in Req : request' = [request EXCEPT ![r] = x] /\ x.pc = "done"
  <2>1. (CHOOSE s \in WebServers : TRUE) \in WebServers /\ 0 \in 0 .. MaxIds
    BY DEF SessionsAssumption
  <2>2. <<r, "first">> \in Objects
    BY DEF Objects
  <2>3. WithoutSession(r, "done") \in Req /\ WithoutSession(r, "done").pc = "done"
    BY <2>1, <2>2 DEF WithoutSession, Req
  <2>. QED
    BY <1>1, <2>3
<1>7. CallMoves(r, x)
  BY <1>1, <1>5, <1>6 DEF CallMoves
<1>8. /\ object' \in [Objects -> SUBSET Keys]
      /\ \A q \in Requests \ {r} : object'[<<q, "first">>] = object[<<q, "first">>]
  BY <1>1, <1>2 DEF Objects
<1>9. CallTypes
  <2>1. /\ kept' \in [Ids -> Objects] /\ written' \in [Ids -> SUBSET Keys]
        /\ object' \in [Objects -> SUBSET Keys] /\ final' \subseteq Keys
    BY <1>1, <1>2, <1>3, <1>5, <1>8
  <2>2. lost' \in BOOLEAN
    BY <1>1, <1>2
  <2>3. PICK a, b : a = request[r].id /\ b = request[r].id
    OBVIOUS
  <2>4. /\ a \in 1 .. generated' /\ b \in 1 .. generated
        /\ generated' = generated \/ (generated' = generated + 1 /\ generated + 1 \in 1 .. MaxIds)
    BY <1>1, <1>2, <1>3, <2>3
  <2>5. /\ exists' \subseteq exists \cup {a} /\ gone' \subseteq gone \cup {b}
        /\ cookie' \in {cookie, b}
    BY <1>1, <1>2, <1>3, <1>5, <1>8, <2>3
  <2>. QED
    BY <1>2, <2>1, <2>2, <2>4, <2>5, CallTypesFrom
<1>10. CallOwns(r)
  <2>1. ASSUME NEW k \in exists'
        PROVE  \/ k \in exists /\ kept'[k] = kept[k]
               \/ /\ SharesObjects => kept'[k] = request[r].ref
                  /\ k = request[r].id
    BY <1>2, <1>3, <1>5, <2>1 DEF SessionsInv, SessionsTypeOK
  <2>. QED
    BY <1>8, <2>1 DEF CallOwns
<1>11. CallGoesOn(r, x)
  BY <1>6 DEF CallGoesOn
<1>12. ASSUME StoredBefore(r)
       PROVE  StoredAfter(x)
  <2>1. gone \cap exists = {} /\ id \notin gone
    BY <1>3, <1>12 DEF StoredBefore
  <2>2. gone' \cap exists' = {}
    BY <1>1, <1>5, <2>1
  <2>3. SharesObjects' <=> SharesObjects
    BY <1>1 DEF SharesObjects
  <2>4. cookie' = id
    BY <1>1, <1>3
  <2>5. ASSUME ~ lost'
        PROVE  Stored(cookie)' = final'
    <3>1. CASE /\ exists' = exists \cup {id}
               /\ SharesObjects => kept'[id] = request[r].ref
               /\ ~ SharesObjects => written'[id] = DataOf(r)
      BY <1>1, <1>2, <2>3, <2>4, <3>1 DEF Stored
    <3>2. CASE ~ dirty /\ driver # "plain" /\ exists' = exists /\ kept' = kept /\ written' = written
      <4>1. CASE request[r].moved
        <5>1. id \notin exists /\ DataOf(r) = {}
          BY <1>1, <1>3, <1>4, <1>12, <2>5, <3>2, <4>1 DEF StoredBefore
        <5>. QED
          BY <1>1, <2>4, <3>2, <5>1 DEF Stored
      <4>2. CASE ~ request[r].moved
        <5>1. Stored(id) = DataOf(r)
          BY <1>3, <1>4, <1>12, <3>2, <4>2 DEF StoredBefore
        <5>2. SharesObjects => object' = object
          BY <1>1
        <5>. QED
          BY <1>1, <2>3, <2>4, <3>2, <5>1, <5>2 DEF Stored
      <4>. QED
        BY <4>1, <4>2
    <3>. QED
      BY <1>5, <3>1, <3>2
  <2>. QED
    BY <1>1, <1>6, <2>1, <2>2, <2>4, <2>5 DEF StoredAfter
<1>. QED
  BY <1>1, <1>7, <1>9, <1>10, <1>11, <1>12, LocalCall


-----------------------------------------------------------------------------
(* Redis: what moves on the wires.                                         *)

\* On the wire of s, of n commands, the first d are gone and m commands c follow.
Shifts(s, d, n, m, c) ==
    /\ s \in WebServers /\ n \in Nat /\ m \in Nat /\ d \in {0, 1} /\ d <= n
    /\ \A t \in WebServers \ {s} : wire'[t] = wire[t]
    /\ DOMAIN wire[s] = 1 .. n /\ DOMAIN wire'[s] = 1 .. n - d + m
    /\ \A j \in 1 .. n - d : wire'[s][j] = wire[s][j + d]
    /\ \A k \in 1 .. m : wire'[s][n - d + k] = c[k]

\* What the store has under id follows the command that is gone from the wire.
Follows(s, d, id) ==
    /\ d = 0 \/ ~ Alters(wire[s][1], id) =>
          /\ id \in exists' <=> id \in exists
          /\ written'[id] = written[id]
    /\ d = 1 /\ Alters(wire[s][1], id) =>
          /\ wire[s][1].op = "set" => id \in exists' /\ written'[id] = wire[s][1].data
          /\ wire[s][1].op = "del" => id \notin exists'

\* Where a command of the next state comes from.
LEMMA ShiftsFrom ==
    ASSUME NEW s, NEW d, NEW n, NEW m, NEW c, Shifts(s, d, n, m, c),
           NEW t \in WebServers, NEW i \in DOMAIN wire'[t]
    PROVE  \/ t # s /\ i \in DOMAIN wire[t] /\ wire'[t] = wire[t]
           \/ /\ t = s /\ i \in 1 .. n - d /\ i + d \in DOMAIN wire[s]
              /\ wire'[t][i] = wire[s][i + d]
           \/ \E k \in 1 .. m : t = s /\ i = n - d + k /\ wire'[t][i] = c[k]
<1>1. CASE t # s
  BY <1>1 DEF Shifts
<1>2. CASE t = s /\ i <= n - d
  BY <1>2 DEF Shifts
<1>3. CASE t = s /\ ~ i <= n - d
  <2>1. i - (n - d) \in 1 .. m /\ i = n - d + (i - (n - d))
    BY <1>3 DEF Shifts
  <2>2. PICK k \in 1 .. m : i = n - d + k
    BY <2>1
  <2>. QED
    BY <1>3, <2>2 DEF Shifts
<1>. QED
  BY <1>1, <1>2, <1>3

\* What will be under an id that no new command is about.
LEMMA WillStay ==
    ASSUME NEW s, NEW d, NEW n, NEW m, NEW c, Shifts(s, d, n, m, c), NEW id,
           Follows(s, d, id), \A k \in 1 .. m : ~ Alters(c[k], id),
           driver = "redis", driver' = driver
    PROVE  /\ \A data : WillHold(id, data) => WillHold(id, data)'
           /\ WillBeGone(id) => WillBeGone(id)'
<1>1. ASSUME NEW t \in WebServers, NEW i \in DOMAIN wire'[t], Alters(wire'[t][i], id)
      PROVE  \E j \in DOMAIN wire[t] :
                /\ wire'[t][i] = wire[t][j]
                /\ t = s => j = i + d
                /\ t # s => j = i
  BY <1>1, ShiftsFrom
<1>2. ASSUME NEW t \in WebServers, NEW j \in DOMAIN wire[t], Alters(wire[t][j], id)
      PROVE  \/ t = s /\ j = 1 /\ d = 1
             \/ \E i \in DOMAIN wire'[t] :
                /\ wire'[t][i] = wire[t][j]
                /\ t = s => j = i + d
                /\ t # s => j = i
  <2>1. CASE t # s
    BY <2>1 DEF Shifts
  <2>2. CASE t = s /\ j > d
    <3>1. j - d \in 1 .. n - d /\ (j - d) + d = j /\ j - d \in DOMAIN wire'[s]
      BY <2>2 DEF Shifts
    <3>. QED
      BY <2>2, <3>1 DEF Shifts
  <2>3. CASE t = s /\ ~ j > d
    BY <2>3 DEF Shifts
  <2>. QED
    BY <2>1, <2>2, <2>3
<1>3. ASSUME NEW t \in WebServers, NEW i \in DOMAIN wire'[t], Decides(t, i, id)'
      PROVE  \E j \in DOMAIN wire[t] : wire'[t][i] = wire[t][j] /\ Decides(t, j, id)
  <2>1. /\ Alters(wire'[t][i], id)
        /\ \A k \in DOMAIN wire'[t] : i < k => ~ Alters(wire'[t][k], id)
    BY <1>3 DEF Decides, Alters
  <2>2. PICK j \in DOMAIN wire[t] :
                /\ wire'[t][i] = wire[t][j]
                /\ t = s => j = i + d
                /\ t # s => j = i
    BY <1>1, <2>1
  <2>3. CASE t # s
    <3>1. wire'[t] = wire[t]
      BY <2>3 DEF Shifts
    <3>. QED
      BY <2>1, <2>2, <2>3, <3>1 DEF Decides
  <2>4. CASE t = s
    <3>1. /\ DOMAIN wire'[s] \subseteq Nat /\ DOMAIN wire[s] \subseteq Nat \ {0}
          /\ d \in Nat /\ i \in Nat
      BY <2>4 DEF Shifts
    <3>2. ASSUME NEW k \in DOMAIN wire[t], j < k, Alters(wire[t][k], id)
          PROVE  FALSE
      <4>1. PICK l \in DOMAIN wire'[t] : wire'[t][l] = wire[t][k] /\ k = l + d
        <5>1. k # 1
          BY <2>2, <2>4, <3>1, <3>2
        <5>. QED
          BY <1>2, <2>4, <3>2, <5>1
      <4>2. i < l
        BY <2>2, <2>4, <3>1, <3>2, <4>1
      <4>. QED
        BY <2>1, <3>2, <4>1, <4>2
    <3>. QED
      BY <2>1, <2>2, <3>2 DEF Decides
  <2>. QED
    BY <2>3, <2>4
<1>4. ASSUME ~ Pending(id)', Pending(id)
      PROVE  d = 1 /\ Alters(wire[s][1], id) /\ Decides(s, 1, id) /\ 1 \in DOMAIN wire[s]
  <2>1. \A t \in WebServers : \A i \in DOMAIN wire'[t] : ~ Alters(wire'[t][i], id)
    BY <1>4 DEF Pending, Alters
  <2>2. \A t \in WebServers : \A j \in DOMAIN wire[t] : Alters(wire[t][j], id) => t = s /\ j = 1 /\ d = 1
    BY <1>2, <2>1
  <2>3. d = 1 /\ Alters(wire[s][1], id) /\ 1 \in DOMAIN wire[s]
    BY <1>4, <2>2 DEF Pending
  <2>4. \A j \in DOMAIN wire[s] : 1 < j => ~ Alters(wire[s][j], id)
    BY <2>2 DEF Shifts
  <2>. QED
    BY <2>3, <2>4 DEF Decides
<1>5. ASSUME ~ Pending(id)', ~ Pending(id)
      PROVE  (id \in exists' <=> id \in exists) /\ written'[id] = written[id]
  <2>1. d = 0 \/ ~ Alters(wire[s][1], id)
    <3>1. d = 1 => 1 \in DOMAIN wire[s] /\ s \in WebServers
      BY DEF Shifts
    <3>2. d \in {0, 1}
      BY DEF Shifts
    <3>. QED
      BY <1>5, <3>1, <3>2 DEF Pending
  <2>. QED
    BY <2>1 DEF Follows
<1>6. ~ SharesObjects /\ ~ SharesObjects'
  BY DEF SharesObjects
<1>7. ASSUME NEW data, WillHold(id, data)
      PROVE  WillHold(id, data)'
  <2>1. \A t \in WebServers : \A i \in DOMAIN wire'[t] : Decides(t, i, id)' =>
           /\ wire'[t][i].op = "set" => wire'[t][i].data = data
           /\ wire'[t][i].op = "del" => data = {}
    BY <1>3, <1>7 DEF WillHold
  <2>2. ASSUME ~ Pending(id)'
        PROVE  Stored(id)' = data
    <3>1. CASE Pending(id)
      <4>1. /\ d = 1 /\ Alters(wire[s][1], id) /\ s \in WebServers
            /\ wire[s][1].op = "set" => wire[s][1].data = data
            /\ wire[s][1].op = "del" => data = {}
        BY <1>4, <1>7, <2>2, <3>1 DEF WillHold, Shifts
      <4>2. /\ wire[s][1].op = "set" => id \in exists' /\ written'[id] = data
            /\ wire[s][1].op = "del" => id \notin exists' /\ data = {}
        BY <4>1 DEF Follows
      <4>3. wire[s][1].op \in {"set", "del"}
        BY <4>1 DEF Alters
      <4>4. Stored(id)' = IF id \notin exists' THEN {} ELSE written'[id]
        BY <1>6 DEF Stored
      <4>. QED
        BY <4>2, <4>3, <4>4
    <3>2. CASE ~ Pending(id)
      <4>1. Stored(id) = data
        BY <1>7, <3>2 DEF WillHold
      <4>. QED
        BY <1>5, <1>6, <2>2, <3>2, <4>1 DEF Stored
    <3>. QED
      BY <3>1, <3>2
  <2>. QED
    BY <2>1, <2>2 DEF WillHold
<1>8. ASSUME WillBeGone(id)
      PROVE  WillBeGone(id)'
  <2>1. \A t \in WebServers : \A i \in DOMAIN wire'[t] : Decides(t, i, id)' => wire'[t][i].op = "del"
    BY <1>3, <1>8 DEF WillBeGone
  <2>2. ASSUME ~ Pending(id)'
        PROVE  id \notin exists'
    <3>1. CASE Pending(id)
      <4>1. d = 1 /\ Alters(wire[s][1], id) /\ s \in WebServers /\ wire[s][1].op = "del"
        BY <1>4, <1>8, <2>2, <3>1 DEF WillBeGone, Shifts
      <4>. QED
        BY <4>1 DEF Follows
    <3>2. CASE ~ Pending(id)
      BY <1>5, <1>8, <2>2, <3>2 DEF WillBeGone
    <3>. QED
      BY <3>1, <3>2
  <2>. QED
    BY <2>1, <2>2 DEF WillBeGone
<1>. QED
  BY <1>7, <1>8

\* The last one of the commands c that is about id.
LastAbout(m, c, p, id) ==
    p \in 1 .. m /\ Alters(c[p], id) /\ \A k \in 1 .. m : p < k => ~ Alters(c[k], id)

\* No other server has any command.
OnlyWire(s) == \A t \in WebServers \ {s} : wire[t] = <<>>

\* What will be under the id of a new command, where no other server has any.
LEMMA WillFollow ==
    ASSUME NEW s, NEW n, NEW m, NEW c, Shifts(s, 0, n, m, c), NEW id, NEW p,
           LastAbout(m, c, p, id), OnlyWire(s)
    PROVE  /\ c[p].op = "set" => \A data : data = c[p].data => WillHold(id, data)'
           /\ c[p].op = "del" => WillBeGone(id)'
<1>0. /\ p \in 1 .. m /\ Alters(c[p], id) /\ \A k \in 1 .. m : p < k => ~ Alters(c[k], id)
      /\ \A t \in WebServers \ {s} : wire[t] = <<>>
  BY DEF LastAbout, OnlyWire
<1>1. /\ n + p \in DOMAIN wire'[s] /\ wire'[s][n + p] = c[p] /\ s \in WebServers /\ n \in Nat
      /\ m \in Nat
  BY <1>0 DEF Shifts
<1>2. Pending(id)'
  BY <1>0, <1>1 DEF Pending, Alters
<1>3. ASSUME NEW t \in WebServers, NEW i \in DOMAIN wire'[t], Decides(t, i, id)'
      PROVE  wire'[t][i] = c[p]
  <2>1. /\ Alters(wire'[t][i], id)
        /\ \A k \in DOMAIN wire'[t] : i < k => ~ Alters(wire'[t][k], id)
    BY <1>3 DEF Decides, Alters
  <2>2. t = s
    <3>1. t # s => wire'[t] = wire[t] /\ wire[t] = <<>>
      BY <1>0 DEF Shifts
    <3>2. DOMAIN <<>> = {}
      OBVIOUS
    <3>. QED
      BY <1>0, <1>3, <3>1, <3>2
  <2>3. /\ i \in 1 .. n + m
        /\ \A k \in 1 .. m : wire'[s][n + k] = c[k]
    BY <2>2 DEF Shifts
  <2>4. ~ i < n + p
    BY <1>0, <1>1, <2>1, <2>2
  <2>5. i - n \in 1 .. m /\ n + (i - n) = i
    BY <1>0, <1>1, <2>3, <2>4
  <2>6. PICK k \in 1 .. m : i = n + k
    BY <2>5
  <2>7. ~ p < k
    BY <1>0, <2>1, <2>2, <2>3, <2>6
  <2>. QED
    BY <1>0, <1>1, <2>2, <2>4, <2>6, <2>7
<1>. QED
  BY <1>0, <1>2, <1>3 DEF WillHold, WillBeGone


\* What is awaited stays so when nothing becomes of the request that waits, and is
\* sent by the server of the request.
LEMMA AwaitedNext ==
    ASSUME CommandsAwaited, generated \in Nat, generated' \in Nat, generated <= generated',
           NEW s, NEW d, NEW n, NEW m, NEW c, Shifts(s, d, n, m, c),
           \A t \in WebServers : \A i \in DOMAIN wire[t] : wire[t][i].id \in Nat,
           \A t \in WebServers : \A i \in DOMAIN wire[t] :
              (t # s \/ i > d) /\ wire[t][i].awaited =>
                 request'[wire[t][i].from] = request[wire[t][i].from],
           \A k \in 1 .. m :
              /\ c[k].id <= generated'
              /\ c[k].op = "get" => c[k].awaited
              /\ c[k].awaited =>
                    /\ m = 1 /\ request'[c[k].from].server = s
                    /\ c[k].op = "get" <=> request'[c[k].from].pc = "loading"
                    /\ request'[c[k].from].pc \in {"loading", "waiting"}
                    /\ \A i \in DOMAIN wire[s] :
                          i > d /\ wire[s][i].awaited => wire[s][i].from # c[k].from
    PROVE  CommandsAwaited'
<1>1. ASSUME NEW t \in WebServers, NEW i \in DOMAIN wire'[t]
      PROVE  /\ wire'[t][i].id <= generated'
             /\ wire'[t][i].op = "get" => wire'[t][i].awaited
             /\ wire'[t][i].awaited =>
                   /\ request'[wire'[t][i].from].server = t
                   /\ wire'[t][i].op = "get" <=> request'[wire'[t][i].from].pc = "loading"
                   /\ request'[wire'[t][i].from].pc \in {"loading", "waiting"}
  <2>1. CASE \E k \in 1 .. m : t = s /\ i = n - d + k /\ wire'[t][i] = c[k]
    BY <2>1
  <2>2. ASSUME NEW j \in DOMAIN wire[t], t # s \/ j > d, wire'[t][i] = wire[t][j]
        PROVE  /\ wire'[t][i].id <= generated'
               /\ wire'[t][i].op = "get" => wire'[t][i].awaited
               /\ wire'[t][i].awaited =>
                     /\ request'[wire'[t][i].from].server = t
                     /\ wire'[t][i].op = "get" <=> request'[wire'[t][i].from].pc = "loading"
                     /\ request'[wire'[t][i].from].pc \in {"loading", "waiting"}
    <3>1. /\ wire[t][j].id <= generated
          /\ wire[t][j].op = "get" => wire[t][j].awaited
          /\ wire[t][j].awaited =>
                /\ request[wire[t][j].from].server = t
                /\ wire[t][j].op = "get" <=> request[wire[t][j].from].pc = "loading"
                /\ request[wire[t][j].from].pc \in {"loading", "waiting"}
      BY DEF CommandsAwaited, RequestPc
    <3>2. wire[t][j].id <= generated'
      BY <3>1
    <3>3. wire[t][j].awaited => request'[wire[t][j].from] = request[wire[t][j].from]
      BY <2>2
    <3>. QED
      BY <2>2, <3>1, <3>2, <3>3
  <2>3. i \in 1 .. n - d /\ t = s => i + d > d
    BY DEF Shifts
  <2>. QED
    BY <2>1, <2>2, <2>3, ShiftsFrom
<1>2. ASSUME NEW t \in WebServers, NEW i \in DOMAIN wire'[t], NEW j \in DOMAIN wire'[t],
             wire'[t][i].awaited, wire'[t][j].awaited, wire'[t][j].from = wire'[t][i].from
      PROVE  i = j
  <2>1. CASE t # s
    <3>1. wire'[t] = wire[t]
      BY <2>1 DEF Shifts
    <3>. QED
      BY <1>2, <3>1 DEF CommandsAwaited
  <2>2. CASE t = s
    <3>1. \/ i \in 1 .. n - d /\ i + d \in DOMAIN wire[s] /\ wire'[s][i] = wire[s][i + d]
          \/ \E k \in 1 .. m : i = n - d + k /\ wire'[s][i] = c[k]
      BY <2>2, ShiftsFrom
    <3>2. \/ j \in 1 .. n - d /\ j + d \in DOMAIN wire[s] /\ wire'[s][j] = wire[s][j + d]
          \/ \E k \in 1 .. m : j = n - d + k /\ wire'[s][j] = c[k]
      BY <2>2, ShiftsFrom
    <3>3. n \in Nat /\ d \in Nat /\ m \in Nat /\ s \in WebServers
      BY DEF Shifts
    <3>4. CASE /\ i \in 1 .. n - d /\ i + d \in DOMAIN wire[s] /\ wire'[s][i] = wire[s][i + d]
               /\ j \in 1 .. n - d /\ j + d \in DOMAIN wire[s] /\ wire'[s][j] = wire[s][j + d]
      <4>1. i + d = j + d
        BY <1>2, <2>2, <3>3, <3>4 DEF CommandsAwaited
      <4>. QED
        BY <3>3, <3>4, <4>1
    <3>5. CASE /\ \E k \in 1 .. m : i = n - d + k /\ wire'[s][i] = c[k]
               /\ \E k \in 1 .. m : j = n - d + k /\ wire'[s][j] = c[k]
      <4>1. m = 1
        BY <1>2, <2>2, <3>5
      <4>. QED
        BY <3>3, <3>5, <4>1
    <3>6. \A k \in 1 .. m : c[k].awaited => \A l \in 1 .. n - d :
             l + d \in DOMAIN wire[s] /\ wire[s][l + d].awaited => wire[s][l + d].from # c[k].from
      <4>1. \A l \in 1 .. n - d : l + d > d
        BY <3>3
      <4>. QED
        BY <4>1
    <3>7. ASSUME \E k \in 1 .. m : i = n - d + k /\ wire'[s][i] = c[k],
                 j \in 1 .. n - d, j + d \in DOMAIN wire[s], wire'[s][j] = wire[s][j + d]
          PROVE  FALSE
      BY <1>2, <2>2, <3>6, <3>7
    <3>8. ASSUME \E k \in 1 .. m : j = n - d + k /\ wire'[s][j] = c[k],
                 i \in 1 .. n - d, i + d \in DOMAIN wire[s], wire'[s][i] = wire[s][i + d]
          PROVE  FALSE
      BY <1>2, <2>2, <3>6, <3>8
    <3>. QED
      BY <3>1, <3>2, <3>4, <3>5, <3>7, <3>8
  <2>. QED
    BY <2>1, <2>2
<1>. QED
  BY <1>1, <1>2 DEF CommandsAwaited, RequestPc

\* What is still awaited is of a request that stays as it is, and only EXPIREs follow.
StillAwaited(s, d, m, c) ==
    \A t \in WebServers : \A i \in DOMAIN wire[t] :
       (t # s \/ i > d) /\ wire[t][i].awaited =>
          /\ request'[wire[t][i].from] = request[wire[t][i].from]
          /\ object'[request[wire[t][i].from].ref] = object[request[wire[t][i].from].ref]
          /\ t = s => \A k \in 1 .. m : c[k].op = "expire"
          /\ \A id, data : id = request[wire[t][i].from].id /\ WillHold(id, data) =>
                              WillHold(id, data)'

\* What is newly awaited is sent last, and saves the data of its request.
NewAwaited(m, c) ==
    \A k \in 1 .. m : c[k].awaited =>
       /\ k = m /\ c[k].id = request'[c[k].from].id
       /\ c[k].op = "get" => request'[c[k].from].ref = <<c[k].from, "first">>
       /\ c[k].op \in {"set", "expire"} =>
             \A id, data : id = c[k].id /\ data = object'[request'[c[k].from].ref] =>
                              WillHold(id, data)'

\* What is awaited stays last, and what it saves is saved.
LEMMA LastNext ==
    ASSUME LastAwaited, NEW s, NEW d, NEW n, NEW m, NEW c, Shifts(s, d, n, m, c),
           StillAwaited(s, d, m, c), NewAwaited(m, c)
    PROVE  LastAwaited'
<1>. SUFFICES ASSUME NEW t \in WebServers, NEW i \in DOMAIN wire'[t], wire'[t][i].awaited
              PROVE  /\ wire'[t][i].id = request'[wire'[t][i].from].id
                     /\ \A j \in DOMAIN wire'[t] : i < j => wire'[t][j].op = "expire"
                     /\ wire'[t][i].op = "get" =>
                           request'[wire'[t][i].from].ref = <<wire'[t][i].from, "first">>
                     /\ wire'[t][i].op \in {"set", "expire"} =>
                           (WillHold(request[wire[t][i].from].id, DataOf(wire[t][i].from)))'
  BY DEF LastAwaited
<1>1. PICK r, id, data : r = wire'[t][i].from /\ id = request'[r].id
                         /\ data = object'[request'[r].ref]
  OBVIOUS
<1>2. /\ wire'[t][i].id = id
      /\ \A j \in DOMAIN wire'[t] : i < j => wire'[t][j].op = "expire"
      /\ wire'[t][i].op = "get" => request'[r].ref = <<r, "first">>
      /\ wire'[t][i].op \in {"set", "expire"} => WillHold(id, data)'
  <2>0. n \in Nat /\ d \in Nat /\ m \in Nat /\ s \in WebServers /\ n - d \in Nat
    BY DEF Shifts
  <2>1. ASSUME NEW k \in 1 .. m, t = s, i = n - d + k, wire'[t][i] = c[k]
        PROVE  /\ wire'[t][i].id = id
               /\ \A j \in DOMAIN wire'[t] : i < j => wire'[t][j].op = "expire"
               /\ wire'[t][i].op = "get" => request'[r].ref = <<r, "first">>
               /\ wire'[t][i].op \in {"set", "expire"} => WillHold(id, data)'
    <3>1. /\ k = m /\ c[k].id = id
          /\ c[k].op = "get" => request'[r].ref = <<r, "first">>
          /\ c[k].op \in {"set", "expire"} => WillHold(id, data)'
      BY <1>1, <2>1 DEF NewAwaited
    <3>2. \A j \in DOMAIN wire'[t] : ~ i < j
      BY <2>0, <2>1, <3>1 DEF Shifts
    <3>. QED
      BY <1>1, <2>1, <3>1, <3>2
  <2>2. ASSUME NEW j \in DOMAIN wire[t], t # s \/ j > d, wire'[t][i] = wire[t][j],
               t = s => j = i + d, t # s => j = i /\ wire'[t] = wire[t]
        PROVE  /\ wire'[t][i].id = id
               /\ \A l \in DOMAIN wire'[t] : i < l => wire'[t][l].op = "expire"
               /\ wire'[t][i].op = "get" => request'[r].ref = <<r, "first">>
               /\ wire'[t][i].op \in {"set", "expire"} => WillHold(id, data)'
    <3>1. /\ request'[r] = request[r] /\ object'[request[r].ref] = object[request[r].ref]
          /\ t = s => \A k \in 1 .. m : c[k].op = "expire"
          /\ WillHold(id, data) => WillHold(id, data)'
      <4>1. wire[t][j].awaited /\ wire[t][j].from = r /\ (t # s \/ j > d)
        BY <1>1, <2>2
      <4>2. /\ request'[r] = request[r] /\ object'[request[r].ref] = object[request[r].ref]
            /\ t = s => \A k \in 1 .. m : c[k].op = "expire"
        BY <4>1 DEF StillAwaited
      <4>3. \A k, v : k = request[r].id /\ WillHold(k, v) => WillHold(k, v)'
        BY <4>1 DEF StillAwaited
      <4>. QED
        BY <1>1, <4>2, <4>3
    <3>2. /\ wire[t][j].id = request[r].id
          /\ \A l \in DOMAIN wire[t] : j < l => wire[t][l].op = "expire"
          /\ wire[t][j].op = "get" => request[r].ref = <<r, "first">>
          /\ wire[t][j].op \in {"set", "expire"} => WillHold(request[r].id, DataOf(r))
      BY <1>1, <2>2 DEF LastAwaited
    <3>3. WillHold(request[r].id, DataOf(r)) => WillHold(id, data)
      BY <1>1, <3>1 DEF DataOf
    <3>4. ASSUME NEW l \in DOMAIN wire'[t], i < l
          PROVE  wire'[t][l].op = "expire"
      <4>1. CASE t # s
        BY <2>2, <3>2, <3>4, <4>1
      <4>2. CASE t = s
        <5>1. CASE l \in 1 .. n - d /\ l + d \in DOMAIN wire[s] /\ wire'[t][l] = wire[s][l + d]
          <6>1. j < l + d
            BY <2>0, <2>2, <3>4, <4>2, <5>1 DEF Shifts
          <6>. QED
            BY <3>2, <4>2, <5>1, <6>1
        <5>2. CASE \E k \in 1 .. m : l = n - d + k /\ wire'[t][l] = c[k]
          BY <3>1, <4>2, <5>2
        <5>. QED
          BY <3>4, <4>2, <5>1, <5>2, ShiftsFrom
      <4>. QED
        BY <4>1, <4>2
    <3>. QED
      BY <1>1, <2>2, <3>1, <3>2, <3>3, <3>4
  <2>3. i \in 1 .. n - d /\ t = s => i + d > d
    BY <2>0
  <2>4. \/ t # s /\ i \in DOMAIN wire[t] /\ wire'[t] = wire[t]
        \/ /\ t = s /\ i \in 1 .. n - d /\ i + d \in DOMAIN wire[s]
           /\ wire'[t][i] = wire[s][i + d]
        \/ \E k \in 1 .. m : t = s /\ i = n - d + k /\ wire'[t][i] = c[k]
    BY ShiftsFrom
  <2>5. CASE t # s /\ i \in DOMAIN wire[t] /\ wire'[t] = wire[t]
    BY <2>2, <2>5
  <2>6. CASE /\ t = s /\ i \in 1 .. n - d /\ i + d \in DOMAIN wire[s]
             /\ wire'[t][i] = wire[s][i + d]
    <3>1. PICK j \in DOMAIN wire[t] : j = i + d /\ j > d
      BY <2>3, <2>6
    <3>. QED
      BY <2>2, <2>6, <3>1
  <2>. QED
    BY <2>1, <2>4, <2>5, <2>6
<1>3. WillHold(id, data)' => (WillHold(request[wire[t][i].from].id, DataOf(wire[t][i].from)))'
  <2>1. id = (request[wire[t][i].from].id)' /\ data = DataOf(wire[t][i].from)'
    BY <1>1 DEF DataOf
  <2>. QED
    BY <2>1 DEF WillHold, Pending, Decides, Stored
<1>. QED
  BY <1>1, <1>2, <1>3


\* Commands that are sent.
LEMMA SendForm ==
    ASSUME SessionsTypeOK, NEW s \in WebServers, NEW c \in Seq(WireCommand),
           wire' = [wire EXCEPT ![s] = @ \o c]
    PROVE  /\ wire' \in [WebServers -> Seq(WireCommand)] /\ Len(c) \in Nat
           /\ \E n \in Nat : Shifts(s, 0, n, Len(c), c)
<1>1. wire \in [WebServers -> Seq(WireCommand)] /\ wire[s] \in Seq(WireCommand)
  BY DEF SessionsTypeOK
<1>2. PICK w : w = wire[s] \o c
  OBVIOUS
<1>3. /\ w \in Seq(WireCommand) /\ Len(w) = Len(wire[s]) + Len(c)
      /\ \A i \in 1 .. Len(wire[s]) + Len(c) :
            w[i] = IF i <= Len(wire[s]) THEN wire[s][i] ELSE c[i - Len(wire[s])]
  BY <1>1, <1>2, ConcatProperties
<1>4. /\ Len(wire[s]) \in Nat /\ Len(c) \in Nat /\ DOMAIN wire[s] = 1 .. Len(wire[s])
      /\ DOMAIN w = 1 .. Len(w)
  BY <1>1, <1>3, LenProperties
<1>5. wire'[s] = w /\ \A t \in WebServers \ {s} : wire'[t] = wire[t]
  BY <1>1, <1>2
<1>6. PICK n \in Nat, m \in Nat : n = Len(wire[s]) /\ m = Len(c)
  BY <1>4
<1>7. Shifts(s, 0, n, m, c)
  <2>1. DOMAIN wire'[s] = 1 .. n - 0 + m /\ DOMAIN wire[s] = 1 .. n
    BY <1>3, <1>4, <1>5, <1>6
  <2>2. \A j \in 1 .. n - 0 : wire'[s][j] = wire[s][j + 0]
    BY <1>3, <1>5, <1>6
  <2>3. \A k \in 1 .. m : wire'[s][n - 0 + k] = c[k]
    <3>1. ASSUME NEW k \in 1 .. m
          PROVE  wire'[s][n - 0 + k] = c[k]
      <4>1. n - 0 + k \in 1 .. n + m /\ ~ n - 0 + k <= n /\ (n - 0 + k) - n = k
        BY <3>1
      <4>. QED
        BY <1>3, <1>5, <1>6, <4>1
    <3>. QED
      BY <3>1
  <2>. QED
    BY <1>5, <2>1, <2>2, <2>3 DEF Shifts
<1>8. wire' \in [WebServers -> Seq(WireCommand)]
  BY <1>1, <1>2, <1>3
<1>. QED
  BY <1>4, <1>6, <1>7, <1>8

\* One command that is sent.
LEMMA SendOne ==
    ASSUME SessionsTypeOK, NEW s \in WebServers, NEW e \in WireCommand,
           wire' = [wire EXCEPT ![s] = @ \o <<e>>] \/ wire' = [wire EXCEPT ![s] = Append(@, e)]
    PROVE  /\ wire' \in [WebServers -> Seq(WireCommand)]
           /\ \E n \in Nat : Shifts(s, 0, n, 1, <<e>>)
<1>1. wire \in [WebServers -> Seq(WireCommand)] /\ wire[s] \in Seq(WireCommand)
  BY DEF SessionsTypeOK
<1>2. <<e>> \in Seq(WireCommand) /\ Len(<<e>>) = 1
  OBVIOUS
<1>3. Append(wire[s], e) = wire[s] \o <<e>>
  BY <1>1, AppendIsConcat
<1>4. wire' = [wire EXCEPT ![s] = @ \o <<e>>]
  BY <1>1, <1>3
<1>. QED
  BY <1>2, <1>4, SendForm

\* A command that is executed, and an EXPIRE that may follow.
LEMMA TakeForm ==
    ASSUME SessionsTypeOK, NEW s \in WebServers, wire[s] # <<>>, NEW e
    PROVE  /\ Head(wire[s]) \in WireCommand /\ Head(wire[s]) = wire[s][1]
           /\ 1 \in DOMAIN wire[s]
           /\ wire' = [wire EXCEPT ![s] = Tail(@)] =>
                 /\ wire' \in [WebServers -> Seq(WireCommand)]
                 /\ \E n \in Nat : Shifts(s, 1, n, 0, <<>>)
           /\ wire' = [wire EXCEPT ![s] = Append(Tail(@), e)] /\ e \in WireCommand =>
                 /\ wire' \in [WebServers -> Seq(WireCommand)]
                 /\ \E n \in Nat : Shifts(s, 1, n, 1, <<e>>)
<1>1. wire \in [WebServers -> Seq(WireCommand)] /\ wire[s] \in Seq(WireCommand)
  BY DEF SessionsTypeOK
<1>2. PICK w, l, n : w = wire[s] /\ l = Tail(w) /\ n = Len(w)
  OBVIOUS
<1>3. /\ Head(w) \in WireCommand /\ l \in Seq(WireCommand) /\ n \in Nat /\ n > 0
      /\ Len(l) = n - 1 /\ DOMAIN w = 1 .. n /\ DOMAIN l = 1 .. n - 1 /\ Head(w) = w[1]
      /\ \A i \in 1 .. n - 1 : l[i] = w[i + 1]
  BY <1>1, <1>2, TailFacts
<1>4. ASSUME wire' = [wire EXCEPT ![s] = Tail(@)]
      PROVE  wire' \in [WebServers -> Seq(WireCommand)] /\ Shifts(s, 1, n, 0, <<>>)
  <2>1. /\ wire'[s] = l /\ wire' \in [WebServers -> Seq(WireCommand)]
        /\ \A t \in WebServers \ {s} : wire'[t] = wire[t]
    BY <1>1, <1>2, <1>3, <1>4
  <2>. QED
    BY <1>2, <1>3, <2>1 DEF Shifts
<1>5. ASSUME wire' = [wire EXCEPT ![s] = Append(Tail(@), e)], e \in WireCommand
      PROVE  wire' \in [WebServers -> Seq(WireCommand)] /\ Shifts(s, 1, n, 1, <<e>>)
  <2>1. PICK a : a = Append(l, e)
    OBVIOUS
  <2>2. /\ a \in Seq(WireCommand) /\ DOMAIN a = 1 .. (n - 1) + 1
        /\ \A i \in 1 .. n - 1 : a[i] = l[i]
        /\ a[(n - 1) + 1] = e
    BY <1>3, <1>5, <2>1, AppendFacts
  <2>3. /\ wire'[s] = a /\ wire' \in [WebServers -> Seq(WireCommand)]
        /\ \A t \in WebServers \ {s} : wire'[t] = wire[t]
    BY <1>1, <1>2, <1>5, <2>1, <2>2
  <2>4. <<e>>[1] = e /\ \A k \in 1 .. 1 : k = 1
    OBVIOUS
  <2>. QED
    BY <1>2, <1>3, <2>2, <2>3, <2>4 DEF Shifts
<1>. QED
  BY <1>2, <1>3, <1>4, <1>5

\* Ids and owners when no request changes.
LEMMA IdsStay ==
    ASSUME IdsKnown, request' = request, object' = object, driver' = driver,
           kept' = kept, generated' = generated, cookie' = cookie, gone' = gone,
           exists' \subseteq 0 .. generated, SharesObjects => exists' \subseteq exists,
           driver # "redis" => unexpiring' = {} /\ wire' = wire
    PROVE  IdsKnown'
<1>1. Busy' = Busy /\ (SharesObjects' <=> SharesObjects)
  BY DEF Busy, RequestPc, SharesObjects
<1>2. \A q \in Requests : RequestPc(q)' = RequestPc(q) /\ (Open(q)' <=> Open(q))
  BY DEF RequestPc, Open
<1>3. exists' \cup gone' \cup {cookie'} \subseteq 0 .. generated'
  BY DEF IdsKnown
<1>4. /\ \A r \in Busy' : request'[r].id \in 1 .. generated'
      /\ \A r \in Requests : RequestPc(r)' = "idle" => object'[<<r, "first">>] = {}
  BY <1>1, <1>2 DEF IdsKnown
<1>5. ASSUME driver' # "redis"
      PROVE  /\ unexpiring' = {} /\ \A s \in WebServers : wire'[s] = <<>>
             /\ \A r \in Busy' : Open(r)'
  BY <1>1, <1>5 DEF IdsKnown, Open, RequestPc
<1>6. ASSUME NEW r \in Busy'
      PROVE  /\ request'[r].moved => driver' \in {"memory", "file"}
             /\ ~ SharesObjects' => request'[r].ref[1] = r
             /\ RequestPc(request[r].ref[1])' # "idle"
  BY <1>1, <1>6 DEF IdsKnown, RequestPc
<1>7. SharesObjects' => \A id \in exists' : RequestPc(kept[id][1])' # "idle"
  BY <1>1 DEF IdsKnown, RequestPc
<1>. QED
  BY <1>3, <1>4, <1>5, <1>6, <1>7 DEF IdsKnown


\* What a call of an open session does to Redis: nothing but to send commands, ...
RedisMoves(r, x) ==
    /\ request' = [request EXCEPT ![r] = x] /\ x.pc \in {"open", "waiting", "done"}
    /\ driver' = driver /\ exists' = exists /\ kept' = kept /\ written' = written
    /\ unexpiring' = unexpiring /\ rejections' = rejections /\ disturbed' = disturbed

RedisTypes ==
    /\ generated' \in 0 .. MaxIds /\ generated <= generated'
    /\ gone' \subseteq 1 .. generated' /\ cookie' \in 0 .. generated'
    /\ wire' \in [WebServers -> Seq(WireCommand)]
    /\ object' \in [Objects -> SUBSET Keys] /\ final' \subseteq Keys /\ lost' \in BOOLEAN

RedisOwns(r, x) ==
    /\ \A q \in Requests \ {r} : object'[<<q, "first">>] = object[<<q, "first">>]
    /\ x.pc # "done" =>
          /\ x.id \in 1 .. generated' /\ ~ x.moved /\ x.ref[1] = r
          /\ x.server = request[r].server

\* ... of its own server, to save or to delete, ...
RedisSends(r, x, n, m, c) ==
    /\ Shifts(request[r].server, 0, n, m, c)
    /\ \A k \in 1 .. m :
          /\ c[k].op \in {"set", "del"} /\ c[k].id \in 1 .. generated'
          /\ c[k].awaited => m = 1 /\ c[k].from = r /\ x.pc = "waiting"

\* ... after which Redis will have what the session has, as before.
CalmBefore(r) ==
    /\ \A t \in WebServers \ {request[r].server} : wire[t] = <<>>
    /\ request[r].id \notin gone
    /\ \A id \in gone : WillBeGone(id)
    /\ ~ request[r].isDirty => WillHold(request[r].id, DataOf(r))
    /\ WillHold(NewId, {})

CalmAfter(r, x, m, c) ==
    /\ (\A id \in gone : WillBeGone(id))'
    /\ x.pc # "done" => x.id \notin gone'
    /\ x.pc = "open" /\ ~ x.isDirty => \A v : v = object'[x.ref] => WillHold(x.id, v)'
    /\ \A k \in 1 .. m : c[k].awaited =>
          /\ c[k].id = x.id
          /\ c[k].op = "set" => \A v : v = object'[x.ref] => WillHold(x.id, v)'
    /\ x.pc = "done" => cookie' \notin gone' /\ (~ lost' => WillHold(cookie, final)')

\* A command of Redis is from a request of the client, about an id.
LEMMA CommandFacts ==
    ASSUME SessionsAssumption, SessionsTypeOK, CommandsAwaited, NEW t \in WebServers,
           NEW i \in DOMAIN wire[t]
    PROVE  /\ wire[t][i] \in WireCommand /\ wire[t][i].from \in Requests
           /\ wire[t][i].id \in Nat /\ wire[t][i].id \in Ids /\ wire[t][i].id <= generated
           /\ wire[t][i].id \in 1 .. generated /\ wire[t][i].id # NewId
           /\ wire[t][i].awaited => wire[t][i].from \in Busy
<1>1. /\ wire \in [WebServers -> Seq(WireCommand)] /\ wire[t] \in Seq(WireCommand)
      /\ generated \in Nat /\ MaxIds \in Nat
  BY DEF SessionsTypeOK, SessionsAssumption
<1>2. wire[t][i] \in WireCommand
  BY <1>1, ElementOfSeq
<1>3. wire[t][i].from \in Requests /\ wire[t][i].id \in 1 .. MaxIds
  BY <1>2 DEF WireCommand, Ids
<1>4. wire[t][i].id <= generated
  BY DEF CommandsAwaited
<1>5. wire[t][i].awaited => RequestPc(wire[t][i].from) \in {"loading", "waiting"}
  BY DEF CommandsAwaited
<1>6. wire[t][i].awaited => wire[t][i].from \in Busy
  BY <1>3, <1>5, RequestOf
<1>. QED
  BY <1>1, <1>2, <1>3, <1>4, <1>6 DEF Ids, NewId

\* What is calm before a call of an open session.
LEMMA CalmFacts ==
    ASSUME SessionsAssumption, SessionsInv, driver = "redis", ~ disturbed,
           NEW r \in Requests, Open(r)
    PROVE  CalmBefore(r) /\ Busy = {r}
<1>1. SessionsTypeOK /\ IdsKnown /\ CommandsAwaited /\ Calm
  BY DEF SessionsInv
<1>2. r \in Busy /\ request[r].server \in WebServers
  BY <1>1, RequestOf DEF Open
<1>3. /\ \A q \in Busy, p \in Busy : q = p
      /\ \A q \in Busy, t \in WebServers : wire[t] # <<>> => t = request[q].server
  BY <1>1 DEF Calm, OneByOne
<1>4. Busy = {r} /\ \A t \in WebServers \ {request[r].server} : wire[t] = <<>>
  BY <1>2, <1>3
<1>5. ~ request[r].moved
  BY <1>1, <1>2 DEF IdsKnown
<1>6. /\ request[r].id \notin gone
      /\ ~ request[r].isDirty => WillHold(request[r].id, DataOf(r))
  BY <1>1, <1>2, <1>5 DEF Calm, RequestStored
<1>7. \A id \in gone : WillBeGone(id)
  BY <1>1 DEF Calm
<1>8. WillHold(NewId, {})
  <2>1. \A t \in WebServers : \A i \in DOMAIN wire[t] : ~ Alters(wire[t][i], NewId)
    BY <1>1, CommandFacts DEF Alters
  <2>2. Stored(NewId) = {}
    BY <1>1, IdFacts DEF Stored
  <2>. QED
    BY <2>1, <2>2 DEF WillHold, Decides
<1>. QED
  BY <1>4, <1>6, <1>7, <1>8 DEF CalmBefore

\* A call of an open session of Redis.
LEMMA RedisCall ==
    ASSUME SessionsAssumption, SessionsInv, driver = "redis", NEW r \in Requests, Open(r),
           NEW x \in Req, NEW n, NEW m, NEW c, RedisMoves(r, x), RedisTypes, RedisOwns(r, x),
           RedisSends(r, x, n, m, c), ~ disturbed /\ CalmBefore(r) => CalmAfter(r, x, m, c)
    PROVE  SessionsInv'
<1>0. /\ request' = [request EXCEPT ![r] = x] /\ x.pc \in {"open", "waiting", "done"}
      /\ driver' = driver /\ exists' = exists /\ kept' = kept /\ written' = written
      /\ unexpiring' = unexpiring /\ rejections' = rejections /\ disturbed' = disturbed
      /\ x.pc # "idle"
  BY DEF RedisMoves
<1>1. SessionsTypeOK /\ IdsKnown /\ CommandsAwaited /\ NoLostUpdate
  BY DEF SessionsInv
<1>2. /\ request' \in [Requests -> Req] /\ request'[r] = x
      /\ \A q \in Requests \ {r} : request'[q] = request[q]
      /\ x.pc = "done" => Busy' = Busy \ {r}
      /\ x.pc # "done" => Busy' = Busy \cup {r}
  BY <1>0, <1>1, RequestMoves
<1>3. /\ generated \in Nat /\ MaxIds \in Nat /\ exists \subseteq 1 .. generated
      /\ generated' \in Nat /\ generated <= generated'
  BY <1>1, IdFacts DEF RedisTypes
<1>4. /\ r \in Busy /\ request[r].pc = "open" /\ request[r].server \in WebServers
  BY <1>1, RequestOf DEF Open
<1>5. Shifts(request[r].server, 0, n, m, c)
  BY DEF RedisSends
<1>6. \A t \in WebServers : \A i \in DOMAIN wire[t] :
         /\ wire[t][i].id \in Nat /\ wire[t][i].from \in Requests
         /\ wire[t][i].awaited => wire[t][i].from \in Busy /\ wire[t][i].from # r
  <2>1. ASSUME NEW t \in WebServers, NEW i \in DOMAIN wire[t], wire[t][i].awaited
        PROVE  wire[t][i].from # r
    <3>1. RequestPc(wire[t][i].from) \in {"loading", "waiting"}
      BY <1>1, <2>1 DEF CommandsAwaited
    <3>. QED
      BY <1>4, <3>1 DEF RequestPc
  <2>. QED
    BY <1>1, <2>1, CommandFacts
<1>7. SessionsTypeOK'
  <2>1. {lost', disturbed'} \subseteq BOOLEAN
    BY <1>0, <1>1 DEF SessionsTypeOK, RedisTypes
  <2>2. cookie' \in 0 .. MaxIds /\ gone' \subseteq Ids
    BY <1>3 DEF RedisTypes, Ids
  <2>. QED
    BY <1>0, <1>1, <1>2, <2>1, <2>2 DEF SessionsTypeOK, RedisTypes
<1>8. IdsKnown'
  <2>1. exists' \cup gone' \cup {cookie'} \subseteq 0 .. generated'
    BY <1>0, <1>3 DEF RedisTypes
  <2>2. ~ SharesObjects
    BY DEF SharesObjects
  <2>. QED
    BY <1>0, <1>1, <1>3, <2>1, <2>2, IdsKept DEF RedisOwns
<1>9. CommandsAwaited'
  <2>1. \A t \in WebServers : \A i \in DOMAIN wire[t] :
           (t # request[r].server \/ i > 0) /\ wire[t][i].awaited =>
              request'[wire[t][i].from] = request[wire[t][i].from]
    BY <1>2, <1>6
  <2>2. \A k \in 1 .. m :
              /\ c[k].id <= generated'
              /\ c[k].op = "get" => c[k].awaited
              /\ c[k].awaited =>
                    /\ m = 1 /\ request'[c[k].from].server = request[r].server
                    /\ c[k].op = "get" <=> request'[c[k].from].pc = "loading"
                    /\ request'[c[k].from].pc \in {"loading", "waiting"}
                    /\ \A i \in DOMAIN wire[request[r].server] :
                          i > 0 /\ wire[request[r].server][i].awaited =>
                             wire[request[r].server][i].from # c[k].from
    <3>1. ASSUME NEW k \in 1 .. m
          PROVE  /\ c[k].id <= generated' /\ c[k].op # "get"
                 /\ c[k].awaited => m = 1 /\ c[k].from = r /\ x.pc = "waiting"
      BY <1>3 DEF RedisSends
    <3>2. x.pc = "waiting" => x.server = request[r].server
      BY DEF RedisOwns
    <3>. QED
      BY <1>2, <1>4, <1>6, <3>1, <3>2
  <2>3. PICK s \in WebServers : s = request[r].server
    BY <1>4
  <2>. QED
    BY <1>1, <1>3, <1>5, <1>6, <2>1, <2>2, <2>3, AwaitedNext
<1>10. NoLostUpdate'
  BY <1>0 DEF NoLostUpdate, SharesObjects
<1>11. ASSUME ~ disturbed'
       PROVE  Calm'
  <2>1. ~ disturbed /\ CalmBefore(r) /\ Busy = {r}
    BY <1>0, <1>11, CalmFacts
  <2>2. CalmAfter(r, x, m, c)
    BY <2>1
  <2>3. /\ x.pc # "done" => Busy' = {r} /\ x.server = request[r].server /\ ~ x.moved
        /\ x.pc = "done" => Busy' = {}
    BY <1>2, <2>1 DEF RedisOwns
  <2>4. OneByOne'
    <3>1. \A t \in WebServers \ {request[r].server} : wire'[t] = <<>>
      BY <1>5, <2>1 DEF Shifts, CalmBefore
    <3>. QED
      BY <1>2, <2>3, <3>1 DEF OneByOne
  <2>5. RequestStored'
    <3>1. ASSUME NEW q \in Busy'
          PROVE  q = r /\ request'[q] = x /\ x.pc # "done" /\ ~ x.moved /\ x.id \notin gone'
      BY <1>2, <2>2, <2>3, <3>1 DEF CalmAfter
    <3>2. ASSUME x.pc = "open", ~ x.isDirty
          PROVE  (WillHold(request[r].id, DataOf(r)))'
      <4>1. PICK v : v = object'[x.ref]
        OBVIOUS
      <4>2. WillHold(x.id, v)'
        BY <2>2, <3>2, <4>1 DEF CalmAfter
      <4>. QED
        BY <1>2, <4>1, <4>2 DEF WillHold, DataOf, Decides, Pending, Stored
    <3>. QED
      BY <3>1, <3>2 DEF RequestStored, Open, RequestPc
  <2>6. LastAwaited'
    <3>1. LastAwaited
      BY <1>11, <2>1 DEF SessionsInv, Calm
    <3>2. StillAwaited(request[r].server, 0, m, c)
      <4>1. \A t \in WebServers : \A i \in DOMAIN wire[t] : ~ wire[t][i].awaited
        BY <1>6, <2>1
      <4>. QED
        BY <4>1 DEF StillAwaited
    <3>3. NewAwaited(m, c)
      <4>1. ASSUME NEW k \in 1 .. m, c[k].awaited
            PROVE  /\ k = m /\ c[k].id = x.id /\ c[k].from = r /\ c[k].op \in {"set", "del"}
                   /\ c[k].op = "set" => \A v : v = object'[x.ref] => WillHold(x.id, v)'
        BY <2>2, <4>1 DEF CalmAfter, RedisSends
      <4>2. ASSUME NEW k \in 1 .. m, c[k].awaited, c[k].op \in {"set", "expire"},
                   NEW id, NEW v, id = c[k].id, v = object'[request'[c[k].from].ref]
            PROVE  WillHold(id, v)'
        BY <1>2, <4>1, <4>2
      <4>. QED
        BY <1>2, <4>1, <4>2 DEF NewAwaited
    <3>. QED
      BY <1>5, <3>1, <3>2, <3>3, LastNext
  <2>7. Busy' = {} => cookie' \notin gone' /\ (~ lost' => WillHold(cookie, final)')
    BY <2>2, <2>3 DEF CalmAfter, RedisMoves
  <2>8. (\A id \in gone : WillBeGone(id))'
    BY <2>2 DEF CalmAfter
  <2>. QED
    BY <2>4, <2>5, <2>6, <2>7, <2>8 DEF Calm
<1>. QED
  BY <1>7, <1>8, <1>9, <1>10, <1>11 DEF SessionsInv


\* An open session of Redis.
LEMMA RedisOpen ==
    ASSUME SessionsAssumption, SessionsInv, driver = "redis", NEW r \in Requests, Open(r)
    PROVE  /\ request[r] \in Req /\ request[r].ref \in Objects /\ request[r].ref[1] = r
           /\ ~ request[r].moved /\ request[r].server \in WebServers
           /\ request[r].id \in 1 .. generated /\ request[r].id \in Ids
           /\ request[r].id # NewId /\ request[r].pc = "open"
           /\ request \in [Requests -> Req] /\ object \in [Objects -> SUBSET Keys]
           /\ DataOf(r) = object[request[r].ref] /\ DataOf(r) \subseteq Keys
           /\ \A q \in Requests \ {r} : <<q, "first">> # request[r].ref
                                        /\ <<q, "first">> \in Objects
           /\ generated \in 0 .. MaxIds /\ generated \in Nat /\ MaxIds \in Nat
           /\ NewId = generated + 1 /\ (CanGenerate => NewId \in 1 .. MaxIds /\ NewId \in Ids)
           /\ NewId \notin gone
           /\ gone \subseteq 1 .. generated /\ cookie \in 0 .. generated
           /\ final \subseteq Keys /\ lost \in BOOLEAN
<1>1. SessionsTypeOK /\ IdsKnown
  BY DEF SessionsInv
<1>2. /\ request[r] \in Req /\ request[r].ref \in Objects /\ request[r].server \in WebServers
      /\ request \in [Requests -> Req] /\ r \in Busy
  BY <1>1, RequestOf DEF Open
<1>3. request[r].ref[1] = r /\ ~ request[r].moved
  BY <1>1, <1>2 DEF IdsKnown, SharesObjects
<1>4. \A q \in Requests \ {r} : <<q, "first">> # request[r].ref /\ <<q, "first">> \in Objects
  BY <1>3 DEF Objects
<1>5. /\ request[r].id \in 1 .. generated /\ request[r].id \in Ids
      /\ request[r].id # NewId /\ request[r].pc = "open"
      /\ object \in [Objects -> SUBSET Keys]
      /\ DataOf(r) = object[request[r].ref] /\ DataOf(r) \subseteq Keys
      /\ generated \in 0 .. MaxIds
      /\ gone \subseteq 1 .. generated /\ cookie \in 0 .. generated
      /\ final \subseteq Keys /\ lost \in BOOLEAN
  BY OpenFacts
<1>6. /\ generated \in Nat /\ MaxIds \in Nat /\ NewId = generated + 1 /\ NewId \notin gone
      /\ CanGenerate => NewId \in 1 .. MaxIds /\ NewId \in Ids
  BY <1>1, IdFacts
<1>. QED
  BY <1>2, <1>3, <1>4, <1>5, <1>6

\* What a call of an open session keeps of the ids it sends nothing about.
LEMMA CallKeeps ==
    ASSUME driver = "redis", NEW r, NEW x, RedisMoves(r, x), NEW n, NEW m, NEW c,
           Shifts(request[r].server, 0, n, m, c), NEW id, \A k \in 1 .. m : ~ Alters(c[k], id)
    PROVE  /\ \A v : WillHold(id, v) => WillHold(id, v)'
           /\ WillBeGone(id) => WillBeGone(id)'
<1>1. Follows(request[r].server, 0, id) /\ driver' = driver
  BY DEF Follows, RedisMoves
<1>2. PICK s : s = request[r].server
  OBVIOUS
<1>. QED
  BY <1>1, <1>2, WillStay

\* One command that a call sends, ...
LEMMA OneSent ==
    ASSUME SessionsAssumption, SessionsInv, driver = "redis", NEW r \in Requests, Open(r),
           NEW x \in Req, RedisMoves(r, x), NEW e \in WireCommand, wire' = Sent(r, <<e>>)
    PROVE  \E n, c :
              /\ Shifts(request[r].server, 0, n, 1, c)
              /\ \A k \in 1 .. 1 : c[k] = e
              /\ wire' \in [WebServers -> Seq(WireCommand)]
              /\ \A id : ~ Alters(e, id) =>
                    /\ \A v : WillHold(id, v) => WillHold(id, v)'
                    /\ WillBeGone(id) => WillBeGone(id)'
              /\ CalmBefore(r) => \A id : Alters(e, id) =>
                    /\ e.op = "set" => \A v : v = e.data => WillHold(id, v)'
                    /\ e.op = "del" => WillBeGone(id)'
<1>1. SessionsTypeOK /\ request[r].server \in WebServers
  BY RedisOpen DEF SessionsInv
<1>2. PICK s \in WebServers : s = request[r].server
  BY <1>1
<1>3. wire' = [wire EXCEPT ![s] = @ \o <<e>>]
  BY <1>2 DEF Sent
<1>4. PICK n \in Nat : Shifts(s, 0, n, 1, <<e>>) /\ wire' \in [WebServers -> Seq(WireCommand)]
  BY <1>1, <1>3, SendOne
<1>5. PICK c : c = <<e>> /\ \A k \in 1 .. 1 : k = 1 /\ c[k] = e
  OBVIOUS
<1>6. Shifts(request[r].server, 0, n, 1, c)
  BY <1>2, <1>4, <1>5
<1>7. ASSUME NEW id, ~ Alters(e, id)
      PROVE  /\ \A v : WillHold(id, v) => WillHold(id, v)'
             /\ WillBeGone(id) => WillBeGone(id)'
  <2>1. \A k \in 1 .. 1 : ~ Alters(c[k], id)
    BY <1>5, <1>7
  <2>. QED
    BY <1>6, <2>1, CallKeeps
<1>8. ASSUME CalmBefore(r), NEW id, Alters(e, id)
      PROVE  /\ e.op = "set" => \A v : v = e.data => WillHold(id, v)'
             /\ e.op = "del" => WillBeGone(id)'
  <2>1. OnlyWire(s)
    BY <1>2, <1>8 DEF CalmBefore, OnlyWire
  <2>2. PICK m, p : m = 1 /\ p = 1 /\ p \in 1 .. m /\ \A k \in 1 .. m : ~ p < k
    OBVIOUS
  <2>3. Alters(c[p], id) /\ c[p] = e
    BY <1>5, <1>8, <2>2
  <2>4. Shifts(s, 0, n, m, c)
    BY <1>4, <1>5, <2>2
  <2>6. LastAbout(m, c, p, id)
    BY <2>2, <2>3 DEF LastAbout
  <2>5. /\ c[p].op = "set" => \A data : data = c[p].data => WillHold(id, data)'
        /\ c[p].op = "del" => WillBeGone(id)'
    BY <2>1, <2>4, <2>6, WillFollow
  <2>. QED
    BY <2>3, <2>5
<1>9. \A k \in 1 .. 1 : c[k] = e
  BY <1>5
<1>. QED
  BY <1>4, <1>6, <1>7, <1>8, <1>9

\* ... and none.
LEMMA NoneSent ==
    ASSUME SessionsAssumption, SessionsInv, driver = "redis", NEW r \in Requests, Open(r),
           NEW x \in Req, RedisMoves(r, x), wire' = wire
    PROVE  \E n, c :
              /\ Shifts(request[r].server, 0, n, 0, c)
              /\ wire' \in [WebServers -> Seq(WireCommand)]
              /\ \A id : /\ \A v : WillHold(id, v) => WillHold(id, v)'
                         /\ WillBeGone(id) => WillBeGone(id)'
<1>1. SessionsTypeOK /\ request[r].server \in WebServers
  BY RedisOpen DEF SessionsInv
<1>2. PICK s \in WebServers : s = request[r].server
  BY <1>1
<1>3. wire \in [WebServers -> Seq(WireCommand)] /\ wire[s] \in Seq(WireCommand)
  BY <1>1, <1>2 DEF SessionsTypeOK
<1>4. PICK n \in Nat : n = Len(wire[s]) /\ DOMAIN wire[s] = 1 .. n
  BY <1>3, LenProperties
<1>5. PICK c : c = <<>>
  OBVIOUS
<1>6. Shifts(s, 0, n, 0, c)
  BY <1>3, <1>4 DEF Shifts
<1>7. Shifts(request[r].server, 0, n, 0, c)
  BY <1>2, <1>6
<1>8. ASSUME NEW id
      PROVE  /\ \A v : WillHold(id, v) => WillHold(id, v)'
             /\ WillBeGone(id) => WillBeGone(id)'
  <2>1. \A k \in 1 .. 0 : ~ Alters(c[k], id)
    OBVIOUS
  <2>. QED
    BY <1>7, <2>1, CallKeeps
<1>. QED
  BY <1>3, <1>7, <1>8

\* set(), remove() and getFlash() of RedisSession.
LEMMA RedisChanged ==
    ASSUME SessionsAssumption, SessionsInv, driver = "redis", NEW r \in Requests, Open(r),
           NEW data \in SUBSET Keys, Changed(r, data)
    PROVE  SessionsInv'
<1>1. /\ object' = [object EXCEPT ![request[r].ref] = data]
      /\ request' = [request EXCEPT ![r].isDirty = TRUE] /\ wire' = wire
      /\ exists' = exists /\ kept' = kept /\ written' = written /\ unexpiring' = unexpiring
      /\ driver' = driver /\ generated' = generated /\ rejections' = rejections
      /\ cookie' = cookie /\ gone' = gone /\ final' = final /\ lost' = lost
      /\ disturbed' = disturbed
  BY DEF Changed, unchangedByCalls, sessionHistory, storage
<1>2. /\ request[r] \in Req /\ request[r].ref \in Objects /\ request[r].ref[1] = r
      /\ ~ request[r].moved
      /\ request[r].id \in 1 .. generated /\ request[r].id \in Ids /\ request[r].pc = "open"
      /\ request \in [Requests -> Req] /\ object \in [Objects -> SUBSET Keys]
      /\ \A q \in Requests \ {r} : <<q, "first">> # request[r].ref
                                   /\ <<q, "first">> \in Objects
      /\ generated \in 0 .. MaxIds /\ generated \in Nat
      /\ gone \subseteq 1 .. generated /\ cookie \in 0 .. generated
      /\ final \subseteq Keys /\ lost \in BOOLEAN
  BY RedisOpen
<1>3. PICK x \in Req :
         /\ request' = [request EXCEPT ![r] = x] /\ x.pc = "open" /\ x.id = request[r].id
         /\ x.ref = request[r].ref /\ ~ x.moved /\ x.isDirty /\ x.server = request[r].server
  <2>1. PICK x : x = [request[r] EXCEPT !.isDirty = TRUE]
    OBVIOUS
  <2>2. /\ x \in Req /\ x.pc = "open" /\ x.id = request[r].id /\ x.ref = request[r].ref
        /\ ~ x.moved /\ x.isDirty /\ x.server = request[r].server
        /\ request' = [request EXCEPT ![r] = x]
    BY <1>1, <1>2, <2>1 DEF Req
  <2>. QED
    BY <2>2
<1>4. RedisMoves(r, x)
  BY <1>1, <1>3 DEF RedisMoves
<1>5. PICK n, c :
              /\ Shifts(request[r].server, 0, n, 0, c)
              /\ wire' \in [WebServers -> Seq(WireCommand)]
              /\ \A id : /\ \A v : WillHold(id, v) => WillHold(id, v)'
                         /\ WillBeGone(id) => WillBeGone(id)'
  BY <1>1, <1>4, NoneSent
<1>6. RedisTypes
  <2>1. object' \in [Objects -> SUBSET Keys] /\ generated <= generated'
    BY <1>1, <1>2
  <2>. QED
    BY <1>1, <1>2, <1>5, <2>1 DEF RedisTypes
<1>7. RedisOwns(r, x)
  BY <1>1, <1>2, <1>3 DEF RedisOwns
<1>8. RedisSends(r, x, n, 0, c)
  BY <1>5 DEF RedisSends
<1>9. CalmBefore(r) => CalmAfter(r, x, 0, c)
  <2>1. ASSUME CalmBefore(r)
        PROVE  (\A id \in gone : WillBeGone(id))' /\ x.id \notin gone'
    BY <1>1, <1>3, <1>5, <2>1 DEF CalmBefore
  <2>. QED
    BY <1>3, <2>1 DEF CalmAfter
<1>. QED
  BY <1>4, <1>6, <1>7, <1>8, <1>9, RedisCall


\* save() of RedisSession.
LEMMA RedisSave ==
    ASSUME SessionsAssumption, SessionsInv, driver = "redis", NEW r \in Requests, save(r)
    PROVE  SessionsInv'
<1>1. /\ Open(r) /\ wire' = Sent(r, <<Cmd("set", request[r].id, DataOf(r), r, FALSE)>>)
      /\ exists' = exists /\ kept' = kept /\ written' = written /\ unexpiring' = unexpiring
      /\ request' = [request EXCEPT ![r].isDirty = FALSE, ![r].moved = FALSE]
      /\ object' = object /\ driver' = driver /\ generated' = generated
      /\ rejections' = rejections /\ cookie' = cookie /\ gone' = gone /\ final' = final
      /\ lost' = lost /\ disturbed' = disturbed
  BY DEF save, unchangedByCalls, sessionHistory, SaveAs, SaveRedis, storage
<1>2. /\ request[r] \in Req /\ request[r].ref \in Objects /\ request[r].ref[1] = r
      /\ ~ request[r].moved /\ request[r].server \in WebServers
      /\ request[r].id \in 1 .. generated /\ request[r].id \in Ids
      /\ request[r].id # NewId /\ request[r].pc = "open"
      /\ request \in [Requests -> Req] /\ object \in [Objects -> SUBSET Keys]
      /\ DataOf(r) = object[request[r].ref] /\ DataOf(r) \subseteq Keys
      /\ \A q \in Requests \ {r} : <<q, "first">> # request[r].ref
                                   /\ <<q, "first">> \in Objects
      /\ generated \in 0 .. MaxIds /\ generated \in Nat /\ MaxIds \in Nat
      /\ NewId = generated + 1 /\ (CanGenerate => NewId \in 1 .. MaxIds /\ NewId \in Ids)
      /\ NewId \notin gone
      /\ gone \subseteq 1 .. generated /\ cookie \in 0 .. generated
      /\ final \subseteq Keys /\ lost \in BOOLEAN
  BY <1>1, RedisOpen
<1>3. PICK x \in Req :
         /\ request' = [request EXCEPT ![r] = x] /\ x.pc = "open" /\ x.id = request[r].id
         /\ x.ref = request[r].ref /\ ~ x.moved /\ x.server = request[r].server
  <2>1. PICK x : x = [request[r] EXCEPT !.isDirty = FALSE, !.moved = FALSE]
    OBVIOUS
  <2>2. /\ x \in Req /\ x.pc = "open" /\ x.id = request[r].id /\ x.ref = request[r].ref
        /\ ~ x.moved /\ x.server = request[r].server
        /\ request' = [request EXCEPT ![r] = x]
    BY <1>1, <1>2, <2>1 DEF Req
  <2>. QED
    BY <2>2
<1>4. PICK e \in WireCommand :
         /\ wire' = Sent(r, <<e>>) /\ e.op = "set" /\ e.id = request[r].id
         /\ e.data = DataOf(r) /\ ~ e.awaited
  <2>1. PICK e : e = Cmd("set", request[r].id, DataOf(r), r, FALSE)
    OBVIOUS
  <2>2. /\ e \in WireCommand /\ e.op = "set" /\ e.id = request[r].id
        /\ e.data = DataOf(r) /\ ~ e.awaited
    BY <1>2, <2>1 DEF Cmd, WireCommand
  <2>. QED
    BY <1>1, <2>1, <2>2
<1>5. RedisMoves(r, x)
  BY <1>1, <1>3 DEF RedisMoves
<1>6. PICK n, c :
              /\ Shifts(request[r].server, 0, n, 1, c)
              /\ \A k \in 1 .. 1 : c[k] = e
              /\ wire' \in [WebServers -> Seq(WireCommand)]
              /\ \A id : ~ Alters(e, id) =>
                    /\ \A v : WillHold(id, v) => WillHold(id, v)'
                    /\ WillBeGone(id) => WillBeGone(id)'
              /\ CalmBefore(r) => \A id : Alters(e, id) =>
                    /\ e.op = "set" => \A v : v = e.data => WillHold(id, v)'
                    /\ e.op = "del" => WillBeGone(id)'
  BY <1>1, <1>4, <1>5, OneSent
<1>7. RedisTypes
  <2>1. generated <= generated'
    BY <1>1, <1>2
  <2>. QED
    BY <1>1, <1>2, <1>6, <2>1 DEF RedisTypes
<1>8. RedisOwns(r, x)
  BY <1>1, <1>2, <1>3 DEF RedisOwns
<1>9. RedisSends(r, x, n, 1, c)
  BY <1>1, <1>2, <1>4, <1>6 DEF RedisSends
<1>10. ASSUME CalmBefore(r)
       PROVE  CalmAfter(r, x, 1, c)
  <2>1. \A id : Alters(e, id) <=> id = request[r].id
    BY <1>4 DEF Alters
  <2>2. /\ request[r].id \notin gone /\ \A id \in gone : WillBeGone(id)
    BY <1>10 DEF CalmBefore
  <2>3. (\A id \in gone : WillBeGone(id))'
    BY <1>1, <1>6, <2>1, <2>2
  <2>4. ASSUME NEW v, v = object'[x.ref]
        PROVE  WillHold(x.id, v)'
    <3>1. v = e.data /\ Alters(e, x.id)
      BY <1>1, <1>2, <1>3, <1>4, <2>1, <2>4
    <3>. QED
      BY <1>4, <1>6, <1>10, <3>1
  <2>5. \A k \in 1 .. 1 : ~ c[k].awaited
    BY <1>4, <1>6
  <2>. QED
    BY <1>1, <1>3, <2>2, <2>3, <2>4, <2>5 DEF CalmAfter
<1>. QED
  BY <1>1, <1>5, <1>7, <1>8, <1>9, <1>10, RedisCall

\* destroy() of RedisSession.
LEMMA RedisDestroy ==
    ASSUME SessionsAssumption, SessionsInv, driver = "redis", NEW r \in Requests, destroy(r)
    PROVE  SessionsInv'
<1>1. /\ Open(r) /\ CanGenerate
      /\ wire' = Sent(r, <<Cmd("del", request[r].id, {}, r, FALSE)>>)
      /\ exists' = exists /\ kept' = kept /\ written' = written /\ unexpiring' = unexpiring
      /\ object' = [object EXCEPT ![<<r, "second">>] = {}]
      /\ request' = [request EXCEPT ![r].ref = <<r, "second">>, ![r].id = NewId,
                        ![r].isDirty = FALSE, ![r].pc = "open", ![r].moved = FALSE,
                        ![r].found = FALSE]
      /\ generated' = NewId /\ gone' = gone \cup {request[r].id}
      /\ driver' = driver /\ rejections' = rejections /\ cookie' = cookie
      /\ final' = final /\ lost' = lost /\ disturbed' = disturbed
  BY DEF destroy, Deleted, Emptied, sessionHistory, storage
<1>2. /\ request[r] \in Req /\ request[r].ref \in Objects /\ request[r].ref[1] = r
      /\ ~ request[r].moved /\ request[r].server \in WebServers
      /\ request[r].id \in 1 .. generated /\ request[r].id \in Ids
      /\ request[r].id # NewId /\ request[r].pc = "open"
      /\ request \in [Requests -> Req] /\ object \in [Objects -> SUBSET Keys]
      /\ DataOf(r) = object[request[r].ref] /\ DataOf(r) \subseteq Keys
      /\ \A q \in Requests \ {r} : <<q, "first">> # request[r].ref
                                   /\ <<q, "first">> \in Objects
      /\ generated \in 0 .. MaxIds /\ generated \in Nat /\ MaxIds \in Nat
      /\ NewId = generated + 1 /\ (CanGenerate => NewId \in 1 .. MaxIds /\ NewId \in Ids)
      /\ NewId \notin gone
      /\ gone \subseteq 1 .. generated /\ cookie \in 0 .. generated
      /\ final \subseteq Keys /\ lost \in BOOLEAN
  BY <1>1, RedisOpen
<1>3. /\ NewId \in 1 .. MaxIds /\ <<r, "second">> \in Objects /\ <<r, "second">>[1] = r
      /\ \A q \in Requests : <<q, "first">> # <<r, "second">>
  BY <1>1, <1>2 DEF Objects
<1>4. PICK x \in Req :
         /\ request' = [request EXCEPT ![r] = x] /\ x.pc = "open" /\ x.id = NewId
         /\ x.ref = <<r, "second">> /\ ~ x.moved /\ x.server = request[r].server
  <2>1. PICK x : x = [request[r] EXCEPT !.ref = <<r, "second">>, !.id = NewId,
                        !.isDirty = FALSE, !.pc = "open", !.moved = FALSE, !.found = FALSE]
    OBVIOUS
  <2>2. /\ x \in Req /\ x.pc = "open" /\ x.id = NewId /\ x.ref = <<r, "second">>
        /\ ~ x.moved /\ x.server = request[r].server /\ request' = [request EXCEPT ![r] = x]
    BY <1>1, <1>2, <1>3, <2>1 DEF Req
  <2>. QED
    BY <2>2
<1>5. PICK e \in WireCommand :
         /\ wire' = Sent(r, <<e>>) /\ e.op = "del" /\ e.id = request[r].id /\ ~ e.awaited
  <2>1. PICK e : e = Cmd("del", request[r].id, {}, r, FALSE)
    OBVIOUS
  <2>2. /\ e \in WireCommand /\ e.op = "del" /\ e.id = request[r].id /\ ~ e.awaited
    BY <1>2, <2>1 DEF Cmd, WireCommand
  <2>. QED
    BY <1>1, <2>1, <2>2
<1>6. RedisMoves(r, x)
  BY <1>1, <1>4 DEF RedisMoves
<1>7. PICK n, c :
              /\ Shifts(request[r].server, 0, n, 1, c)
              /\ \A k \in 1 .. 1 : c[k] = e
              /\ wire' \in [WebServers -> Seq(WireCommand)]
              /\ \A id : ~ Alters(e, id) =>
                    /\ \A v : WillHold(id, v) => WillHold(id, v)'
                    /\ WillBeGone(id) => WillBeGone(id)'
              /\ CalmBefore(r) => \A id : Alters(e, id) =>
                    /\ e.op = "set" => \A v : v = e.data => WillHold(id, v)'
                    /\ e.op = "del" => WillBeGone(id)'
  BY <1>1, <1>5, <1>6, OneSent
<1>8. RedisTypes
  <2>1. /\ generated <= generated' /\ generated' \in 0 .. MaxIds
        /\ gone' \subseteq 1 .. generated' /\ cookie' \in 0 .. generated'
    BY <1>1, <1>2, <1>3
  <2>2. object' \in [Objects -> SUBSET Keys]
    BY <1>1, <1>2
  <2>. QED
    BY <1>1, <1>2, <1>7, <2>1, <2>2 DEF RedisTypes
<1>9. RedisOwns(r, x)
  BY <1>1, <1>2, <1>3, <1>4 DEF RedisOwns
<1>10. RedisSends(r, x, n, 1, c)
  BY <1>1, <1>2, <1>5, <1>7 DEF RedisSends
<1>11. ASSUME CalmBefore(r)
       PROVE  CalmAfter(r, x, 1, c)
  <2>1. \A id : Alters(e, id) <=> id = request[r].id
    BY <1>5 DEF Alters
  <2>2. /\ request[r].id \notin gone /\ \A id \in gone : WillBeGone(id)
        /\ WillHold(NewId, {})
    BY <1>11 DEF CalmBefore
  <2>3. ASSUME NEW id \in gone'
        PROVE  WillBeGone(id)'
    <3>1. CASE id = request[r].id
      BY <1>5, <1>7, <1>11, <2>1, <3>1
    <3>2. CASE id # request[r].id
      BY <1>1, <1>7, <2>1, <2>2, <2>3, <3>2
    <3>. QED
      BY <3>1, <3>2
  <2>4. ASSUME NEW v, v = object'[x.ref]
        PROVE  WillHold(x.id, v)'
    <3>1. v = {} /\ ~ Alters(e, x.id)
      BY <1>1, <1>2, <1>3, <1>4, <2>1, <2>4
    <3>2. WillHold(x.id, v)
      BY <1>4, <2>2, <3>1
    <3>. QED
      BY <1>7, <3>1, <3>2
  <2>5. \A k \in 1 .. 1 : ~ c[k].awaited
    BY <1>5, <1>7
  <2>6. x.id \notin gone'
    BY <1>1, <1>2, <1>4
  <2>. QED
    BY <1>1, <1>4, <2>3, <2>4, <2>5, <2>6 DEF CalmAfter
<1>. QED
  BY <1>1, <1>6, <1>8, <1>9, <1>10, <1>11, RedisCall

\* destroyAsync() of RedisSession.
LEMMA RedisDestroyAsync ==
    ASSUME SessionsAssumption, SessionsInv, driver = "redis", NEW r \in Requests,
           destroyAsync(r)
    PROVE  SessionsInv'
<1>1. /\ Open(r) /\ driver = "redis"
      /\ wire' = Sent(r, <<Cmd("del", request[r].id, {}, r, TRUE)>>)
      /\ request' = [request EXCEPT ![r].pc = "waiting"]
      /\ exists' = exists /\ kept' = kept /\ written' = written /\ unexpiring' = unexpiring
      /\ object' = object /\ driver' = driver /\ generated' = generated
      /\ rejections' = rejections /\ cookie' = cookie /\ gone' = gone /\ final' = final
      /\ lost' = lost /\ disturbed' = disturbed
  BY DEF destroyAsync, unchangedByCalls, sessionHistory, storage
<1>2. /\ request[r] \in Req /\ request[r].ref \in Objects /\ request[r].ref[1] = r
      /\ ~ request[r].moved /\ request[r].server \in WebServers
      /\ request[r].id \in 1 .. generated /\ request[r].id \in Ids
      /\ request[r].id # NewId /\ request[r].pc = "open"
      /\ request \in [Requests -> Req] /\ object \in [Objects -> SUBSET Keys]
      /\ DataOf(r) = object[request[r].ref] /\ DataOf(r) \subseteq Keys
      /\ \A q \in Requests \ {r} : <<q, "first">> # request[r].ref
                                   /\ <<q, "first">> \in Objects
      /\ generated \in 0 .. MaxIds /\ generated \in Nat /\ MaxIds \in Nat
      /\ NewId = generated + 1 /\ (CanGenerate => NewId \in 1 .. MaxIds /\ NewId \in Ids)
      /\ NewId \notin gone
      /\ gone \subseteq 1 .. generated /\ cookie \in 0 .. generated
      /\ final \subseteq Keys /\ lost \in BOOLEAN
  BY <1>1, RedisOpen
<1>3. PICK x \in Req :
         /\ request' = [request EXCEPT ![r] = x] /\ x.pc = "waiting" /\ x.id = request[r].id
         /\ x.ref = request[r].ref /\ ~ x.moved /\ x.server = request[r].server
  <2>1. PICK x : x = [request[r] EXCEPT !.pc = "waiting"]
    OBVIOUS
  <2>2. /\ x \in Req /\ x.pc = "waiting" /\ x.id = request[r].id /\ x.ref = request[r].ref
        /\ ~ x.moved /\ x.server = request[r].server
        /\ request' = [request EXCEPT ![r] = x]
    BY <1>1, <1>2, <2>1 DEF Req
  <2>. QED
    BY <2>2
<1>4. PICK e \in WireCommand :
         /\ wire' = Sent(r, <<e>>) /\ e.op = "del" /\ e.id = request[r].id /\ e.from = r
  <2>1. PICK e : e = Cmd("del", request[r].id, {}, r, TRUE)
    OBVIOUS
  <2>2. /\ e \in WireCommand /\ e.op = "del" /\ e.id = request[r].id /\ e.from = r
    BY <1>2, <2>1 DEF Cmd, WireCommand
  <2>. QED
    BY <1>1, <2>1, <2>2
<1>5. RedisMoves(r, x)
  BY <1>1, <1>3 DEF RedisMoves
<1>6. PICK n, c :
              /\ Shifts(request[r].server, 0, n, 1, c)
              /\ \A k \in 1 .. 1 : c[k] = e
              /\ wire' \in [WebServers -> Seq(WireCommand)]
              /\ \A id : ~ Alters(e, id) =>
                    /\ \A v : WillHold(id, v) => WillHold(id, v)'
                    /\ WillBeGone(id) => WillBeGone(id)'
              /\ CalmBefore(r) => \A id : Alters(e, id) =>
                    /\ e.op = "set" => \A v : v = e.data => WillHold(id, v)'
                    /\ e.op = "del" => WillBeGone(id)'
  <2>1. Open(r) /\ wire' = Sent(r, <<e>>)
    BY <1>1, <1>4
  <2>. QED
    BY <1>5, <2>1, OneSent
<1>7. RedisTypes
  <2>1. generated <= generated'
    BY <1>1, <1>2
  <2>. QED
    BY <1>1, <1>2, <1>6, <2>1 DEF RedisTypes
<1>8. RedisOwns(r, x)
  BY <1>1, <1>2, <1>3 DEF RedisOwns
<1>9. RedisSends(r, x, n, 1, c)
  BY <1>1, <1>2, <1>3, <1>4, <1>6 DEF RedisSends
<1>10. ASSUME CalmBefore(r)
       PROVE  CalmAfter(r, x, 1, c)
  <2>1. \A id : Alters(e, id) <=> id = request[r].id
    BY <1>4 DEF Alters
  <2>2. /\ request[r].id \notin gone /\ \A id \in gone : WillBeGone(id)
    BY <1>10 DEF CalmBefore
  <2>3. (\A id \in gone : WillBeGone(id))'
    BY <1>1, <1>6, <2>1, <2>2
  <2>4. \A k \in 1 .. 1 : c[k].id = x.id /\ c[k].op = "del"
    BY <1>3, <1>4, <1>6
  <2>. QED
    BY <1>1, <1>3, <2>2, <2>3, <2>4 DEF CalmAfter
<1>. QED
  BY <1>1, <1>5, <1>7, <1>8, <1>9, <1>10, RedisCall


\* regenerateId() of RedisSession.
LEMMA RedisRegenerate ==
    ASSUME SessionsAssumption, SessionsInv, driver = "redis", NEW r \in Requests, regenerateId(r)
    PROVE  SessionsInv'
<1>1. /\ Open(r) /\ CanGenerate
      /\ wire' = Sent(r, <<Cmd("del", request[r].id, {}, r, FALSE),
                           Cmd("set", NewId, DataOf(r), r, FALSE)>>)
      /\ exists' = exists /\ kept' = kept /\ written' = written /\ unexpiring' = unexpiring
      /\ request' = [request EXCEPT ![r].id = NewId, ![r].isDirty = FALSE, ![r].moved = FALSE]
      /\ generated' = NewId /\ gone' = gone \cup {request[r].id} /\ object' = object
      /\ driver' = driver /\ rejections' = rejections /\ cookie' = cookie
      /\ final' = final /\ lost' = lost /\ disturbed' = disturbed
  <2>1. MovesAlways /\ ~ SharesObjects /\ driver # "file"
    BY DEF MovesAlways, SharesObjects
  <2>2. exists' = exists \cup {}
    BY DEF regenerateId
  <2>. QED
    BY <2>1, <2>2 DEF regenerateId, sessionHistory
<1>2. /\ request[r] \in Req /\ request[r].ref \in Objects /\ request[r].ref[1] = r
      /\ ~ request[r].moved /\ request[r].server \in WebServers
      /\ request[r].id \in 1 .. generated /\ request[r].id \in Ids
      /\ request[r].id # NewId /\ request[r].pc = "open"
      /\ request \in [Requests -> Req] /\ object \in [Objects -> SUBSET Keys]
      /\ DataOf(r) = object[request[r].ref] /\ DataOf(r) \subseteq Keys
      /\ \A q \in Requests \ {r} : <<q, "first">> # request[r].ref
                                   /\ <<q, "first">> \in Objects
      /\ generated \in 0 .. MaxIds /\ generated \in Nat /\ MaxIds \in Nat
      /\ NewId = generated + 1 /\ (CanGenerate => NewId \in 1 .. MaxIds /\ NewId \in Ids)
      /\ NewId \notin gone
      /\ gone \subseteq 1 .. generated /\ cookie \in 0 .. generated
      /\ final \subseteq Keys /\ lost \in BOOLEAN
  BY <1>1, RedisOpen
<1>3. NewId \in 1 .. MaxIds /\ NewId \in Ids
  BY <1>1, <1>2
<1>4. PICK x \in Req :
         /\ request' = [request EXCEPT ![r] = x] /\ x.pc = "open" /\ x.id = NewId
         /\ x.ref = request[r].ref /\ ~ x.moved /\ x.server = request[r].server
  <2>1. PICK x : x = [request[r] EXCEPT !.id = NewId, !.isDirty = FALSE, !.moved = FALSE]
    OBVIOUS
  <2>2. request' = [request EXCEPT ![r] = x]
    BY <1>1, <2>1
  <2>3. NewId \in 0 .. MaxIds
    BY <1>2, <1>3
  <2>4. /\ x \in Req /\ x.pc = "open" /\ x.id = NewId /\ x.ref = request[r].ref
        /\ ~ x.moved /\ x.server = request[r].server
    BY <1>2, <2>1, <2>3 DEF Req
  <2>. QED
    BY <2>2, <2>4
<1>5. PICK d \in WireCommand, e \in WireCommand :
         /\ wire' = Sent(r, <<d, e>>)
         /\ d.op = "del" /\ d.id = request[r].id /\ ~ d.awaited
         /\ e.op = "set" /\ e.id = NewId /\ e.data = DataOf(r) /\ ~ e.awaited
  <2>1. PICK d, e : d = Cmd("del", request[r].id, {}, r, FALSE)
                    /\ e = Cmd("set", NewId, DataOf(r), r, FALSE)
    OBVIOUS
  <2>2. d \in WireCommand /\ d.op = "del" /\ d.id = request[r].id /\ ~ d.awaited
    BY <1>2, <2>1 DEF Cmd, WireCommand
  <2>3. e \in WireCommand /\ e.op = "set" /\ e.id = NewId /\ e.data = DataOf(r) /\ ~ e.awaited
    BY <1>2, <1>3, <2>1 DEF Cmd, WireCommand
  <2>. QED
    BY <1>1, <2>1, <2>2, <2>3
<1>6. RedisMoves(r, x)
  BY <1>1, <1>4 DEF RedisMoves
<1>7. PICK c, m : c = <<d, e>> /\ m = 2
  OBVIOUS
<1>8. /\ c \in Seq(WireCommand) /\ Len(c) = m /\ c[1] = d /\ c[2] = e /\ 1 \in 1 .. m
      /\ 2 \in 1 .. m /\ \A k \in 1 .. m : k = 1 \/ k = 2
  BY <1>7
<1>9. PICK n \in Nat : /\ Shifts(request[r].server, 0, n, m, c)
                       /\ wire' \in [WebServers -> Seq(WireCommand)]
  <2>1. PICK s \in WebServers : s = request[r].server
    BY <1>2
  <2>2. wire' = [wire EXCEPT ![s] = @ \o c] /\ SessionsTypeOK
    BY <1>5, <1>7, <2>1 DEF Sent, SessionsInv
  <2>3. /\ wire' \in [WebServers -> Seq(WireCommand)]
        /\ \E n \in Nat : Shifts(s, 0, n, Len(c), c)
    BY <1>8, <2>2, SendForm
  <2>. QED
    BY <1>8, <2>1, <2>3
<1>10. RedisTypes
  <2>1. /\ generated <= generated' /\ generated' \in 0 .. MaxIds
        /\ gone' \subseteq 1 .. generated' /\ cookie' \in 0 .. generated'
    BY <1>1, <1>2, <1>3
  <2>. QED
    BY <1>1, <1>2, <1>9, <2>1 DEF RedisTypes
<1>11. RedisOwns(r, x)
  BY <1>1, <1>2, <1>3, <1>4 DEF RedisOwns
<1>12. RedisSends(r, x, n, m, c)
  <2>1. /\ request[r].id \in 1 .. generated' /\ NewId \in 1 .. generated'
    BY <1>1, <1>2, <1>3
  <2>. QED
    BY <1>5, <1>8, <1>9, <2>1 DEF RedisSends
<1>13. ASSUME CalmBefore(r)
       PROVE  CalmAfter(r, x, m, c)
  <2>1. \A id : /\ Alters(d, id) <=> id = request[r].id
                /\ Alters(e, id) <=> id = NewId
    BY <1>5 DEF Alters
  <2>2. /\ request[r].id \notin gone /\ \A id \in gone : WillBeGone(id)
        /\ OnlyWire(request[r].server)
    BY <1>13 DEF CalmBefore, OnlyWire
  <2>3. ASSUME NEW id \in gone'
        PROVE  WillBeGone(id)'
    <3>1. CASE id = request[r].id
      <4>1. PICK p : p = 1
        OBVIOUS
      <4>2. LastAbout(m, c, p, id) /\ c[p].op = "del"
        BY <1>2, <1>5, <1>8, <2>1, <3>1, <4>1 DEF LastAbout
      <4>. QED
        BY <1>9, <2>2, <4>2, WillFollow
    <3>2. CASE id # request[r].id
      <4>1. id \in gone /\ \A k \in 1 .. m : ~ Alters(c[k], id)
        BY <1>1, <1>2, <1>8, <2>1, <2>3, <3>2
      <4>. QED
        BY <1>6, <1>9, <2>2, <4>1, CallKeeps
    <3>. QED
      BY <3>1, <3>2
  <2>4. ASSUME NEW v, v = object'[x.ref]
        PROVE  WillHold(x.id, v)'
    <3>1. PICK p, id : p = 2 /\ id = x.id
      OBVIOUS
    <3>2. LastAbout(m, c, p, id) /\ c[p].op = "set"
      BY <1>4, <1>5, <1>8, <2>1, <3>1 DEF LastAbout
    <3>3. v = c[p].data
      BY <1>1, <1>2, <1>4, <1>5, <1>8, <2>4, <3>1
    <3>. QED
      BY <1>9, <2>2, <3>1, <3>2, <3>3, WillFollow
  <2>5. \A k \in 1 .. m : ~ c[k].awaited
    BY <1>5, <1>8
  <2>6. x.id \notin gone'
    BY <1>1, <1>2, <1>4
  <2>. QED
    BY <1>1, <1>4, <2>3, <2>4, <2>5, <2>6 DEF CalmAfter
<1>. QED
  BY <1>1, <1>6, <1>10, <1>11, <1>12, <1>13, RedisCall

\* The request without its session.
LEMMA DoneFacts ==
    ASSUME SessionsAssumption, SessionsInv, NEW r \in Requests
    PROVE  WithoutSession(r, "done") \in Req /\ WithoutSession(r, "done").pc = "done"
<1>1. (CHOOSE s \in WebServers : TRUE) \in WebServers
  BY DEF SessionsAssumption
<1>2. 0 \in 0 .. MaxIds
  BY DEF SessionsAssumption
<1>3. <<r, "first">> \in Objects
  BY DEF Objects
<1>. QED
  BY <1>1, <1>2, <1>3 DEF WithoutSession, Req

\* The answer of a request: the cookie and what the session ended with.
LEMMA SessionAnswered ==
    ASSUME SessionsAssumption, SessionsInv, driver = "redis", NEW r \in Requests, Open(r),
           Answered(r)
    PROVE  /\ cookie' = request[r].id /\ final' = DataOf(r) /\ final' \subseteq Keys
           /\ lost' \in BOOLEAN /\ cookie' \in 1 .. generated
           /\ object' \in [Objects -> SUBSET Keys]
           /\ \A q \in Requests \ {r} : object'[<<q, "first">>] = object[<<q, "first">>]
           /\ \E x \in Req : request' = [request EXCEPT ![r] = x] /\ x.pc = "done"
<1>1. /\ cookie' = request[r].id /\ final' = DataOf(r)
      /\ request' = [request EXCEPT ![r] = WithoutSession(r, "done")]
      /\ lost' = (lost \/ (request[r].moved /\ ~ request[r].isDirty /\ DataOf(r) # {}))
      /\ object' = [o \in Objects |-> IF o[1] = r THEN {} ELSE object[o]]
  BY DEF Answered, SharesObjects
<1>2. /\ request[r].id \in 1 .. generated /\ DataOf(r) \subseteq Keys
      /\ object \in [Objects -> SUBSET Keys]
  BY RedisOpen
<1>3. /\ object' \in [Objects -> SUBSET Keys]
      /\ \A q \in Requests \ {r} : object'[<<q, "first">>] = object[<<q, "first">>]
  BY <1>1, <1>2 DEF Objects
<1>4. lost' \in BOOLEAN
  BY <1>1
<1>5. \E x \in Req : request' = [request EXCEPT ![r] = x] /\ x.pc = "done"
  BY <1>1, DoneFacts
<1>. QED
  BY <1>1, <1>2, <1>3, <1>4, <1>5

\* An answer that sends nothing, or one command that saves and is not awaited.
LEMMA RedisAnswers ==
    ASSUME SessionsAssumption, SessionsInv, driver = "redis", NEW r \in Requests, Open(r),
           Answered(r), driver' = driver, exists' = exists, kept' = kept, written' = written,
           unexpiring' = unexpiring, rejections' = rejections, disturbed' = disturbed,
           generated' = generated, gone' = gone,
           \/ wire' = wire /\ ~ request[r].isDirty
           \/ wire' = Sent(r, <<Cmd("set", request[r].id, DataOf(r), r, FALSE)>>)
    PROVE  SessionsInv'
<1>2. /\ request[r] \in Req /\ request[r].ref \in Objects /\ request[r].ref[1] = r
      /\ ~ request[r].moved /\ request[r].server \in WebServers
      /\ request[r].id \in 1 .. generated /\ request[r].id \in Ids
      /\ request[r].id # NewId /\ request[r].pc = "open"
      /\ request \in [Requests -> Req] /\ object \in [Objects -> SUBSET Keys]
      /\ DataOf(r) = object[request[r].ref] /\ DataOf(r) \subseteq Keys
      /\ \A q \in Requests \ {r} : <<q, "first">> # request[r].ref
                                   /\ <<q, "first">> \in Objects
      /\ generated \in 0 .. MaxIds /\ generated \in Nat /\ MaxIds \in Nat
      /\ NewId = generated + 1 /\ (CanGenerate => NewId \in 1 .. MaxIds /\ NewId \in Ids)
      /\ NewId \notin gone
      /\ gone \subseteq 1 .. generated /\ cookie \in 0 .. generated
      /\ final \subseteq Keys /\ lost \in BOOLEAN
  BY RedisOpen
<1>3. /\ cookie' = request[r].id /\ final' = DataOf(r) /\ final' \subseteq Keys
      /\ lost' \in BOOLEAN /\ cookie' \in 1 .. generated
      /\ object' \in [Objects -> SUBSET Keys]
      /\ \A q \in Requests \ {r} : object'[<<q, "first">>] = object[<<q, "first">>]
  BY SessionAnswered
<1>4. PICK x \in Req : request' = [request EXCEPT ![r] = x] /\ x.pc = "done"
  BY SessionAnswered
<1>5. RedisMoves(r, x)
  BY <1>4 DEF RedisMoves
<1>6. RedisOwns(r, x)
  BY <1>3, <1>4 DEF RedisOwns
<1>7. ASSUME wire' \in [WebServers -> Seq(WireCommand)]
      PROVE  RedisTypes
  <2>1. generated <= generated' /\ cookie' \in 0 .. generated'
    BY <1>2, <1>3
  <2>. QED
    BY <1>2, <1>3, <1>7, <2>1 DEF RedisTypes
<1>8. PICK id, v : id = cookie' /\ v = final'
  OBVIOUS
<1>9. WillHold(id, v)' => WillHold(cookie, final)'
  BY <1>8 DEF WillHold, Pending, Decides, Stored
<1>10. CASE wire' = wire /\ ~ request[r].isDirty
  <2>1. PICK n, c :
              /\ Shifts(request[r].server, 0, n, 0, c)
              /\ wire' \in [WebServers -> Seq(WireCommand)]
              /\ \A k : /\ \A w : WillHold(k, w) => WillHold(k, w)'
                        /\ WillBeGone(k) => WillBeGone(k)'
    BY <1>5, <1>10, NoneSent
  <2>2. RedisSends(r, x, n, 0, c)
    BY <2>1 DEF RedisSends
  <2>3. ASSUME CalmBefore(r)
        PROVE  CalmAfter(r, x, 0, c)
    <3>1. /\ request[r].id \notin gone /\ \A k \in gone : WillBeGone(k)
          /\ WillHold(request[r].id, DataOf(r))
      BY <1>10, <2>3 DEF CalmBefore
    <3>2. (\A k \in gone : WillBeGone(k))'
      BY <2>1, <3>1
    <3>3. WillHold(id, v)
      BY <1>3, <1>8, <3>1
    <3>4. WillHold(cookie, final)'
      BY <1>9, <2>1, <3>3
    <3>. QED
      BY <1>3, <1>4, <3>1, <3>2, <3>4 DEF CalmAfter
  <2>4. RedisTypes
    BY <1>7, <2>1
  <2>. QED
    BY <1>5, <1>6, <2>2, <2>3, <2>4, RedisCall
<1>11. CASE wire' = Sent(r, <<Cmd("set", request[r].id, DataOf(r), r, FALSE)>>)
  <2>1. PICK e \in WireCommand :
           /\ wire' = Sent(r, <<e>>) /\ e.op = "set" /\ e.id = request[r].id
           /\ e.data = DataOf(r) /\ ~ e.awaited
    <3>1. PICK e : e = Cmd("set", request[r].id, DataOf(r), r, FALSE)
      OBVIOUS
    <3>2. /\ e \in WireCommand /\ e.op = "set" /\ e.id = request[r].id
          /\ e.data = DataOf(r) /\ ~ e.awaited
      BY <1>2, <3>1 DEF Cmd, WireCommand
    <3>. QED
      BY <1>11, <3>1, <3>2
  <2>2. wire' = Sent(r, <<e>>)
    BY <2>1
  <2>3. PICK n, c :
              /\ Shifts(request[r].server, 0, n, 1, c)
              /\ \A k \in 1 .. 1 : c[k] = e
              /\ wire' \in [WebServers -> Seq(WireCommand)]
              /\ \A k : ~ Alters(e, k) =>
                    /\ \A u : WillHold(k, u) => WillHold(k, u)'
                    /\ WillBeGone(k) => WillBeGone(k)'
              /\ CalmBefore(r) => \A k : Alters(e, k) =>
                    /\ e.op = "set" => \A u : u = e.data => WillHold(k, u)'
                    /\ e.op = "del" => WillBeGone(k)'
    BY <1>5, <2>2, OneSent
  <2>4. RedisSends(r, x, n, 1, c)
    BY <1>2, <2>1, <2>3 DEF RedisSends
  <2>5. ASSUME CalmBefore(r)
        PROVE  CalmAfter(r, x, 1, c)
    <3>1. \A k : Alters(e, k) <=> k = request[r].id
      BY <2>1 DEF Alters
    <3>2. /\ request[r].id \notin gone /\ \A k \in gone : WillBeGone(k)
      BY <2>5 DEF CalmBefore
    <3>3. (\A k \in gone : WillBeGone(k))'
      BY <2>3, <3>1, <3>2
    <3>4. v = e.data /\ Alters(e, id)
      BY <1>3, <1>8, <2>1, <3>1
    <3>5. WillHold(cookie, final)'
      BY <1>9, <2>1, <2>3, <2>5, <3>4
    <3>6. \A k \in 1 .. 1 : ~ c[k].awaited
      BY <2>1, <2>3
    <3>. QED
      BY <1>3, <1>4, <3>2, <3>3, <3>5, <3>6 DEF CalmAfter
  <2>6. RedisTypes
    BY <1>7, <2>3
  <2>. QED
    BY <1>5, <1>6, <2>4, <2>5, <2>6, RedisCall
<1>. QED
  BY <1>10, <1>11

\* getCookieHeader() of RedisSession.
LEMMA RedisCookie ==
    ASSUME SessionsAssumption, SessionsInv, driver = "redis", NEW r \in Requests,
           getCookieHeader(r)
    PROVE  SessionsInv'
<1>1. /\ Open(r) /\ Answered(r) /\ driver' = driver /\ rejections' = rejections
      /\ disturbed' = disturbed /\ generated' = generated /\ gone' = gone
      /\ SaveRedis(r, request[r].id, request[r].isDirty)
  BY DEF getCookieHeader, SaveAs
<1>2. /\ exists' = exists /\ kept' = kept /\ written' = written /\ unexpiring' = unexpiring
      /\ \/ wire' = wire /\ ~ request[r].isDirty
         \/ wire' = Sent(r, <<Cmd("set", request[r].id, DataOf(r), r, FALSE)>>)
  BY <1>1 DEF SaveRedis, storage
<1>. QED
  BY <1>1, <1>2, RedisAnswers

\* getCookieHeaderAsync() of RedisSession.
LEMMA RedisCookieAsync ==
    ASSUME SessionsAssumption, SessionsInv, driver = "redis", NEW r \in Requests,
           getCookieHeaderAsync(r)
    PROVE  SessionsInv'
<1>1. /\ Open(r) /\ driver' = driver /\ rejections' = rejections
      /\ disturbed' = disturbed /\ generated' = generated /\ gone' = gone
      /\ exists' = exists /\ kept' = kept /\ written' = written /\ unexpiring' = unexpiring
      /\ \/ /\ wire' = Sent(r, <<Cmd("set", request[r].id, DataOf(r), r, TRUE)>>)
            /\ request' = [request EXCEPT ![r].pc = "waiting"]
            /\ cookie' = cookie /\ object' = object /\ final' = final /\ lost' = lost
         \/ Answered(r) /\ wire' = wire /\ ~ request[r].isDirty
  BY DEF getCookieHeaderAsync, storage
<1>2. /\ request[r] \in Req /\ request[r].ref \in Objects /\ request[r].ref[1] = r
      /\ ~ request[r].moved /\ request[r].server \in WebServers
      /\ request[r].id \in 1 .. generated /\ request[r].id \in Ids
      /\ request[r].id # NewId /\ request[r].pc = "open"
      /\ request \in [Requests -> Req] /\ object \in [Objects -> SUBSET Keys]
      /\ DataOf(r) = object[request[r].ref] /\ DataOf(r) \subseteq Keys
      /\ \A q \in Requests \ {r} : <<q, "first">> # request[r].ref
                                   /\ <<q, "first">> \in Objects
      /\ generated \in 0 .. MaxIds /\ generated \in Nat /\ MaxIds \in Nat
      /\ NewId = generated + 1 /\ (CanGenerate => NewId \in 1 .. MaxIds /\ NewId \in Ids)
      /\ NewId \notin gone
      /\ gone \subseteq 1 .. generated /\ cookie \in 0 .. generated
      /\ final \subseteq Keys /\ lost \in BOOLEAN
  BY <1>1, RedisOpen
<1>3. CASE Answered(r) /\ wire' = wire /\ ~ request[r].isDirty
  BY <1>1, <1>3, RedisAnswers
<1>4. CASE /\ wire' = Sent(r, <<Cmd("set", request[r].id, DataOf(r), r, TRUE)>>)
           /\ request' = [request EXCEPT ![r].pc = "waiting"]
           /\ cookie' = cookie /\ object' = object /\ final' = final /\ lost' = lost
  <2>1. PICK x \in Req :
           /\ request' = [request EXCEPT ![r] = x] /\ x.pc = "waiting" /\ x.id = request[r].id
           /\ x.ref = request[r].ref /\ ~ x.moved /\ x.server = request[r].server
    <3>1. PICK x : x = [request[r] EXCEPT !.pc = "waiting"]
      OBVIOUS
    <3>2. /\ x \in Req /\ x.pc = "waiting" /\ x.id = request[r].id /\ x.ref = request[r].ref
          /\ ~ x.moved /\ x.server = request[r].server
          /\ request' = [request EXCEPT ![r] = x]
      BY <1>2, <1>4, <3>1 DEF Req
    <3>. QED
      BY <3>2
  <2>2. PICK e \in WireCommand :
           /\ wire' = Sent(r, <<e>>) /\ e.op = "set" /\ e.id = request[r].id /\ e.from = r
           /\ e.data = DataOf(r)
    <3>1. PICK e : e = Cmd("set", request[r].id, DataOf(r), r, TRUE)
      OBVIOUS
    <3>2. /\ e \in WireCommand /\ e.op = "set" /\ e.id = request[r].id /\ e.from = r
          /\ e.data = DataOf(r)
      BY <1>2, <3>1 DEF Cmd, WireCommand
    <3>. QED
      BY <1>4, <3>1, <3>2
  <2>3. RedisMoves(r, x)
    BY <1>1, <2>1 DEF RedisMoves
  <2>4. Open(r) /\ wire' = Sent(r, <<e>>)
    BY <1>1, <2>2
  <2>5. PICK n, c :
              /\ Shifts(request[r].server, 0, n, 1, c)
              /\ \A k \in 1 .. 1 : c[k] = e
              /\ wire' \in [WebServers -> Seq(WireCommand)]
              /\ \A id : ~ Alters(e, id) =>
                    /\ \A v : WillHold(id, v) => WillHold(id, v)'
                    /\ WillBeGone(id) => WillBeGone(id)'
              /\ CalmBefore(r) => \A id : Alters(e, id) =>
                    /\ e.op = "set" => \A v : v = e.data => WillHold(id, v)'
                    /\ e.op = "del" => WillBeGone(id)'
    BY <2>3, <2>4, OneSent
  <2>6. RedisTypes
    <3>1. generated <= generated'
      BY <1>1, <1>2
    <3>. QED
      BY <1>1, <1>2, <1>4, <2>5, <3>1 DEF RedisTypes
  <2>7. RedisOwns(r, x)
    BY <1>1, <1>2, <1>4, <2>1 DEF RedisOwns
  <2>8. RedisSends(r, x, n, 1, c)
    BY <1>1, <1>2, <2>1, <2>2, <2>5 DEF RedisSends
  <2>9. ASSUME CalmBefore(r)
        PROVE  CalmAfter(r, x, 1, c)
    <3>1. \A id : Alters(e, id) <=> id = request[r].id
      BY <2>2 DEF Alters
    <3>2. /\ request[r].id \notin gone /\ \A id \in gone : WillBeGone(id)
      BY <2>9 DEF CalmBefore
    <3>3. (\A id \in gone : WillBeGone(id))'
      BY <1>1, <2>5, <3>1, <3>2
    <3>4. ASSUME NEW v, v = object'[x.ref]
          PROVE  WillHold(x.id, v)'
      <4>1. v = e.data /\ Alters(e, x.id)
        BY <1>2, <1>4, <2>1, <2>2, <3>1, <3>4
      <4>. QED
        BY <2>2, <2>5, <2>9, <4>1
    <3>5. \A k \in 1 .. 1 : c[k].id = x.id
      BY <2>1, <2>2, <2>5
    <3>. QED
      BY <1>1, <2>1, <3>2, <3>3, <3>4, <3>5 DEF CalmAfter
  <2>. QED
    BY <1>1, <2>3, <2>6, <2>7, <2>8, <2>9, RedisCall
<1>. QED
  BY <1>1, <1>3, <1>4


\* The constructor of RedisSession.
LEMMA RedisCreate ==
    ASSUME SessionsAssumption, SessionsInv, driver = "redis", NEW r \in Requests,
           NEW s \in WebServers, createSession(r, s)
    PROVE  SessionsInv'
<1>1. SessionsTypeOK /\ IdsKnown /\ CommandsAwaited
  BY DEF SessionsInv
<1>2. /\ RequestPc(r) = "idle" /\ ConstructRedis(r, s) /\ ~ SharesObjects
      /\ exists' = exists /\ kept' = kept /\ written' = written /\ unexpiring' = unexpiring
      /\ driver' = driver /\ cookie' = cookie /\ rejections' = rejections /\ gone' = gone
      /\ final' = final /\ lost' = lost /\ disturbed' = (disturbed \/ Overlaps(s))
  BY DEF createSession, storage, SharesObjects
<1>3. /\ generated \in Nat /\ MaxIds \in Nat /\ generated <= MaxIds
      /\ NewId = generated + 1 /\ NewId \notin gone
      /\ exists \subseteq 1 .. generated /\ gone \subseteq 1 .. generated
      /\ cookie \in 0 .. generated /\ (CanGenerate => NewId \in 1 .. MaxIds)
  BY <1>1, IdFacts
<1>4. PICK id : id = IF cookie = 0 THEN NewId ELSE cookie
  OBVIOUS
<1>5. /\ request' = Begun(r, s, "loading", id, <<r, "first">>)
      /\ generated' = IF cookie = 0 THEN NewId ELSE generated
      /\ wire' = [wire EXCEPT ![s] = Append(@, Cmd("get", id, {}, r, TRUE))]
      /\ object' = object /\ (cookie = 0 => CanGenerate)
  BY <1>2, <1>4 DEF ConstructRedis
<1>6. /\ id \in 1 .. generated' /\ generated' \in 0 .. MaxIds /\ generated <= generated'
      /\ generated' \in Nat /\ id \in 1 .. MaxIds /\ id \in 0 .. MaxIds
      /\ cookie # 0 => id = cookie
      /\ cookie = 0 => id = NewId
  BY <1>3, <1>4, <1>5
<1>7. PICK x : x = [pc |-> "loading", server |-> s, id |-> id, ref |-> <<r, "first">>,
                    found |-> FALSE, isDirty |-> FALSE, moved |-> FALSE]
  OBVIOUS
<1>8. /\ x.pc = "loading" /\ x.id = id /\ x.ref = <<r, "first">> /\ ~ x.moved /\ x.server = s
      /\ x.ref[1] = r /\ request' = [request EXCEPT ![r] = x]
  BY <1>5, <1>7 DEF Begun
<1>9. x \in Req
  BY <1>6, <1>7 DEF Req, Objects
<1>10. /\ request' \in [Requests -> Req] /\ request'[r] = x
       /\ \A q \in Requests \ {r} : request'[q] = request[q]
       /\ Busy' = Busy \cup {r}
  BY <1>1, <1>8, <1>9, RequestMoves
<1>11. PICK e \in WireCommand :
          /\ wire' = [wire EXCEPT ![s] = Append(@, e)] /\ e.op = "get" /\ e.id = id
          /\ e.from = r /\ e.awaited
  <2>1. PICK e : e = Cmd("get", id, {}, r, TRUE)
    OBVIOUS
  <2>2. e \in WireCommand /\ e.op = "get" /\ e.id = id /\ e.from = r /\ e.awaited
    BY <1>6, <2>1 DEF Cmd, WireCommand, Ids
  <2>. QED
    BY <1>5, <2>1, <2>2
<1>12. wire' \in [WebServers -> Seq(WireCommand)] /\ \E n \in Nat : Shifts(s, 0, n, 1, <<e>>)
  BY <1>1, <1>11, SendOne
<1>13. PICK c, m, n : /\ Shifts(s, 0, n, m, c) /\ m = 1 /\ c = <<e>>
                      /\ \A k \in 1 .. m : c[k] = e /\ k = m
  BY <1>12
<1>14. \A t \in WebServers : \A i \in DOMAIN wire[t] :
          /\ wire[t][i].id \in Nat /\ wire[t][i].from \in Requests
          /\ wire[t][i].awaited => wire[t][i].from \in Busy /\ wire[t][i].from # r
  <2>1. r \notin Busy
    BY <1>2 DEF Busy
  <2>. QED
    BY <1>1, <2>1, CommandFacts
<1>15. SessionsTypeOK'
  <2>1. disturbed' \in BOOLEAN
    BY <1>2
  <2>2. {lost', disturbed'} \subseteq BOOLEAN
    BY <1>1, <1>2, <2>1 DEF SessionsTypeOK
  <2>. QED
    BY <1>1, <1>2, <1>5, <1>6, <1>10, <1>12, <2>2 DEF SessionsTypeOK
<1>16. IdsKnown'
  <2>1. exists' \cup gone' \cup {cookie'} \subseteq 0 .. generated'
    BY <1>2, <1>3, <1>6
  <2>. QED
    BY <1>1, <1>2, <1>3, <1>5, <1>6, <1>8, <1>9, <2>1, IdsKept
<1>17. CommandsAwaited'
  <2>1. \A t \in WebServers : \A i \in DOMAIN wire[t] :
           (t # s \/ i > 0) /\ wire[t][i].awaited =>
              request'[wire[t][i].from] = request[wire[t][i].from]
    BY <1>10, <1>14
  <2>2. \A k \in 1 .. m :
              /\ c[k].id <= generated'
              /\ c[k].op = "get" => c[k].awaited
              /\ c[k].awaited =>
                    /\ m = 1 /\ request'[c[k].from].server = s
                    /\ c[k].op = "get" <=> request'[c[k].from].pc = "loading"
                    /\ request'[c[k].from].pc \in {"loading", "waiting"}
                    /\ \A i \in DOMAIN wire[s] :
                          i > 0 /\ wire[s][i].awaited => wire[s][i].from # c[k].from
    <3>1. id <= generated'
      BY <1>6
    <3>2. request'[r].server = s /\ request'[r].pc = "loading"
      BY <1>8, <1>10
    <3>. QED
      BY <1>11, <1>13, <1>14, <3>1, <3>2
  <2>. QED
    BY <1>1, <1>3, <1>6, <1>13, <1>14, <2>1, <2>2, AwaitedNext
<1>18. NoLostUpdate'
  BY <1>2 DEF NoLostUpdate, SharesObjects
<1>19. ASSUME ~ disturbed'
       PROVE  Calm'
  <2>1. ~ disturbed /\ Busy = {} /\ \A t \in WebServers \ {s} : wire[t] = <<>>
    BY <1>2, <1>19 DEF Overlaps
  <2>2. Calm /\ cookie \notin gone
    BY <2>1 DEF SessionsInv, Calm
  <2>3. Busy' = {r} /\ id \notin gone
    BY <1>3, <1>6, <1>10, <2>1, <2>2
  <2>4. OneByOne'
    <3>1. \A t \in WebServers \ {s} : wire'[t] = <<>>
      BY <1>13, <2>1 DEF Shifts
    <3>. QED
      BY <1>8, <1>10, <2>3, <3>1 DEF OneByOne
  <2>5. RequestStored'
    BY <1>2, <1>8, <1>10, <2>3 DEF RequestStored, Open, RequestPc
  <2>6. LastAwaited'
    <3>1. StillAwaited(s, 0, m, c)
      BY <1>14, <2>1 DEF StillAwaited
    <3>2. NewAwaited(m, c)
      BY <1>8, <1>10, <1>11, <1>13 DEF NewAwaited
    <3>. QED
      BY <1>13, <2>2, <3>1, <3>2, LastNext DEF Calm
  <2>7. ASSUME NEW g \in gone'
        PROVE  WillBeGone(g)'
    <3>1. \A k \in 1 .. m : ~ Alters(c[k], g)
      BY <1>11, <1>13 DEF Alters
    <3>2. Follows(s, 0, g) /\ WillBeGone(g)
      BY <1>2, <2>2, <2>7 DEF Follows, Calm
    <3>. QED
      BY <1>2, <1>13, <3>1, <3>2, WillStay
  <2>. QED
    BY <2>3, <2>4, <2>5, <2>6, <2>7 DEF Calm
<1>. QED
  BY <1>15, <1>16, <1>17, <1>18, <1>19 DEF SessionsInv


\* Redis executes the command at the head of s, which nobody waits for or which an
\* EXPIRE follows.
LEMMA TakeStill ==
    ASSUME SessionsAssumption, SessionsInv, driver = "redis", NEW s \in WebServers,
           NEW h, h = wire[s][1], 1 \in DOMAIN wire[s],
           NEW n, NEW m, NEW c, Shifts(s, 1, n, m, c),
           wire' \in [WebServers -> Seq(WireCommand)],
           h.op # "get",
           \/ m = 0 /\ ~ h.awaited
           \/ /\ m = 1 /\ c[1].op = "expire" /\ c[1].id = h.id /\ c[1].from = h.from
              /\ c[1].awaited = h.awaited /\ h.op = "set",
           request' = request, object' = object, driver' = driver, kept' = kept,
           generated' = generated, cookie' = cookie, gone' = gone, final' = final, lost' = lost,
           rejections' \in 0 .. MaxRejections, exists' \subseteq Ids, unexpiring' \subseteq exists',
           written' \in [Ids -> SUBSET Keys], exists' \subseteq 0 .. generated,
           disturbed' \in BOOLEAN, ~ disturbed' => ~ disturbed /\ \A id : Follows(s, 1, id)
    PROVE  SessionsInv'
<1>1. SessionsTypeOK /\ IdsKnown /\ CommandsAwaited
  BY DEF SessionsInv
<1>2. ~ SharesObjects /\ generated \in Nat /\ m \in Nat
  BY <1>1, IdFacts DEF SharesObjects
<1>3. \A k \in 1 .. m : m = 1 /\ k = m /\ k = 1
  BY <1>2
<1>4. \A t \in WebServers : \A i \in DOMAIN wire[t] :
         /\ wire[t][i].id \in Nat /\ wire[t][i].from \in Requests
  BY <1>1, CommandFacts
<1>5. SessionsTypeOK'
  <2>1. {lost', disturbed'} \subseteq BOOLEAN
    BY <1>1 DEF SessionsTypeOK
  <2>. QED
    BY <1>1, <2>1 DEF SessionsTypeOK
<1>6. IdsKnown'
  BY <1>1, <1>2, IdsStay
<1>7. CommandsAwaited'
  <2>1. \A t \in WebServers : \A i \in DOMAIN wire[t] :
           (t # s \/ i > 1) /\ wire[t][i].awaited =>
              request'[wire[t][i].from] = request[wire[t][i].from]
    OBVIOUS
  <2>2. \A k \in 1 .. m :
              /\ c[k].id <= generated'
              /\ c[k].op = "get" => c[k].awaited
              /\ c[k].awaited =>
                    /\ m = 1 /\ request'[c[k].from].server = s
                    /\ c[k].op = "get" <=> request'[c[k].from].pc = "loading"
                    /\ request'[c[k].from].pc \in {"loading", "waiting"}
                    /\ \A i \in DOMAIN wire[s] :
                          i > 1 /\ wire[s][i].awaited => wire[s][i].from # c[k].from
    <3>1. /\ h.id <= generated
          /\ h.awaited =>
                /\ request[h.from].server = s
                /\ h.op = "get" <=> request[h.from].pc = "loading"
                /\ request[h.from].pc \in {"loading", "waiting"}
                /\ \A i \in DOMAIN wire[s] : wire[s][i].awaited /\ wire[s][i].from = h.from => 1 = i
      BY <1>1 DEF CommandsAwaited, RequestPc
    <3>. QED
      BY <1>3, <3>1
  <2>. QED
    BY <1>1, <1>2, <1>4, <2>1, <2>2, AwaitedNext
<1>8. NoLostUpdate'
  BY <1>2 DEF NoLostUpdate, SharesObjects
<1>9. ASSUME ~ disturbed'
      PROVE  Calm'
  <2>1. Calm /\ \A id : Follows(s, 1, id)
    BY <1>9 DEF SessionsInv
  <2>2. ASSUME NEW id
        PROVE  /\ \A v : WillHold(id, v) => WillHold(id, v)'
               /\ WillBeGone(id) => WillBeGone(id)'
    <3>1. \A k \in 1 .. m : ~ Alters(c[k], id)
      BY <1>3 DEF Alters
    <3>2. Follows(s, 1, id)
      BY <2>1
    <3>. QED
      BY <3>1, <3>2, WillStay
  <2>3. Busy' = Busy
    BY DEF Busy, RequestPc
  <2>4. OneByOne'
    <3>1. \A t \in WebServers : wire'[t] # <<>> => wire[t] # <<>>
      <4>1. \A t \in WebServers \ {s} : wire'[t] = wire[t]
        BY DEF Shifts
      <4>2. wire[s] # <<>>
        OBVIOUS
      <4>. QED
        BY <4>1, <4>2
    <3>. QED
      BY <2>1, <2>3, <3>1 DEF Calm, OneByOne
  <2>5. RequestStored'
    <3>1. ASSUME NEW q \in Busy', Open(q)', ~ request'[q].isDirty, driver' # "plain"
          PROVE  /\ ~ request'[q].moved
                 /\ (WillHold(request[q].id, DataOf(q)))'
      <4>1. q \in Busy /\ Open(q) /\ ~ request[q].isDirty /\ driver # "plain"
        BY <2>3, <3>1 DEF Open, RequestPc
      <4>2. ~ request[q].moved
        BY <1>1, <4>1 DEF IdsKnown
      <4>3. PICK id, v : id = request[q].id /\ v = DataOf(q)
        OBVIOUS
      <4>4. WillHold(id, v)
        BY <2>1, <4>1, <4>2, <4>3 DEF Calm, RequestStored
      <4>5. WillHold(id, v)'
        BY <2>2, <4>4
      <4>6. id = request'[q].id /\ v = DataOf(q)'
        BY <4>3 DEF DataOf
      <4>. QED
        BY <4>2, <4>5, <4>6 DEF WillHold, Pending, Decides, Stored
    <3>2. \A q \in Busy' : request'[q].id \notin gone'
      BY <2>1, <2>3 DEF Calm, RequestStored
    <3>. QED
      BY <3>1, <3>2 DEF RequestStored
  <2>6. LastAwaited'
    <3>1. StillAwaited(s, 1, m, c)
      <4>1. ASSUME NEW t \in WebServers, NEW i \in DOMAIN wire[t]
            PROVE  /\ request'[wire[t][i].from] = request[wire[t][i].from]
                   /\ object'[request[wire[t][i].from].ref] = object[request[wire[t][i].from].ref]
                   /\ t = s => \A k \in 1 .. m : c[k].op = "expire"
        BY <1>3
      <4>2. \A k, id, v : id = k /\ WillHold(id, v) => WillHold(id, v)'
        BY <2>2
      <4>. QED
        BY <4>1, <4>2 DEF StillAwaited
    <3>2. NewAwaited(m, c)
      <4>1. ASSUME NEW k \in 1 .. m, c[k].awaited
            PROVE  /\ c[k].id = request[h.from].id /\ c[k].from = h.from /\ c[k].op = "expire"
                   /\ WillHold(request[h.from].id, DataOf(h.from))
        BY <1>3, <2>1, <4>1 DEF Calm, LastAwaited
      <4>2. ASSUME NEW k \in 1 .. m, c[k].awaited, NEW id, NEW v, id = c[k].id,
                   v = object'[request'[c[k].from].ref]
            PROVE  WillHold(id, v)'
        <5>1. id = request[h.from].id /\ v = DataOf(h.from)
          BY <4>1, <4>2 DEF DataOf
        <5>2. WillHold(id, v)
          BY <4>1, <4>2, <5>1
        <5>. QED
          BY <2>2, <5>2
      <4>. QED
        BY <1>3, <4>1, <4>2 DEF NewAwaited
    <3>. QED
      BY <2>1, <3>1, <3>2, LastNext DEF Calm
  <2>7. Busy' = {} => cookie' \notin gone' /\ (~ lost' => WillHold(cookie, final)')
    <3>1. PICK id, v : id = cookie /\ v = final
      OBVIOUS
    <3>2. Busy = {} => cookie \notin gone /\ (~ lost => WillHold(id, v))
      BY <2>1, <3>1 DEF Calm
    <3>3. WillHold(id, v)' => WillHold(cookie, final)'
      BY <3>1 DEF WillHold, Pending, Decides, Stored
    <3>. QED
      BY <2>2, <2>3, <3>2, <3>3
  <2>8. (\A id \in gone : WillBeGone(id))'
    BY <2>1, <2>2 DEF Calm
  <2>. QED
    BY <2>4, <2>5, <2>6, <2>7, <2>8 DEF Calm
<1>. QED
  BY <1>5, <1>6, <1>7, <1>8, <1>9 DEF SessionsInv

\* Before Redis executes what the request r waits for, nothing but EXPIREs is behind it.
CalmTaken(r, h) ==
    /\ gone \cap exists = {} /\ h.id = request[r].id /\ h.id \notin gone
    /\ h.op = "get" => request[r].ref = <<r, "first">>
    /\ h.op = "expire" => Stored(h.id) = DataOf(r)

CalmLeft(x) ==
    /\ gone' \cap exists' = {}
    /\ x.pc = "open" =>
          /\ x.id \notin gone'
          /\ ~ x.isDirty => Stored(x.id)' = object'[x.ref]
    /\ x.pc = "done" => cookie' \notin gone' /\ (~ lost' => Stored(cookie)' = final')

\* Redis executes the command at the head of s, for which the request r waits.
LEMMA TakeOpens ==
    ASSUME SessionsAssumption, SessionsInv, driver = "redis", NEW s \in WebServers,
           NEW h, h = wire[s][1], 1 \in DOMAIN wire[s], h.awaited, NEW r, r = h.from,
           NEW n, NEW c, Shifts(s, 1, n, 0, c),
           NEW x \in Req, request' = [request EXCEPT ![r] = x], x.pc \in {"open", "done"},
           RedisTypes, RedisOwns(r, x), driver' = driver, kept' = kept,
           rejections' \in 0 .. MaxRejections, exists' \subseteq 1 .. generated',
           unexpiring' \subseteq exists', written' \in [Ids -> SUBSET Keys],
           disturbed' \in BOOLEAN,
           ~ disturbed' => ~ disturbed /\ (CalmTaken(r, h) => CalmLeft(x))
    PROVE  SessionsInv'
<1>1. SessionsTypeOK /\ IdsKnown /\ CommandsAwaited
  BY DEF SessionsInv
<1>2. /\ generated \in Nat /\ generated' \in Nat /\ MaxIds \in Nat /\ ~ SharesObjects
      /\ generated <= generated'
  BY <1>1, IdFacts DEF SharesObjects, RedisTypes
<1>3. /\ \A t \in WebServers : \A i \in DOMAIN wire[t] :
            /\ wire[t][i].id \in Nat /\ wire[t][i].from \in Requests
            /\ wire[t][i].awaited => wire[t][i].from \in Busy
      /\ r \in Requests /\ r \in Busy
  BY <1>1, CommandFacts
<1>4. /\ request[r].server = s
      /\ \A i \in DOMAIN wire[s] : wire[s][i].awaited /\ wire[s][i].from = r => i = 1
      /\ \A t \in WebServers : \A i \in DOMAIN wire[t] :
            wire[t][i].awaited => request[wire[t][i].from].server = t
  BY <1>1 DEF CommandsAwaited
<1>5. \A t \in WebServers : \A i \in DOMAIN wire[t] :
         (t # s \/ i > 1) /\ wire[t][i].awaited => wire[t][i].from # r
  BY <1>4
<1>6. /\ request' \in [Requests -> Req] /\ request'[r] = x
      /\ \A q \in Requests \ {r} : request'[q] = request[q]
      /\ x.pc = "done" => Busy' = Busy \ {r}
      /\ x.pc # "done" => Busy' = Busy \cup {r}
  BY <1>1, <1>3, RequestMoves
<1>7. SessionsTypeOK'
  <2>1. {lost', disturbed'} \subseteq BOOLEAN
    BY DEF RedisTypes
  <2>2. cookie' \in 0 .. MaxIds /\ gone' \subseteq Ids /\ exists' \subseteq Ids
    BY <1>2 DEF RedisTypes, Ids
  <2>. QED
    BY <1>1, <1>6, <2>1, <2>2 DEF SessionsTypeOK, RedisTypes
<1>8. IdsKnown'
  <2>1. exists' \cup gone' \cup {cookie'} \subseteq 0 .. generated'
    <3>1. gone' \subseteq 1 .. generated' /\ cookie' \in 0 .. generated'
      BY DEF RedisTypes
    <3>. QED
      BY <1>2, <3>1
  <2>. QED
    BY <1>1, <1>2, <1>3, <2>1, IdsKept DEF RedisOwns
<1>9. CommandsAwaited'
  <2>1. \A t \in WebServers : \A i \in DOMAIN wire[t] :
           (t # s \/ i > 1) /\ wire[t][i].awaited =>
              request'[wire[t][i].from] = request[wire[t][i].from]
    BY <1>3, <1>5, <1>6
  <2>2. \A k \in 1 .. 0 :
              /\ c[k].id <= generated'
              /\ c[k].op = "get" => c[k].awaited
              /\ c[k].awaited =>
                    /\ 0 = 1 /\ request'[c[k].from].server = s
                    /\ c[k].op = "get" <=> request'[c[k].from].pc = "loading"
                    /\ request'[c[k].from].pc \in {"loading", "waiting"}
                    /\ \A i \in DOMAIN wire[s] :
                          i > 1 /\ wire[s][i].awaited => wire[s][i].from # c[k].from
    OBVIOUS
  <2>. QED
    BY <1>1, <1>2, <1>3, <2>1, <2>2, AwaitedNext
<1>10. NoLostUpdate'
  BY <1>2 DEF NoLostUpdate, SharesObjects
<1>11. ASSUME ~ disturbed'
       PROVE  Calm'
  <2>1. Calm
    BY <1>11 DEF SessionsInv
  <2>2. Busy = {r} /\ \A t \in WebServers \ {s} : wire[t] = <<>>
    BY <1>3, <1>4, <2>1 DEF Calm, OneByOne
  <2>3. /\ h.id = request[r].id
        /\ \A j \in DOMAIN wire[s] : 1 < j => wire[s][j].op = "expire"
        /\ h.op = "get" => request[r].ref = <<r, "first">>
        /\ h.op = "expire" => WillHold(request[r].id, DataOf(r))
    BY <2>1 DEF Calm, LastAwaited
  <2>4. h.id \notin gone
    BY <1>3, <2>1, <2>3 DEF Calm, RequestStored
  <2>5. ASSUME NEW t \in WebServers, NEW i \in DOMAIN wire[t], NEW id, Alters(wire[t][i], id)
        PROVE  t = s /\ i = 1 /\ id = h.id /\ h.op # "expire"
    <3>1. t = s
      BY <2>2, <2>5
    <3>2. i \in Nat /\ ~ i < 1
      BY <3>1 DEF Shifts
    <3>3. ~ 1 < i
      BY <2>3, <2>5, <3>1 DEF Alters
    <3>. QED
      BY <2>5, <3>1, <3>2, <3>3 DEF Alters
  <2>6. CalmTaken(r, h)
    <3>1. gone \cap exists = {}
      <4>1. \A g \in gone : ~ Pending(g)
        BY <2>4, <2>5 DEF Pending
      <4>2. \A g \in gone : WillBeGone(g)
        BY <2>1 DEF Calm
      <4>. QED
        BY <4>1, <4>2 DEF WillBeGone
    <3>2. h.op = "expire" => Stored(h.id) = DataOf(r)
      <4>1. h.op = "expire" => ~ Pending(h.id)
        BY <2>5 DEF Pending
      <4>. QED
        BY <2>3, <4>1 DEF WillHold
    <3>. QED
      BY <2>3, <2>4, <3>1, <3>2 DEF CalmTaken
  <2>7. CalmLeft(x)
    BY <1>11, <2>6
  <2>8. \A t \in WebServers \ {s} : wire'[t] = <<>>
    BY <2>2 DEF Shifts
  <2>9. ASSUME NEW t \in WebServers, NEW i \in DOMAIN wire'[t]
        PROVE  wire'[t][i].op = "expire" /\ ~ wire'[t][i].awaited
    <3>1. DOMAIN <<>> = {}
      OBVIOUS
    <3>2. t = s
      BY <2>8, <2>9, <3>1
    <3>3. i \in 1 .. n - 1 /\ i + 1 \in DOMAIN wire[s] /\ wire'[t][i] = wire[s][i + 1]
      BY <3>2 DEF Shifts
    <3>4. wire[s][i + 1].op = "expire"
      BY <2>3, <3>3
    <3>5. ~ wire[s][i + 1].awaited
      <4>1. wire[s][i + 1].awaited => wire[s][i + 1].from = r
        BY <1>3, <2>2, <3>3
      <4>2. i + 1 # 1
        BY <3>3
      <4>. QED
        BY <1>4, <3>3, <4>1, <4>2
    <3>. QED
      BY <3>3, <3>4, <3>5
  <2>10. /\ \A id, v : WillHold(id, v)' <=> Stored(id)' = v
         /\ \A id : WillBeGone(id)' <=> id \notin exists'
    <3>1. \A t \in WebServers : \A i \in DOMAIN wire'[t] : \A id : ~ Alters(wire'[t][i], id)
      BY <2>9 DEF Alters
    <3>2. \A id : ~ Pending(id)'
      BY <3>1 DEF Pending, Alters
    <3>3. \A t \in WebServers : \A i \in DOMAIN wire'[t] : \A id : ~ Decides(t, i, id)'
      BY <3>1 DEF Decides, Alters
    <3>. QED
      BY <3>2, <3>3 DEF WillHold, WillBeGone
  <2>11. /\ x.pc = "open" => Busy' = {r} /\ x.server = s /\ ~ x.moved
         /\ x.pc = "done" => Busy' = {}
    BY <1>4, <1>6, <2>2 DEF RedisOwns
  <2>12. OneByOne'
    BY <1>6, <2>8, <2>11 DEF OneByOne
  <2>13. RequestStored'
    <3>1. ASSUME NEW q \in Busy'
          PROVE  q = r /\ request'[q] = x /\ x.pc = "open" /\ ~ x.moved /\ x.id \notin gone'
      BY <1>6, <2>7, <2>11, <3>1 DEF CalmLeft
    <3>2. ASSUME x.pc = "open", ~ x.isDirty
          PROVE  (WillHold(request[r].id, DataOf(r)))'
      <4>1. PICK id, v : id = x.id /\ v = object'[x.ref]
        OBVIOUS
      <4>2. Stored(id)' = v
        BY <2>7, <3>2, <4>1 DEF CalmLeft, Stored
      <4>3. WillHold(id, v)'
        BY <2>10, <4>2
      <4>4. id = request'[r].id /\ v = DataOf(r)'
        BY <1>6, <4>1 DEF DataOf
      <4>. QED
        BY <4>3, <4>4 DEF WillHold, Decides, Pending, Stored
    <3>. QED
      BY <3>1, <3>2 DEF RequestStored, Open, RequestPc
  <2>14. LastAwaited'
    BY <2>9 DEF LastAwaited
  <2>15. Busy' = {} => cookie' \notin gone' /\ (~ lost' => WillHold(cookie, final)')
    <3>1. PICK id, v : id = cookie' /\ v = final'
      OBVIOUS
    <3>2. Busy' = {} => cookie' \notin gone' /\ (~ lost' => Stored(id)' = v)
      BY <2>7, <2>11, <3>1 DEF CalmLeft, Stored
    <3>3. WillHold(id, v)' => WillHold(cookie, final)'
      BY <3>1 DEF WillHold, Pending, Decides, Stored
    <3>. QED
      BY <2>10, <3>2, <3>3
  <2>16. (\A id \in gone : WillBeGone(id))'
    BY <2>7, <2>10 DEF CalmLeft
  <2>. QED
    BY <2>12, <2>13, <2>14, <2>15, <2>16 DEF Calm
<1>. QED
  BY <1>7, <1>8, <1>9, <1>10, <1>11 DEF SessionsInv


\* The head of a wire, and the request that waits for it.
LEMMA HeadFacts ==
    ASSUME SessionsAssumption, SessionsInv, driver = "redis", NEW s \in WebServers,
           wire[s] # <<>>, NEW h, h = Head(wire[s]), NEW r, r = h.from
    PROVE  /\ h = wire[s][1] /\ 1 \in DOMAIN wire[s] /\ h \in WireCommand
           /\ h.id \in 1 .. generated /\ h.id \in Ids /\ h.id # NewId /\ h.data \subseteq Keys
           /\ h.op = "get" => h.awaited
           /\ r \in Requests
           /\ h.awaited =>
                 /\ request[r] \in Req /\ request[r].ref \in Objects /\ request[r].ref[1] = r
                 /\ ~ request[r].moved /\ request[r].id \in 1 .. generated
                 /\ DataOf(r) = object[request[r].ref] /\ DataOf(r) \subseteq Keys
           /\ request \in [Requests -> Req] /\ object \in [Objects -> SUBSET Keys]
           /\ written \in [Ids -> SUBSET Keys]
           /\ generated \in 0 .. MaxIds /\ generated \in Nat /\ MaxIds \in Nat
           /\ NewId = generated + 1 /\ (CanGenerate => NewId \in 1 .. MaxIds)
           /\ NewId \notin gone /\ NewId \notin exists
           /\ exists \subseteq 1 .. generated /\ unexpiring \subseteq exists
           /\ gone \subseteq 1 .. generated /\ cookie \in 0 .. generated
           /\ final \subseteq Keys /\ lost \in BOOLEAN /\ disturbed \in BOOLEAN
           /\ rejections \in 0 .. MaxRejections
<1>1. SessionsTypeOK /\ IdsKnown /\ CommandsAwaited
  BY DEF SessionsInv
<1>2. h = wire[s][1] /\ 1 \in DOMAIN wire[s] /\ h \in WireCommand
  BY <1>1, TakeForm
<1>3. /\ h.id \in 1 .. generated /\ h.id \in Ids /\ h.id # NewId /\ r \in Requests
      /\ h.awaited => r \in Busy
  BY <1>1, <1>2, CommandFacts
<1>4. h.data \subseteq Keys
  BY <1>2 DEF WireCommand
<1>5. h.op = "get" => h.awaited
  BY <1>1, <1>2 DEF CommandsAwaited
<1>6. ASSUME h.awaited
      PROVE  /\ request[r] \in Req /\ request[r].ref \in Objects /\ request[r].ref[1] = r
             /\ ~ request[r].moved /\ request[r].id \in 1 .. generated
             /\ DataOf(r) = object[request[r].ref] /\ DataOf(r) \subseteq Keys
  <2>1. request[r] \in Req /\ request[r].ref \in Objects /\ DataOf(r) \subseteq Keys
    BY <1>1, <1>3, RequestOf
  <2>2. request[r].ref[1] = r /\ ~ request[r].moved /\ request[r].id \in 1 .. generated
    BY <1>1, <1>3, <1>6 DEF IdsKnown, SharesObjects
  <2>. QED
    BY <2>1, <2>2 DEF DataOf
<1>7. /\ request \in [Requests -> Req] /\ object \in [Objects -> SUBSET Keys]
      /\ written \in [Ids -> SUBSET Keys] /\ generated \in 0 .. MaxIds
      /\ unexpiring \subseteq exists /\ final \subseteq Keys
      /\ lost \in BOOLEAN /\ disturbed \in BOOLEAN /\ rejections \in 0 .. MaxRejections
  BY <1>1 DEF SessionsTypeOK
<1>8. /\ generated \in Nat /\ MaxIds \in Nat /\ NewId = generated + 1 /\ NewId \notin gone
      /\ NewId \notin exists /\ exists \subseteq 1 .. generated /\ gone \subseteq 1 .. generated
      /\ cookie \in 0 .. generated
      /\ CanGenerate => NewId \in 1 .. MaxIds
  BY <1>1, IdFacts
<1>. QED
  BY <1>2, <1>3, <1>4, <1>5, <1>6, <1>7, <1>8

\* GET.
LEMMA RedisLoaded ==
    ASSUME SessionsAssumption, SessionsInv, driver = "redis", NEW s \in WebServers,
           wire[s] # <<>>, NEW h, h = Head(wire[s]), loaded(s, h),
           driver' = driver, rejections' = rejections,
           disturbed' = disturbed
    PROVE  SessionsInv'
<1>1. PICK r : r = h.from
  OBVIOUS
<1>2. /\ h = wire[s][1] /\ 1 \in DOMAIN wire[s] /\ h \in WireCommand
      /\ h.id \in 1 .. generated /\ h.id \in Ids /\ h.id # NewId /\ h.data \subseteq Keys
      /\ h.op = "get" => h.awaited
      /\ r \in Requests
      /\ h.awaited =>
            /\ request[r] \in Req /\ request[r].ref \in Objects /\ request[r].ref[1] = r
            /\ ~ request[r].moved /\ request[r].id \in 1 .. generated
            /\ DataOf(r) = object[request[r].ref] /\ DataOf(r) \subseteq Keys
      /\ request \in [Requests -> Req] /\ object \in [Objects -> SUBSET Keys]
      /\ written \in [Ids -> SUBSET Keys]
      /\ generated \in 0 .. MaxIds /\ generated \in Nat /\ MaxIds \in Nat
      /\ NewId = generated + 1 /\ (CanGenerate => NewId \in 1 .. MaxIds)
      /\ NewId \notin gone /\ NewId \notin exists
      /\ exists \subseteq 1 .. generated /\ unexpiring \subseteq exists
      /\ gone \subseteq 1 .. generated /\ cookie \in 0 .. generated
      /\ final \subseteq Keys /\ lost \in BOOLEAN /\ disturbed \in BOOLEAN
      /\ rejections \in 0 .. MaxRejections
  BY <1>1, HeadFacts
<1>3. /\ h.op = "get" /\ h.awaited /\ (h.id \in exists \/ CanGenerate)
      /\ object' = [object EXCEPT ![<<r, "first">>] = IF h.id \in exists THEN written[h.id] ELSE {}]
      /\ request' = [request EXCEPT ![r].pc = "open", ![r].id = IF h.id \in exists THEN h.id ELSE NewId,
                                    ![r].found = (h.id \in exists)]
      /\ generated' = IF h.id \in exists THEN generated ELSE NewId
      /\ wire' = [wire EXCEPT ![s] = Tail(@)]
      /\ exists' = exists /\ kept' = kept /\ written' = written /\ unexpiring' = unexpiring
      /\ cookie' = cookie /\ gone' = gone /\ final' = final /\ lost' = lost
  BY <1>1, <1>2 DEF loaded, Rest, storage
<1>4. PICK n, c : /\ Shifts(s, 1, n, 0, c)
                    /\ wire' \in [WebServers -> Seq(WireCommand)]
  BY <1>3, TakeForm DEF SessionsInv
<1>5. PICK id, data : /\ id = IF h.id \in exists THEN h.id ELSE NewId
                     /\ data = IF h.id \in exists THEN written[h.id] ELSE {}
  OBVIOUS
<1>6. /\ id \in 1 .. generated' /\ generated' \in 0 .. MaxIds /\ generated <= generated'
      /\ generated' \in Nat /\ id \in 0 .. MaxIds /\ data \subseteq Keys
      /\ id \notin exists => id = NewId /\ data = {}
      /\ id \in exists => id = h.id /\ data = written[id]
  BY <1>2, <1>3, <1>5
<1>7. PICK x \in Req :
         /\ request' = [request EXCEPT ![r] = x] /\ x.pc = "open" /\ x.id = id
         /\ x.ref = request[r].ref /\ ~ x.moved /\ x.server = request[r].server
  <2>1. PICK x : x = [request[r] EXCEPT !.pc = "open", !.id = id, !.found = (h.id \in exists)]
    OBVIOUS
  <2>2. request' = [request EXCEPT ![r] = x]
    BY <1>2, <1>3, <1>5, <2>1
  <2>3. (h.id \in exists) \in BOOLEAN
    OBVIOUS
  <2>4. /\ x \in Req /\ x.pc = "open" /\ x.id = id /\ x.ref = request[r].ref
        /\ ~ x.moved /\ x.server = request[r].server
    BY <1>2, <1>3, <1>6, <2>1, <2>3 DEF Req
  <2>. QED
    BY <2>2, <2>4
<1>8. /\ <<r, "first">> \in Objects /\ object' = [object EXCEPT ![<<r, "first">>] = data]
      /\ object' \in [Objects -> SUBSET Keys]
      /\ \A q \in Requests \ {r} : object'[<<q, "first">>] = object[<<q, "first">>]
  BY <1>2, <1>3, <1>5, <1>6 DEF Objects
<1>9. RedisTypes
  <2>1. gone' \subseteq 1 .. generated' /\ cookie' \in 0 .. generated'
    BY <1>2, <1>3, <1>6
  <2>. QED
    BY <1>2, <1>3, <1>4, <1>6, <1>8, <2>1 DEF RedisTypes
<1>10. RedisOwns(r, x)
  BY <1>2, <1>3, <1>6, <1>7, <1>8 DEF RedisOwns
<1>11. ASSUME CalmTaken(r, h)
       PROVE  CalmLeft(x)
  <2>1. gone \cap exists = {} /\ h.id \notin gone /\ request[r].ref = <<r, "first">>
    BY <1>3, <1>11 DEF CalmTaken
  <2>2. Stored(x.id)' = object'[x.ref]
    <3>1. object'[x.ref] = data
      BY <1>2, <1>7, <1>8, <2>1
    <3>2. ~ SharesObjects'
      BY DEF SharesObjects
    <3>. QED
      BY <1>3, <1>6, <1>7, <3>1, <3>2 DEF Stored
  <2>3. x.id \notin gone'
    BY <1>2, <1>3, <1>6, <1>7, <2>1
  <2>. QED
    BY <1>3, <1>7, <2>1, <2>2, <2>3 DEF CalmLeft
<1>12. exists' \subseteq 1 .. generated' /\ unexpiring' \subseteq exists'
  BY <1>2, <1>3, <1>6
<1>. QED
  BY <1>1, <1>2, <1>3, <1>4, <1>7, <1>9, <1>10, <1>11, <1>12, TakeOpens

\* SET.
LEMMA RedisStored ==
    ASSUME SessionsAssumption, SessionsInv, driver = "redis", NEW s \in WebServers,
           wire[s] # <<>>, NEW h, h = Head(wire[s]), stored(s, h),
           driver' = driver, rejections' = rejections,
           disturbed' = disturbed
    PROVE  SessionsInv'
<1>1. PICK r : r = h.from
  OBVIOUS
<1>2. /\ h = wire[s][1] /\ 1 \in DOMAIN wire[s] /\ h \in WireCommand
      /\ h.id \in 1 .. generated /\ h.id \in Ids /\ h.id # NewId /\ h.data \subseteq Keys
      /\ h.op = "get" => h.awaited
      /\ r \in Requests
      /\ h.awaited =>
            /\ request[r] \in Req /\ request[r].ref \in Objects /\ request[r].ref[1] = r
            /\ ~ request[r].moved /\ request[r].id \in 1 .. generated
            /\ DataOf(r) = object[request[r].ref] /\ DataOf(r) \subseteq Keys
      /\ request \in [Requests -> Req] /\ object \in [Objects -> SUBSET Keys]
      /\ written \in [Ids -> SUBSET Keys]
      /\ generated \in 0 .. MaxIds /\ generated \in Nat /\ MaxIds \in Nat
      /\ NewId = generated + 1 /\ (CanGenerate => NewId \in 1 .. MaxIds)
      /\ NewId \notin gone /\ NewId \notin exists
      /\ exists \subseteq 1 .. generated /\ unexpiring \subseteq exists
      /\ gone \subseteq 1 .. generated /\ cookie \in 0 .. generated
      /\ final \subseteq Keys /\ lost \in BOOLEAN /\ disturbed \in BOOLEAN
      /\ rejections \in 0 .. MaxRejections
  BY <1>1, HeadFacts
<1>3. /\ h.op = "set" /\ exists' = exists \cup {h.id}
      /\ written' = [written EXCEPT ![h.id] = h.data]
      /\ unexpiring' = unexpiring \cup {h.id}
      /\ wire' = [wire EXCEPT ![s] = Append(Tail(@), [h EXCEPT !.op = "expire", !.data = {}])]
      /\ kept' = kept /\ cookie' = cookie /\ request' = request /\ object' = object
      /\ generated' = generated /\ gone' = gone /\ final' = final /\ lost' = lost
  BY DEF stored
<1>4. PICK e : e = [h EXCEPT !.op = "expire", !.data = {}]
  OBVIOUS
<1>5. /\ e \in WireCommand /\ e.op = "expire" /\ e.id = h.id /\ e.from = h.from
      /\ e.awaited = h.awaited
  BY <1>2, <1>4 DEF WireCommand
<1>6. PICK n : /\ Shifts(s, 1, n, 1, <<e>>)
               /\ wire' \in [WebServers -> Seq(WireCommand)]
  BY <1>3, <1>4, <1>5, TakeForm DEF SessionsInv
<1>7. PICK c, m : m = 1 /\ c = <<e>> /\ c[1] = e
  <2>1. PICK c : c = <<e>>
    OBVIOUS
  <2>2. c[1] = e
    BY <2>1
  <2>3. PICK m : m = 1
    OBVIOUS
  <2>. QED
    BY <2>1, <2>2, <2>3
<1>8. \A id : Follows(s, 1, id)
  <2>1. ASSUME NEW id, ~ Alters(h, id)
        PROVE  (id \in exists' <=> id \in exists) /\ written'[id] = written[id]
    BY <1>2, <1>3, <2>1 DEF Alters
  <2>2. ASSUME NEW id, Alters(h, id)
        PROVE  id \in exists' /\ written'[id] = h.data
    BY <1>2, <1>3, <2>2 DEF Alters
  <2>. QED
    BY <1>2, <1>3, <2>1, <2>2 DEF Follows
<1>9. /\ exists' \subseteq Ids /\ exists' \subseteq 0 .. generated /\ unexpiring' \subseteq exists'
      /\ written' \in [Ids -> SUBSET Keys]
  <2>1. exists \subseteq Ids /\ h.id \in 0 .. generated /\ exists \subseteq 0 .. generated
    BY <1>2 DEF SessionsInv, SessionsTypeOK
  <2>2. exists' \subseteq Ids /\ exists' \subseteq 0 .. generated
    BY <1>2, <1>3, <2>1
  <2>3. unexpiring' \subseteq exists'
    BY <1>2, <1>3
  <2>4. written' \in [Ids -> SUBSET Keys]
    BY <1>2, <1>3
  <2>. QED
    BY <2>2, <2>3, <2>4
<1>. QED
  BY <1>2, <1>3, <1>5, <1>6, <1>7, <1>8, <1>9, TakeStill

\* EXPIRE.
LEMMA RedisExpireSet ==
    ASSUME SessionsAssumption, SessionsInv, driver = "redis", NEW s \in WebServers,
           wire[s] # <<>>, NEW h, h = Head(wire[s]), expireSet(s, h),
           driver' = driver, rejections' = rejections,
           disturbed' = disturbed
    PROVE  SessionsInv'
<1>1. PICK r : r = h.from
  OBVIOUS
<1>2. /\ h = wire[s][1] /\ 1 \in DOMAIN wire[s] /\ h \in WireCommand
      /\ h.id \in 1 .. generated /\ h.id \in Ids /\ h.id # NewId /\ h.data \subseteq Keys
      /\ h.op = "get" => h.awaited
      /\ r \in Requests
      /\ h.awaited =>
            /\ request[r] \in Req /\ request[r].ref \in Objects /\ request[r].ref[1] = r
            /\ ~ request[r].moved /\ request[r].id \in 1 .. generated
            /\ DataOf(r) = object[request[r].ref] /\ DataOf(r) \subseteq Keys
      /\ request \in [Requests -> Req] /\ object \in [Objects -> SUBSET Keys]
      /\ written \in [Ids -> SUBSET Keys]
      /\ generated \in 0 .. MaxIds /\ generated \in Nat /\ MaxIds \in Nat
      /\ NewId = generated + 1 /\ (CanGenerate => NewId \in 1 .. MaxIds)
      /\ NewId \notin gone /\ NewId \notin exists
      /\ exists \subseteq 1 .. generated /\ unexpiring \subseteq exists
      /\ gone \subseteq 1 .. generated /\ cookie \in 0 .. generated
      /\ final \subseteq Keys /\ lost \in BOOLEAN /\ disturbed \in BOOLEAN
      /\ rejections \in 0 .. MaxRejections
  BY <1>1, HeadFacts
<1>3. /\ h.op = "expire" /\ unexpiring' = unexpiring \ {h.id}
      /\ wire' = [wire EXCEPT ![s] = Tail(@)]
      /\ exists' = exists /\ kept' = kept /\ written' = written
      /\ generated' = generated /\ gone' = gone
      /\ h.awaited => Answered(r)
      /\ ~ h.awaited => /\ request' = request /\ object' = object /\ cookie' = cookie
                        /\ final' = final /\ lost' = lost
  BY <1>1 DEF expireSet, Rest
<1>4. PICK n, c : /\ Shifts(s, 1, n, 0, c)
                    /\ wire' \in [WebServers -> Seq(WireCommand)]
  BY <1>3, TakeForm DEF SessionsInv
<1>5. exists' \subseteq Ids /\ exists' \subseteq 0 .. generated /\ unexpiring' \subseteq exists'
  <2>1. exists \subseteq Ids /\ exists \subseteq 0 .. generated
    BY <1>2 DEF SessionsInv, SessionsTypeOK
  <2>2. exists' \subseteq Ids /\ exists' \subseteq 0 .. generated
    BY <1>3, <2>1
  <2>3. unexpiring' \subseteq exists'
    BY <1>2, <1>3
  <2>. QED
    BY <2>2, <2>3
<1>6. CASE ~ h.awaited
  <2>1. \A id : Follows(s, 1, id)
    BY <1>2, <1>3 DEF Follows, Alters
  <2>. QED
    BY <1>2, <1>3, <1>4, <1>5, <1>6, <2>1, TakeStill
<1>7. CASE h.awaited
  <2>1. /\ cookie' = request[r].id /\ final' = DataOf(r)
        /\ request' = [request EXCEPT ![r] = WithoutSession(r, "done")]
        /\ lost' = (lost \/ (request[r].moved /\ ~ request[r].isDirty /\ DataOf(r) # {}))
        /\ object' = [o \in Objects |-> IF o[1] = r THEN {} ELSE object[o]]
    BY <1>3, <1>7 DEF Answered, SharesObjects
  <2>2. PICK x \in Req : request' = [request EXCEPT ![r] = x] /\ x.pc = "done"
    BY <1>2, <2>1, DoneFacts
  <2>3. /\ object' \in [Objects -> SUBSET Keys]
        /\ \A q \in Requests \ {r} : object'[<<q, "first">>] = object[<<q, "first">>]
    BY <1>2, <2>1 DEF Objects
  <2>4. RedisTypes
    <3>1. lost' \in BOOLEAN
      BY <2>1
    <3>2. generated <= generated' /\ cookie' \in 0 .. generated' /\ final' \subseteq Keys
      BY <1>2, <1>3, <1>7, <2>1
    <3>. QED
      BY <1>2, <1>3, <1>4, <2>3, <3>1, <3>2 DEF RedisTypes
  <2>5. RedisOwns(r, x)
    BY <2>2, <2>3 DEF RedisOwns
  <2>6. ASSUME CalmTaken(r, h)
        PROVE  CalmLeft(x)
    <3>1. /\ gone \cap exists = {} /\ h.id = request[r].id /\ h.id \notin gone
          /\ Stored(h.id) = DataOf(r)
      BY <1>3, <2>6 DEF CalmTaken
    <3>2. ~ SharesObjects' /\ ~ SharesObjects
      BY DEF SharesObjects
    <3>3. Stored(cookie)' = final'
      BY <1>3, <2>1, <3>1, <3>2 DEF Stored
    <3>. QED
      BY <1>3, <2>1, <2>2, <3>1, <3>3 DEF CalmLeft
  <2>7. exists' \subseteq 1 .. generated'
    BY <1>2, <1>3
  <2>. QED
    BY <1>1, <1>2, <1>3, <1>4, <1>5, <1>7, <2>2, <2>4, <2>5, <2>6, <2>7, TakeOpens
<1>. QED
  BY <1>6, <1>7

\* DEL.
LEMMA RedisDeleted ==
    ASSUME SessionsAssumption, SessionsInv, driver = "redis", NEW s \in WebServers,
           wire[s] # <<>>, NEW h, h = Head(wire[s]), deleted(s, h),
           driver' = driver, rejections' = rejections,
           disturbed' = disturbed
    PROVE  SessionsInv'
<1>1. PICK r : r = h.from
  OBVIOUS
<1>2. /\ h = wire[s][1] /\ 1 \in DOMAIN wire[s] /\ h \in WireCommand
      /\ h.id \in 1 .. generated /\ h.id \in Ids /\ h.id # NewId /\ h.data \subseteq Keys
      /\ h.op = "get" => h.awaited
      /\ r \in Requests
      /\ h.awaited =>
            /\ request[r] \in Req /\ request[r].ref \in Objects /\ request[r].ref[1] = r
            /\ ~ request[r].moved /\ request[r].id \in 1 .. generated
            /\ DataOf(r) = object[request[r].ref] /\ DataOf(r) \subseteq Keys
      /\ request \in [Requests -> Req] /\ object \in [Objects -> SUBSET Keys]
      /\ written \in [Ids -> SUBSET Keys]
      /\ generated \in 0 .. MaxIds /\ generated \in Nat /\ MaxIds \in Nat
      /\ NewId = generated + 1 /\ (CanGenerate => NewId \in 1 .. MaxIds)
      /\ NewId \notin gone /\ NewId \notin exists
      /\ exists \subseteq 1 .. generated /\ unexpiring \subseteq exists
      /\ gone \subseteq 1 .. generated /\ cookie \in 0 .. generated
      /\ final \subseteq Keys /\ lost \in BOOLEAN /\ disturbed \in BOOLEAN
      /\ rejections \in 0 .. MaxRejections
  BY <1>1, HeadFacts
<1>3. /\ h.op = "del" /\ exists' = exists \ {h.id} /\ unexpiring' = unexpiring \ {h.id}
      /\ wire' = [wire EXCEPT ![s] = Tail(@)]
      /\ kept' = kept /\ written' = written /\ cookie' = cookie /\ final' = final /\ lost' = lost
      /\ h.awaited => CanGenerate /\ Emptied(r)
      /\ ~ h.awaited => /\ request' = request /\ object' = object /\ generated' = generated
                        /\ gone' = gone
  BY <1>1 DEF deleted, Rest
<1>4. PICK n, c : /\ Shifts(s, 1, n, 0, c)
                    /\ wire' \in [WebServers -> Seq(WireCommand)]
  BY <1>3, TakeForm DEF SessionsInv
<1>5. exists' \subseteq Ids /\ exists' \subseteq 0 .. generated /\ unexpiring' \subseteq exists'
  <2>1. exists \subseteq Ids /\ exists \subseteq 0 .. generated
    BY <1>2 DEF SessionsInv, SessionsTypeOK
  <2>2. exists' \subseteq Ids /\ exists' \subseteq 0 .. generated
    BY <1>3, <2>1
  <2>3. unexpiring' \subseteq exists'
    BY <1>2, <1>3
  <2>. QED
    BY <2>2, <2>3
<1>6. CASE ~ h.awaited
  <2>1. \A id : Follows(s, 1, id)
    BY <1>2, <1>3 DEF Follows, Alters
  <2>. QED
    BY <1>2, <1>3, <1>4, <1>5, <1>6, <2>1, TakeStill
<1>7. CASE h.awaited
  <2>1. /\ CanGenerate /\ object' = [object EXCEPT ![<<r, "second">>] = {}]
        /\ request' = [request EXCEPT ![r].ref = <<r, "second">>, ![r].id = NewId,
                          ![r].isDirty = FALSE, ![r].pc = "open", ![r].moved = FALSE,
                          ![r].found = FALSE]
        /\ generated' = NewId /\ gone' = gone \cup {request[r].id}
    BY <1>3, <1>7 DEF Emptied
  <2>2. /\ NewId \in 1 .. MaxIds /\ <<r, "second">> \in Objects /\ <<r, "second">>[1] = r
        /\ \A q \in Requests : <<q, "first">> # <<r, "second">> /\ <<q, "first">> \in Objects
    BY <1>2, <2>1 DEF Objects
  <2>3. PICK x \in Req :
           /\ request' = [request EXCEPT ![r] = x] /\ x.pc = "open" /\ x.id = NewId
           /\ x.ref = <<r, "second">> /\ ~ x.moved /\ x.server = request[r].server
    <3>1. PICK x : x = [request[r] EXCEPT !.ref = <<r, "second">>, !.id = NewId,
                          !.isDirty = FALSE, !.pc = "open", !.moved = FALSE, !.found = FALSE]
      OBVIOUS
    <3>2. NewId \in 0 .. MaxIds
      BY <1>2, <2>2
    <3>4. request' = [request EXCEPT ![r] = x]
      BY <1>2, <1>7, <2>1, <3>1
    <3>3. /\ x \in Req /\ x.pc = "open" /\ x.id = NewId /\ x.ref = <<r, "second">>
          /\ ~ x.moved /\ x.server = request[r].server
      BY <1>2, <1>7, <2>2, <3>1, <3>2 DEF Req
    <3>. QED
      BY <3>3, <3>4
  <2>4. RedisTypes
    <3>1. /\ generated <= generated' /\ generated' \in 0 .. MaxIds
          /\ gone' \subseteq 1 .. generated' /\ cookie' \in 0 .. generated'
      BY <1>2, <1>3, <1>7, <2>1, <2>2
    <3>2. object' \in [Objects -> SUBSET Keys]
      BY <1>2, <2>1
    <3>. QED
      BY <1>2, <1>3, <1>4, <3>1, <3>2 DEF RedisTypes
  <2>5. RedisOwns(r, x)
    <3>1. NewId \in 1 .. generated'
      BY <1>2, <2>1, <2>2
    <3>2. \A q \in Requests \ {r} : object'[<<q, "first">>] = object[<<q, "first">>]
      BY <1>2, <2>1, <2>2
    <3>. QED
      BY <2>2, <2>3, <3>1, <3>2 DEF RedisOwns
  <2>6. ASSUME CalmTaken(r, h)
        PROVE  CalmLeft(x)
    <3>1. gone \cap exists = {} /\ h.id = request[r].id
      BY <2>6 DEF CalmTaken
    <3>2. ~ SharesObjects'
      BY DEF SharesObjects
    <3>3. Stored(x.id)' = object'[x.ref]
      BY <1>2, <1>3, <2>1, <2>2, <2>3, <3>2 DEF Stored
    <3>4. x.id \notin gone' /\ gone' \cap exists' = {}
      BY <1>2, <1>3, <2>1, <2>3, <3>1
    <3>. QED
      BY <2>3, <3>3, <3>4 DEF CalmLeft
  <2>7. exists' \subseteq 1 .. generated'
    BY <1>2, <1>3, <2>1
  <2>. QED
    BY <1>1, <1>2, <1>3, <1>4, <1>5, <1>7, <2>3, <2>4, <2>5, <2>6, <2>7, TakeOpens
<1>. QED
  BY <1>6, <1>7

\* A command is rejected.
LEMMA RedisRejected ==
    ASSUME SessionsAssumption, SessionsInv, driver = "redis", NEW s \in WebServers,
           redisRejects(s)
    PROVE  SessionsInv'
<1>1. PICK h, r : h = Head(wire[s]) /\ r = h.from
  OBVIOUS
<1>3. /\ wire[s] # <<>> /\ rejections < MaxRejections /\ rejections' = rejections + 1
      /\ wire' = [wire EXCEPT ![s] = Tail(@)] /\ disturbed' = TRUE
      /\ h.awaited => request' = [request EXCEPT ![r].pc = "open"]
      /\ ~ h.awaited => request' = request
      /\ exists' = exists /\ kept' = kept /\ written' = written /\ unexpiring' = unexpiring
      /\ driver' = driver /\ cookie' = cookie /\ object' = object /\ generated' = generated
      /\ gone' = gone /\ final' = final /\ lost' = lost
  BY <1>1 DEF redisRejects, Rest, storage
<1>2. /\ h = wire[s][1] /\ 1 \in DOMAIN wire[s] /\ h \in WireCommand
      /\ h.id \in 1 .. generated /\ h.id \in Ids /\ h.id # NewId /\ h.data \subseteq Keys
      /\ h.op = "get" => h.awaited
      /\ r \in Requests
      /\ h.awaited =>
            /\ request[r] \in Req /\ request[r].ref \in Objects /\ request[r].ref[1] = r
            /\ ~ request[r].moved /\ request[r].id \in 1 .. generated
            /\ DataOf(r) = object[request[r].ref] /\ DataOf(r) \subseteq Keys
      /\ request \in [Requests -> Req] /\ object \in [Objects -> SUBSET Keys]
      /\ written \in [Ids -> SUBSET Keys]
      /\ generated \in 0 .. MaxIds /\ generated \in Nat /\ MaxIds \in Nat
      /\ NewId = generated + 1 /\ (CanGenerate => NewId \in 1 .. MaxIds)
      /\ NewId \notin gone /\ NewId \notin exists
      /\ exists \subseteq 1 .. generated /\ unexpiring \subseteq exists
      /\ gone \subseteq 1 .. generated /\ cookie \in 0 .. generated
      /\ final \subseteq Keys /\ lost \in BOOLEAN /\ disturbed \in BOOLEAN
      /\ rejections \in 0 .. MaxRejections
  BY <1>1, <1>3, HeadFacts
<1>4. PICK n, c : /\ Shifts(s, 1, n, 0, c)
                    /\ wire' \in [WebServers -> Seq(WireCommand)]
  BY <1>3, TakeForm DEF SessionsInv
<1>5. /\ exists' \subseteq Ids /\ exists' \subseteq 0 .. generated /\ unexpiring' \subseteq exists'
      /\ exists' \subseteq 1 .. generated'
  BY <1>2, <1>3 DEF SessionsInv, SessionsTypeOK
<1>6. rejections' \in 0 .. MaxRejections
  BY <1>2, <1>3 DEF SessionsAssumption
<1>7. disturbed' \in BOOLEAN /\ disturbed'
  BY <1>3
<1>8. CASE ~ h.awaited
  BY <1>2, <1>3, <1>4, <1>5, <1>6, <1>7, <1>8, TakeStill
<1>9. CASE h.awaited
  <2>1. PICK x \in Req :
           /\ request' = [request EXCEPT ![r] = x] /\ x.pc = "open" /\ x.id = request[r].id
           /\ x.ref = request[r].ref /\ ~ x.moved /\ x.server = request[r].server
    <3>1. PICK x : x = [request[r] EXCEPT !.pc = "open"]
      OBVIOUS
    <3>2. /\ x \in Req /\ x.pc = "open" /\ x.id = request[r].id /\ x.ref = request[r].ref
          /\ ~ x.moved /\ x.server = request[r].server
          /\ request' = [request EXCEPT ![r] = x]
      BY <1>2, <1>3, <1>9, <3>1 DEF Req
    <3>. QED
      BY <3>2
  <2>2. RedisTypes
    <3>1. generated <= generated'
      BY <1>2, <1>3
    <3>. QED
      BY <1>2, <1>3, <1>4, <3>1 DEF RedisTypes
  <2>3. RedisOwns(r, x)
    BY <1>2, <1>3, <1>9, <2>1 DEF RedisOwns
  <2>. QED
    BY <1>1, <1>2, <1>3, <1>4, <1>5, <1>6, <1>7, <1>9, <2>1, <2>2, <2>3, TakeOpens
<1>. QED
  BY <1>8, <1>9


\* The store loses entries: their time is over, or flush() takes them all.
LEMMA StoreLoses ==
    ASSUME SessionsInv, exists' \subseteq exists, unexpiring' \subseteq exists',
           unexpiring' \subseteq unexpiring, disturbed' = TRUE, driver' = driver,
           cookie' = cookie, kept' = kept, written' = written, wire' = wire,
           request' = request, object' = object, generated' = generated,
           rejections' = rejections, gone' = gone, final' = final, lost' = lost
    PROVE  SessionsInv'
<1>1. SessionsTypeOK /\ IdsKnown /\ CommandsAwaited /\ NoLostUpdate
  BY DEF SessionsInv
<1>2. SessionsTypeOK'
  <2>1. {lost', disturbed'} \subseteq BOOLEAN
    BY <1>1 DEF SessionsTypeOK
  <2>. QED
    BY <1>1, <2>1 DEF SessionsTypeOK
<1>3. IdsKnown'
  <2>1. exists' \subseteq 0 .. generated
    BY <1>1 DEF IdsKnown
  <2>2. driver # "redis" => unexpiring' = {}
    BY <1>1 DEF IdsKnown
  <2>. QED
    BY <1>1, <2>1, <2>2, IdsStay
<1>4. CommandsAwaited'
  BY <1>1 DEF CommandsAwaited, RequestPc
<1>5. NoLostUpdate'
  BY <1>1 DEF NoLostUpdate, SharesObjects, Busy, RequestPc
<1>. QED
  BY <1>2, <1>3, <1>4, <1>5 DEF SessionsInv

\* No request has begun.
LEMMA SessionsInitially ==
    ASSUME SessionsAssumption, SessionsInit
    PROVE  SessionsInv
<1>1. /\ driver \in Drivers /\ cookie = 0 /\ exists = {} /\ unexpiring = {}
      /\ kept = [id \in Ids |-> CHOOSE o \in Objects : TRUE]
      /\ written = [id \in Ids |-> {}] /\ wire = [s \in WebServers |-> <<>>]
      /\ request = [r \in Requests |-> WithoutSession(r, "idle")]
      /\ object = [o \in Objects |-> {}] /\ generated = 0 /\ rejections = 0
      /\ gone = {} /\ final = {} /\ lost = FALSE /\ disturbed = FALSE
  BY DEF SessionsInit
<1>2. 0 \in 0 .. MaxIds /\ 0 \in 0 .. MaxRejections
  BY DEF SessionsAssumption
<1>3. ASSUME NEW r \in Requests
      PROVE  /\ request[r] \in Req /\ request[r].pc = "idle"
             /\ RequestPc(r) = "idle"
  <2>1. PICK s : s = CHOOSE t \in WebServers : TRUE
    OBVIOUS
  <2>2. s \in WebServers
    BY <2>1 DEF SessionsAssumption
  <2>3. request[r] = [pc |-> "idle", server |-> s, id |-> 0, ref |-> <<r, "first">>,
                      found |-> FALSE, isDirty |-> FALSE, moved |-> FALSE]
    BY <1>1, <2>1 DEF WithoutSession
  <2>4. <<r, "first">> \in Objects
    BY DEF Objects
  <2>. QED
    BY <1>2, <2>2, <2>3, <2>4 DEF Req, RequestPc
<1>4. Busy = {}
  BY <1>3 DEF Busy
<1>5. SessionsTypeOK
  <2>1. kept \in [Ids -> Objects]
    <3>1. PICK o : o = CHOOSE p \in Objects : TRUE
      OBVIOUS
    <3>2. Objects # {}
      <4>1. PICK r \in Requests : TRUE
        BY DEF SessionsAssumption
      <4>2. <<r, "first">> \in Objects
        BY DEF Objects
      <4>. QED
        BY <4>2
    <3>3. o \in Objects
      BY <3>1, <3>2
    <3>. QED
      BY <1>1, <3>1, <3>3
  <2>2. request \in [Requests -> Req]
    BY <1>1, <1>3
  <2>3. wire \in [WebServers -> Seq(WireCommand)]
    BY <1>1
  <2>4. written \in [Ids -> SUBSET Keys] /\ object \in [Objects -> SUBSET Keys]
    BY <1>1
  <2>. QED
    BY <1>1, <1>2, <2>1, <2>2, <2>3, <2>4 DEF SessionsTypeOK
<1>6. \A s \in WebServers : wire[s] = <<>> /\ DOMAIN wire[s] = {}
  BY <1>1
<1>7. IdsKnown
  <2>1. exists \cup gone \cup {cookie} \subseteq 0 .. generated
    BY <1>1
  <2>2. \A r \in Requests : object[<<r, "first">>] = {}
    BY <1>1 DEF Objects
  <2>. QED
    BY <1>1, <1>4, <1>6, <2>1, <2>2 DEF IdsKnown
<1>8. CommandsAwaited /\ NoLostUpdate
  BY <1>4, <1>6 DEF CommandsAwaited, NoLostUpdate
<1>9. Calm
  <2>1. OneByOne /\ RequestStored /\ LastAwaited
    BY <1>4, <1>6 DEF OneByOne, RequestStored, LastAwaited
  <2>2. ~ Pending(cookie) /\ Stored(cookie) = {}
    BY <1>1, <1>6 DEF Pending, Stored
  <2>3. WillHold(cookie, final)
    BY <1>1, <1>6, <2>2 DEF WillHold
  <2>. QED
    BY <1>1, <2>1, <2>3 DEF Calm
<1>. QED
  BY <1>5, <1>7, <1>8, <1>9 DEF SessionsInv

\* The calls of an open session.
LEMMA RequestStep ==
    ASSUME SessionsAssumption, SessionsInv, NEW r \in Requests,
           \/ \E s \in WebServers : createSession(r, s)
           \/ \E key \in Keys : sessionSet(r, key) \/ unset(r, key) \/ getFlash(r, key)
           \/ save(r)
           \/ destroy(r)
           \/ destroyAsync(r)
           \/ regenerateId(r)
           \/ getCookieHeader(r)
           \/ getCookieHeaderAsync(r)
    PROVE  SessionsInv'
<1>1. CASE \E s \in WebServers : createSession(r, s)
  BY <1>1, CreateLocal, RedisCreate
<1>2. CASE \E key \in Keys : sessionSet(r, key) \/ unset(r, key) \/ getFlash(r, key)
  <2>1. PICK key \in Keys : sessionSet(r, key) \/ unset(r, key) \/ getFlash(r, key)
    BY <1>2
  <2>2. DataOf(r) \subseteq Keys
    BY RequestOf DEF SessionsInv
  <2>3. PICK data \in SUBSET Keys : Open(r) /\ Changed(r, data)
    <3>1. DataOf(r) \cup {key} \in SUBSET Keys /\ DataOf(r) \ {key} \in SUBSET Keys
      BY <2>2
    <3>2. /\ Open(r)
          /\ Changed(r, DataOf(r) \cup {key}) \/ Changed(r, DataOf(r) \ {key})
      BY <2>1 DEF sessionSet, unset, getFlash
    <3>. QED
      BY <3>1, <3>2
  <2>. QED
    BY <2>3, LocalChanged, RedisChanged
<1>3. CASE save(r)
  BY <1>3, LocalSave, RedisSave
<1>4. CASE destroy(r)
  BY <1>4, LocalDestroy, RedisDestroy
<1>5. CASE destroyAsync(r)
  <2>1. driver = "redis"
    BY <1>5 DEF destroyAsync
  <2>. QED
    BY <1>5, <2>1, RedisDestroyAsync
<1>6. CASE regenerateId(r)
  BY <1>6, LocalRegenerate, RedisRegenerate
<1>7. CASE getCookieHeader(r)
  BY <1>7, LocalAnswer, RedisCookie
<1>8. CASE getCookieHeaderAsync(r)
  <2>1. driver = "redis"
    BY <1>8 DEF getCookieHeaderAsync
  <2>. QED
    BY <1>8, <2>1, RedisCookieAsync
<1>. QED
  BY <1>1, <1>2, <1>3, <1>4, <1>5, <1>6, <1>7, <1>8

\* Redis takes a command.
LEMMA CommandStep ==
    ASSUME SessionsAssumption, SessionsInv, NEW s \in WebServers,
           redisExecutes(s) \/ redisRejects(s)
    PROVE  SessionsInv'
<1>1. wire[s] # <<>> /\ driver = "redis"
  <2>1. wire[s] # <<>>
    BY DEF redisExecutes, redisRejects
  <2>. QED
    BY <2>1 DEF SessionsInv, IdsKnown
<1>2. CASE redisExecutes(s)
  <2>1. PICK h : h = Head(wire[s])
    OBVIOUS
  <2>2. driver' = driver /\ rejections' = rejections /\ disturbed' = disturbed
    BY <1>2 DEF redisExecutes
  <2>3. loaded(s, h) \/ stored(s, h) \/ expireSet(s, h) \/ deleted(s, h)
    BY <1>2, <2>1 DEF redisExecutes
  <2>. QED
    BY <1>1, <2>1, <2>2, <2>3, RedisLoaded, RedisStored, RedisExpireSet, RedisDeleted
<1>3. CASE redisRejects(s)
  BY <1>1, <1>3, RedisRejected
<1>. QED
  BY <1>2, <1>3

\* What one call reads is what the last one left: the invariant of the sessions is
\* inductive, whatever the class, the calls, their order and the servers.
THEOREM SessionsInductive == SessionsSpec => []SessionsInv
<1>. USE SessionsAssumption
<1>1. SessionsInit => SessionsInv
  BY SessionsInitially
<1>2. SessionsInv /\ [SessionsNext]_sessionVars => SessionsInv'
  <2>1. ASSUME SessionsInv, NEW r \in Requests,
               \/ \E s \in WebServers : createSession(r, s)
               \/ \E key \in Keys : sessionSet(r, key) \/ unset(r, key) \/ getFlash(r, key)
               \/ save(r)
               \/ destroy(r)
               \/ destroyAsync(r)
               \/ regenerateId(r)
               \/ getCookieHeader(r)
               \/ getCookieHeaderAsync(r)
        PROVE  SessionsInv'
    BY <2>1, RequestStep
  <2>2. ASSUME SessionsInv, NEW s \in WebServers, redisExecutes(s) \/ redisRejects(s)
        PROVE  SessionsInv'
    BY <2>2, CommandStep
  <2>3. ASSUME SessionsInv, NEW id \in Ids, expires(id)
        PROVE  SessionsInv'
    <3>1. /\ exists' = exists \ {id} /\ unexpiring' = unexpiring /\ id \notin unexpiring
          /\ disturbed' = TRUE /\ driver' = driver /\ cookie' = cookie /\ kept' = kept
          /\ written' = written /\ wire' = wire /\ request' = request /\ object' = object
          /\ generated' = generated /\ rejections' = rejections /\ gone' = gone
          /\ final' = final /\ lost' = lost
      BY <2>3 DEF expires
    <3>2. unexpiring \subseteq exists
      BY <2>3 DEF SessionsInv, SessionsTypeOK
    <3>3. exists' \subseteq exists /\ unexpiring' \subseteq exists' /\ unexpiring' \subseteq unexpiring
      BY <3>1, <3>2
    <3>. QED
      BY <2>3, <3>1, <3>3, StoreLoses
  <2>4. ASSUME SessionsInv, sessionFlush
        PROVE  SessionsInv'
    <3>1. /\ exists' = {} /\ unexpiring' = {}
          /\ disturbed' = TRUE /\ driver' = driver /\ cookie' = cookie /\ kept' = kept
          /\ written' = written /\ wire' = wire /\ request' = request /\ object' = object
          /\ generated' = generated /\ rejections' = rejections /\ gone' = gone
          /\ final' = final /\ lost' = lost
      BY <2>4 DEF sessionFlush
    <3>2. exists' \subseteq exists /\ unexpiring' \subseteq exists' /\ unexpiring' \subseteq unexpiring
      BY <3>1
    <3>. QED
      BY <2>4, <3>1, <3>2, StoreLoses
  <2>5. ASSUME SessionsInv, UNCHANGED sessionVars
        PROVE  SessionsInv'
    <3>1. /\ exists' = exists /\ unexpiring' = unexpiring
          /\ disturbed' = disturbed /\ driver' = driver /\ cookie' = cookie /\ kept' = kept
          /\ written' = written /\ wire' = wire /\ request' = request /\ object' = object
          /\ generated' = generated /\ rejections' = rejections /\ gone' = gone
          /\ final' = final /\ lost' = lost
      BY <2>5 DEF sessionVars
    <3>2. SessionsTypeOK' <=> SessionsTypeOK
      BY <3>1 DEF SessionsTypeOK
    <3>3. /\ Busy' = Busy /\ (SharesObjects' <=> SharesObjects)
          /\ \A r : RequestPc(r)' = RequestPc(r) /\ (Open(r)' <=> Open(r)) /\ DataOf(r)' = DataOf(r)
      BY <3>1 DEF Busy, RequestPc, SharesObjects, Open, DataOf
    <3>4. IdsKnown' <=> IdsKnown
      BY <3>1, <3>3 DEF IdsKnown, RequestPc, Open
    <3>5. CommandsAwaited' <=> CommandsAwaited
      BY <3>1 DEF CommandsAwaited, RequestPc
    <3>6. NoLostUpdate' <=> NoLostUpdate
      BY <3>1, <3>3 DEF NoLostUpdate
    <3>7. \A id : Pending(id)' <=> Pending(id)
      BY <3>1 DEF Pending
    <3>8. /\ \A id : Stored(id)' = Stored(id)
          /\ \A s, i, id : Decides(s, i, id)' <=> Decides(s, i, id)
      BY <3>1, <3>3 DEF Stored, Decides
    <3>9. /\ \A id, data : WillHold(id, data)' <=> WillHold(id, data)
          /\ \A id : WillBeGone(id)' <=> WillBeGone(id)
      BY <3>1, <3>7, <3>8 DEF WillHold, WillBeGone
    <3>10. OneByOne' <=> OneByOne
      BY <3>1, <3>3 DEF OneByOne
    <3>11. RequestStored' <=> RequestStored
      BY <3>1, <3>3, <3>9 DEF RequestStored, DataOf, Open, RequestPc
    <3>12. LastAwaited' <=> LastAwaited
      BY <3>1, <3>9 DEF LastAwaited, DataOf
    <3>13. Calm' <=> Calm
      BY <3>1, <3>3, <3>9, <3>10, <3>11, <3>12 DEF Calm
    <3>. QED
      BY <2>5, <3>1, <3>2, <3>4, <3>5, <3>6, <3>13 DEF SessionsInv
  <2>. QED
    BY <2>1, <2>2, <2>3, <2>4, <2>5 DEF SessionsNext
<1>. QED
  BY <1>1, <1>2, PTL DEF SessionsSpec

\* save(), regenerateId(), destroy(), getCookieHeader(): the next request finds what the
\* last one ended with, an id that was given up stays out of the store, and requests that
\* share an id lose no update.
THEOREM SessionsKeptHolds == SessionsSpec => []SessionsKept
<1>. USE SessionsAssumption
<1>1. SessionsInv => SessionsKept
  <2>1. ASSUME SessionsInv
        PROVE  SessionsKept
    <3>1. ASSUME Quiet, ~ disturbed
          PROVE  /\ ~ lost => Stored(cookie) = final
                 /\ gone \cap exists = {}
      <4>1. Busy = {} /\ \A s \in WebServers : wire[s] = <<>> /\ DOMAIN wire[s] = {}
        BY <3>1 DEF Quiet
      <4>2. \A id : ~ Pending(id)
        BY <4>1 DEF Pending
      <4>3. Calm
        BY <2>1, <3>1 DEF SessionsInv
      <4>4. ~ lost => WillHold(cookie, final)
        BY <4>1, <4>3 DEF Calm
      <4>5. \A id \in gone : WillBeGone(id)
        BY <4>3 DEF Calm
      <4>6. ~ lost => Stored(cookie) = final
        BY <4>2, <4>4 DEF WillHold
      <4>7. \A id \in gone : id \notin exists
        BY <4>2, <4>5 DEF WillBeGone
      <4>. QED
        BY <4>6, <4>7
    <3>2. NoLostUpdate
      BY <2>1 DEF SessionsInv
    <3>. QED
      BY <3>1, <3>2 DEF SessionsKept, SessionContinues, GoneStaysGone
  <2>. QED
    BY <2>1
<1>. QED
  BY <1>1, SessionsInductive, PTL

=============================================================================
