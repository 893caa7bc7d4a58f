-------------------------- MODULE RequestPipeline --------------------------
(***************************************************************************)
(* A request from Bun.serve to its answer: Router.toBunServe() and         *)
(* executeRoute() (router.ts), runMiddlewarePipeline() (middleware.ts),    *)
(* the rate limiter (rate_limit.ts), the CSRF and CORS middlewares         *)
(* (csrf.ts, cors.ts), route model binding, and the auto router for        *)
(* requests no route matches.  Requests interleave wherever one waits for  *)
(* its body, for the database or for its handler.                          *)
(*                                                                         *)
(* Tokens are numbers; a page is the token its form carries.  A middleware *)
(* is a record with its kind; "silent" is one that neither answers nor     *)
(* calls next().                                                           *)
(***************************************************************************)
EXTENDS Naturals, SequencesExt

CONSTANTS
    Slots,         \* requests that may be in progress at once
    Browsers,      \* clients, each with its IP address and cookie jar
    Explicit,      \* routes: a function from path to chain of middlewares
    AutoPaths,     \* paths whose controller the auto router finds
    TokenLife,     \* CsrfConfig.maxAge
    MaxClock,      \* bound: last instant
    MaxTokens,     \* bound: tokens ever generated
    MaxRequests    \* bound: requests ever sent

Middleware == UNION {Range(Explicit[p]) : p \in DOMAIN Explicit}

Limiters == {m \in Middleware : m.kind = "limit"}

ASSUME PipelineAssumption ==
    /\ {TokenLife, MaxClock, MaxTokens, MaxRequests} \subseteq Nat
    /\ AutoPaths \cap DOMAIN Explicit = {}
    /\ \A p \in DOMAIN Explicit : Explicit[p] \in Seq(Range(Explicit[p]))
    /\ \A m \in Limiters : m.windowMs \in Nat /\ m.maxRequests \in Nat

VARIABLES
    clock,      \* Date.now()
    limits,     \* rateLimitStore: the entry of each key that has one
    jar,        \* the CSRF cookie of each browser: 0 or a token
    pages,      \* tokens on the pages a browser has open
    expiry,     \* when each token generated so far ends
    exchange,   \* the request in each slot
    asked,      \* requests sent so far
    admissions, \* history: when a limiter let requests of a key pass
    raced       \* history: browsers that got two tokens at once

csrfVars == <<jar, pages, expiry, raced>>

limitVars == <<limits, admissions>>

pipelineVars == <<clock, limitVars, csrfVars, exchange, asked>>

NoToken == 0

Tokens == 1 .. MaxTokens

\* getClientIp(): without a trusted proxy there is no address to tell
\* clients apart by.
KeyOf(limiter, browser) == IF limiter.trustProxy THEN browser ELSE "unknown"

LimitKeys == {KeyOf(l, b) : l \in Limiters, b \in Browsers}

Entry == [count : Nat, resetTime : Nat]

\* A slot without a request.
NoExchange == [pc |-> "none"]

Exchange ==
    [pc : {"pipeline", "reading", "binding", "handler", "auto"}, browser : Browsers,
     path : DOMAIN Explicit \cup AutoPaths, method : {"GET", "POST", "OPTIONS"},
     cookie : 0 .. MaxTokens, field : 0 .. MaxTokens, pos : Nat, at : Nat,
     passed : SUBSET Limiters]

Pc(s) == exchange[s].pc

PipelineTypeOK ==
    /\ clock \in 0 .. MaxClock
    /\ DOMAIN limits \subseteq LimitKeys /\ limits \in [DOMAIN limits -> Entry]
    /\ jar \in [Browsers -> 0 .. MaxTokens]
    /\ pages \in [Browsers -> SUBSET Tokens]
    /\ expiry \in Seq(Nat) /\ Len(expiry) <= MaxTokens
    /\ exchange \in [Slots -> {NoExchange} \cup Exchange]
    /\ asked \in 0 .. MaxRequests
    /\ admissions \in [LimitKeys \X Limiters -> Seq(Nat)]
    /\ raced \subseteq Browsers

PipelineInit ==
    /\ clock = 0
    /\ limits = <<>>
    /\ jar = [b \in Browsers |-> NoToken]
    /\ pages = [b \in Browsers |-> {}]
    /\ expiry = <<>>
    /\ exchange = [s \in Slots |-> NoExchange]
    /\ asked = 0
    /\ admissions = [kl \in LimitKeys \X Limiters |-> <<>>]
    /\ raced = {}

-----------------------------------------------------------------------------
(* Requests come and are answered.                                         *)

ChainOf(path) == Explicit[path]

\* executeRoute() or, where no route has the path, AutoRouter.handleRequest(),
\* which goes to the method of the controller at once.
receive(s, browser, path, method, field) ==
    LET auto == path \in AutoPaths IN
    /\ Pc(s) = "none"
    /\ asked < MaxRequests
    /\ field # NoToken => method = "POST"
    /\ asked' = asked + 1
    /\ exchange' = [exchange EXCEPT ![s] =
          [pc |-> IF auto THEN "auto" ELSE "pipeline", browser |-> browser, path |-> path,
           method |-> method, cookie |-> jar[browser], field |-> field, pos |-> 1,
           at |-> clock, passed |-> {}]]
    /\ UNCHANGED <<clock, limitVars, csrfVars>>

\* A middleware's Response ends the pipeline and is the answer.
Answer(s) == [exchange EXCEPT ![s] = NoExchange]

\* Where next() of the middleware in charge leads: the one after it or, past
\* the last one, back through the pipeline to executeRoute().
Next_(r) == IF r.pos < Len(ChainOf(r.path)) THEN [r EXCEPT !.pc = "pipeline", !.pos = r.pos + 1]
            ELSE [r EXCEPT !.pc = "binding"]

Proceed(s) == [exchange EXCEPT ![s] = Next_(exchange[s])]

InCharge(s, kind) ==
    /\ Pc(s) = "pipeline"
    /\ ChainOf(exchange[s].path) # <<>>
    /\ ChainOf(exchange[s].path)[exchange[s].pos].kind = kind

MiddlewareOf(s) == ChainOf(exchange[s].path)[exchange[s].pos]

\* An empty pipeline, or a middleware that neither answers nor calls next():
\* runMiddlewarePipeline() returns null either way.
skipped(s) ==
    /\ Pc(s) = "pipeline"
    /\ ChainOf(exchange[s].path) = <<>> \/ InCharge(s, "silent")
    /\ exchange' = [exchange EXCEPT ![s].pc = "binding"]
    /\ UNCHANGED <<clock, limitVars, csrfVars, asked>>

-----------------------------------------------------------------------------
(* Rate limiting.                                                          *)

\* The entry of a key, or a new one when there is none or its time is over.
Current(key, limiter) ==
    IF key \in DOMAIN limits /\ clock <= limits[key].resetTime THEN limits[key]
    ELSE [count |-> 0, resetTime |-> clock + limiter.windowMs]

Exceeds(entry, limiter) == entry.count > limiter.maxRequests

\* handleRateLimit() up to next().
handleRateLimit(s) ==
    LET limiter == MiddlewareOf(s)
        key == KeyOf(limiter, exchange[s].browser)
        now == Current(key, limiter)
        entry == [now EXCEPT !.count = now.count + 1]
    IN
    /\ InCharge(s, "limit")
    /\ limits' = [k \in DOMAIN limits \cup {key} |-> IF k = key THEN entry ELSE limits[k]]
    /\ IF Exceeds(entry, limiter)
       THEN exchange' = Answer(s) /\ UNCHANGED admissions
       ELSE /\ exchange' = [exchange EXCEPT
                   ![s] = Next_([exchange[s] EXCEPT !.passed = exchange[s].passed \cup {limiter}])]
            /\ admissions' = [admissions EXCEPT ![<<key, limiter>>] = Append(@, clock)]
    /\ UNCHANGED <<clock, csrfVars, asked>>

\* Variant: the entries still in use are removed (BurstBounded detects it).
cleanupInverted ==
    LET live == {key \in DOMAIN limits : clock <= limits[key].resetTime} IN
    /\ live # {}
    /\ limits' = Restrict(limits, DOMAIN limits \ live)
    /\ UNCHANGED <<clock, admissions, csrfVars, exchange, asked>>

\* cleanupRateLimitStore(), on its timer.
cleanupRateLimitStore ==
    LET live == {key \in DOMAIN limits : clock <= limits[key].resetTime} IN
    /\ live # DOMAIN limits
    /\ limits' = Restrict(limits, live)
    /\ UNCHANGED <<clock, admissions, csrfVars, exchange, asked>>

\* resetRateLimitForKey() and, for all keys, resetRateLimitStore().
resetRateLimit(keys) ==
    /\ keys \subseteq DOMAIN limits
    /\ limits' = Restrict(limits, DOMAIN limits \ keys)
    /\ admissions' = [kl \in DOMAIN admissions |->
                         IF kl[1] \in keys THEN <<>> ELSE admissions[kl]]
    /\ UNCHANGED <<clock, csrfVars, exchange, asked>>

-----------------------------------------------------------------------------
(* CORS and CSRF.                                                          *)

handleCors(s) ==
    /\ InCharge(s, "cors")
    /\ exchange' = IF exchange[s].method = "OPTIONS" THEN Answer(s) ELSE Proceed(s)
    /\ UNCHANGED <<clock, limitVars, csrfVars, asked>>

\* verifyCsrfTokenSafe()
Valid(token) == token # NoToken /\ clock <= expiry[token]

Safe(s) == exchange[s].method \in {"GET", "OPTIONS"}

\* csrfMiddleware() up to the reading of the body.
csrfMiddleware(s) ==
    /\ InCharge(s, "csrf")
    /\ exchange' = IF Safe(s) THEN Proceed(s)
                  ELSE IF Valid(exchange[s].cookie) THEN [exchange EXCEPT ![s].pc = "reading"]
                  ELSE Answer(s)
    /\ UNCHANGED <<clock, limitVars, csrfVars, asked>>

\* Variant: any valid token is taken (HandlerGuarded detects it).
csrfComparedLoosely(s) ==
    /\ Pc(s) = "reading"
    /\ exchange' = IF Valid(exchange[s].field) \/ exchange[s].field = exchange[s].cookie
                  THEN Proceed(s) ELSE Answer(s)
    /\ UNCHANGED <<clock, limitVars, csrfVars, asked>>

\* The token is found in the body, a header or the query, or nowhere.
csrfCompared(s) ==
    /\ Pc(s) = "reading"
    /\ exchange' = IF exchange[s].field = exchange[s].cookie THEN Proceed(s) ELSE Answer(s)
    /\ UNCHANGED <<clock, limitVars, csrfVars, asked>>

-----------------------------------------------------------------------------
(* Binding and handlers.                                                   *)

\* RouteModelBinding.resolve() awaits a query per bound parameter; a row that
\* is not there answers.  Then the body is parsed.
resolve(s, found) ==
    /\ Pc(s) = "binding"
    /\ exchange' = IF found THEN [exchange EXCEPT ![s].pc = "handler"] ELSE Answer(s)
    /\ UNCHANGED <<clock, limitVars, csrfVars, asked>>

\* A handler that does not render a form, on a route or found by the auto
\* router.
handle(s) ==
    /\ Pc(s) \in {"handler", "auto"}
    /\ exchange' = Answer(s)
    /\ UNCHANGED <<clock, limitVars, csrfVars, asked>>

\* Variant: a token that is still good is not used again (PagesMatchCookie
\* detects it).
TokenForAnew(s) == Len(expiry) + 1

\* getCsrfToken(): the token of the cookie while it is valid, or a new one.
TokenFor(s) == IF Valid(exchange[s].cookie) THEN exchange[s].cookie ELSE Len(expiry) + 1

\* A handler that renders a form with getCsrfToken(); the browser stores the
\* cookie that comes with it.
handleForm(s) ==
    LET b == exchange[s].browser
        token == TokenFor(s)
        new == token > Len(expiry)
    IN
    /\ Pc(s) \in {"handler", "auto"}
    /\ exchange[s].method = "GET"
    /\ token <= MaxTokens
    /\ expiry' = IF new THEN Append(expiry, clock + TokenLife) ELSE expiry
    /\ jar' = [jar EXCEPT ![b] = token]
    /\ pages' = [pages EXCEPT ![b] = @ \cup {token}]
    /\ raced' = IF new /\ jar[b] # exchange[s].cookie THEN raced \cup {b} ELSE raced
    /\ exchange' = Answer(s)
    /\ UNCHANGED <<clock, limitVars, asked>>

passTime ==
    /\ clock < MaxClock
    /\ clock' = clock + 1
    /\ UNCHANGED <<limitVars, csrfVars, exchange, asked>>

PipelineNext ==
    \/ \E s \in Slots :
          \/ \E b \in Browsers, path \in DOMAIN Explicit \cup AutoPaths,
                method \in {"GET", "POST", "OPTIONS"} :
                \E field \in pages[b] \cup {NoToken} : receive(s, b, path, method, field)
          \/ skipped(s)
          \/ handleRateLimit(s)
          \/ handleCors(s)
          \/ csrfMiddleware(s)
          \/ csrfCompared(s)
          \/ \E found \in BOOLEAN : resolve(s, found)
          \/ handle(s)
          \/ handleForm(s)
    \/ cleanupRateLimitStore
    \/ \E keys \in (SUBSET LimitKeys) \ {{}} : resetRateLimit(keys)
    \/ passTime

PipelineSpec == PipelineInit /\ [][PipelineNext]_pipelineVars

-----------------------------------------------------------------------------
(* Properties.                                                             *)

\* The middlewares of a chain that a silent one does not cut off.
Effective(path) ==
    {ChainOf(path)[i] : i \in {k \in DOMAIN ChainOf(path) :
        \A j \in 1 .. k : ChainOf(path)[j].kind # "silent"}}

LetPass(r, m) ==
    /\ m.kind = "limit" => m \in r.passed
    /\ m.kind = "cors" => r.method # "OPTIONS"
    /\ m.kind = "csrf" /\ r.method = "POST" =>
          r.cookie # NoToken /\ r.field = r.cookie /\ expiry[r.cookie] >= r.at

\* executeRoute(), runMiddlewarePipeline(), csrfMiddleware(): a handler runs only
\* for a request that every limiter of its chain let pass, that is no preflight
\* where there is CORS and, where there is CSRF protection and the request
\* changes state, that carries the token of its own cookie, valid when it came.
\* Of a chain with a silent middleware this speaks of those before it;
\* PipelineStops is about the others.
HandlerGuarded ==
    \A s \in Slots : Pc(s) = "handler" =>
       \A m \in Effective(exchange[s].path) : LetPass(exchange[s], m)

ShortestWindow ==
    LET windows == {m.windowMs : m \in Limiters}
    IN CHOOSE w \in windows : \A v \in windows : w <= v

\* handleRateLimit(): the limiters share one store.  Within the shortest window of
\* those that use a key, each lets at most twice its maxRequests pass, once before
\* and once after an entry ends, whatever the other limiters and the cleanup do
\* meanwhile, unless the key was reset.  WindowLimited is what the guide says.
BurstBounded ==
    \A key \in LimitKeys, l \in Limiters :
       LET times == admissions[<<key, l>>]
       IN \A i \in DOMAIN times :
             Cardinality({j \in DOMAIN times : j >= i /\ times[j] <= times[i] + ShortestWindow})
                <= 2 * l.maxRequests

\* getCsrfToken(): the pages a browser has open carry the token of its cookie, as
\* csrfMiddleware() demands, until it expires, unless two requests without a
\* valid cookie were answered with a token each.
PagesMatchCookie ==
    \A b \in Browsers \ raced : \A token \in pages[b] : Valid(token) => token = jar[b]

\* What the middlewares of a route keep from its handler, and let through to it
\* (executeRoute(), handleRateLimit(), csrfMiddleware()); the documents promise more,
\* see WindowLimited and PipelineStops.
RequestsGuarded == HandlerGuarded /\ BurstBounded /\ PagesMatchCookie

-----------------------------------------------------------------------------
(* What the documents say, and the code does not do.                       *)

\* rate_limit.ts:4 "in-memory sliding window", docs/user-guide/rate-limit.md:3
\* "Sliding window request rate limiting middleware." and its table, "Max
\* requests per window": of one key, no more than maxRequests pass within any
\* windowMs.  An entry is a fixed window: it starts again from nothing.
WindowLimited ==
    \A key \in LimitKeys, l \in Limiters :
       LET times == admissions[<<key, l>>]
       IN \A i \in DOMAIN times :
             Cardinality({j \in DOMAIN times : j >= i /\ times[j] < times[i] + l.windowMs})
                <= l.maxRequests

\* middleware.ts:25 "if next() is not called, the pipeline stops": a request
\* reaches a handler, and the middlewares of the chain behind it, only through
\* the next() of every middleware.
PipelineStops ==
    \A s \in Slots : Pc(s) = "handler" =>
       \A m \in Range(ChainOf(exchange[s].path)) :
          m.kind # "silent" /\ LetPass(exchange[s], m)

-----------------------------------------------------------------------------
(* The inductive invariant behind HandlerGuarded, BurstBounded and         *)
(* PagesMatchCookie.                                                       *)

\* The middlewares before the one in charge have let the request pass, and so have
\* all that count once it is past them.
Passed(r) ==
    LET chain == ChainOf(r.path) IN
    /\ r.pc \in {"pipeline", "reading"} =>
          /\ r.path \in DOMAIN Explicit /\ (chain # <<>> => r.pos \in DOMAIN chain)
          /\ \A i \in DOMAIN chain : i < r.pos => LetPass(r, chain[i])
    /\ r.pc = "reading" =>
          /\ chain # <<>> /\ chain[r.pos].kind = "csrf"
          /\ r.cookie # NoToken /\ expiry[r.cookie] >= r.at
    /\ r.pc \in {"binding", "handler"} => \A m \in Effective(r.path) : LetPass(r, m)

PassedSoFar == \A s \in Slots : Passed(exchange[s])

\* Nobody has a token that was not generated, nor came in the future.
TokensKnown ==
    /\ \A b \in Browsers : \A token \in pages[b] \cup {jar[b]} : token <= Len(expiry)
    /\ \A s \in Slots : Pc(s) # "none" =>
          exchange[s].cookie <= Len(expiry) /\ exchange[s].at <= clock

\* A request on its way carries the token of the cookie too, if any that is valid.
CookiesMatch ==
    \A s \in Slots : Pc(s) # "none" /\ exchange[s].browser \notin raced =>
       (Valid(exchange[s].cookie) => exchange[s].cookie = jar[exchange[s].browser])

\* When the entry of a key is over: whatever was let pass lies before, and all but
\* the last maxRequests of it a window before.
Over(times, maxRequests) ==
    \A i \in DOMAIN times :
       /\ times[i] < clock
       /\ i + maxRequests <= Len(times) => times[i] + ShortestWindow < clock

\* While there is one: what was let pass under it, after the first b, is counted in
\* it; the rest lies a window before its end, and what is before the last
\* maxRequests of the rest a window before now.
Under(entry, times, maxRequests) ==
    \E b \in 0 .. Len(times) :
       /\ Len(times) - b <= entry.count /\ Len(times) - b <= maxRequests
       /\ \A i \in DOMAIN times :
             /\ times[i] <= entry.resetTime
             /\ i <= b => times[i] + ShortestWindow < entry.resetTime
             /\ i + maxRequests <= b => times[i] + ShortestWindow < clock

WindowsKept ==
    \A key \in LimitKeys, l \in Limiters :
       LET times == admissions[<<key, l>>] IN
       /\ \A i \in DOMAIN times : times[i] <= clock
       /\ \A i, j \in DOMAIN times :
             i + 2 * l.maxRequests <= j => times[i] + ShortestWindow < times[j]
       /\ key \in DOMAIN limits => Under(limits[key], times, l.maxRequests)
       /\ key \notin DOMAIN limits => Over(times, l.maxRequests)

PipelineInv ==
    /\ PipelineTypeOK /\ PassedSoFar /\ TokensKnown /\ PagesMatchCookie /\ CookiesMatch
    /\ WindowsKept

=============================================================================
