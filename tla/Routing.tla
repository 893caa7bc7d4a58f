------------------------------ MODULE Routing ------------------------------
(***************************************************************************)
(* From a request to the method of a controller: the registration of       *)
(* routes (router.ts), the table that Bun.serve gets (toBunServe() and     *)
(* bootstrap.ts), the execution of a route with its middleware and its     *)
(* model bindings (route_model_binding.ts), and the search for a           *)
(* controller by the segments of the path (auto_router.ts).                *)
(*                                                                         *)
(* A path is a sequence of segments.  The chain of middlewares is one step *)
(* here (RequestPipeline has its steps): a request passes those in its     *)
(* field pass and the first other one answers it.  What controllers do,    *)
(* query and body are left out.                                            *)
(***************************************************************************)
EXTENDS Naturals, SequencesExt, FiniteSetsExt, TLC

CONSTANTS
    Programs,       \* what routes.ts may say: sequences of statements
    Params,         \* segments of a pattern that are parameters (":id")
    Hyphenless,     \* kebab-case to snake_case, for the names that change
    Singular,       \* singularize(), for the names that change
    Begins,         \* pairs of segments of which the first starts with the second
    Controllers,    \* controller files: records of dirs and base
    MethodsOf,      \* the methods of each
    PrivateMethods, \* names that start with "_", and constructor
    Debug,          \* NODE_ENV is development
    Builtin,        \* routes of the dashboard, the audit log and SSE
    Asked,          \* requests: records of method, path and pass
    Bindable,       \* parameters that bind() may be called with
    RowKeys,        \* values a bound parameter may have
    MaxAsked        \* bound: requests

ASSUME RoutingAssumption ==
    /\ \A c \in Controllers : c \in DOMAIN MethodsOf
    /\ Debug \in BOOLEAN /\ MaxAsked \in Nat

VARIABLES
    program,   \* statements of routes.ts still to come
    routes,    \* Router.routes
    globals,   \* Router.globalMiddleware
    autos,     \* the AutoRouter objects made so far
    auto,      \* Router.autoRouter: an index into autos, or 0
    notFound,  \* a notFound() handler is set
    serving,   \* what Bun.serve was given
    files,     \* the controller files there are
    bindings,  \* RouteModelBinding.bindings, in the order of the Map
    rows,      \* rows of the bound models
    visit,     \* the request in hand
    visits,    \* requests so far
    unsettled  \* history: files or bindings changed during this request

routerVars == <<routes, globals, autos, auto, notFound>>

routingVars == <<program, routerVars, serving, files, bindings, rows, visit, visits, unsettled>>

-----------------------------------------------------------------------------
(* Registration.                                                           *)

Route(st, method, path, name) ==
    [method |-> method, path |-> path, controller |-> st.controller, name |-> name,
     middleware |-> st.middleware, within |-> {}]

RECURSIVE RoutesOf(_)

\* group(): what the callback registers at a router of its own, groups included;
\* what else it says there (use, autoRoute, notFound) goes with that router.
Inner(st) == FlattenSeq([k \in DOMAIN st.body |-> RoutesOf(st.body[k])])

\* Variant: the middleware of its routes replaces a group's (GuardsPassed detects
\* it).
GroupedOver(st) ==
    [i \in DOMAIN Inner(st) |->
        [Inner(st)[i] EXCEPT !.path = st.prefix \o @, !.within = @ \cup {st.middleware},
                             !.middleware = IF @ = <<>> THEN st.middleware ELSE @]]

Grouped(st) ==
    [i \in DOMAIN Inner(st) |->
        [Inner(st)[i] EXCEPT !.path = st.prefix \o @, !.middleware = st.middleware \o @,
                             !.within = @ \cup {st.middleware}]]

\* get(), post(), put(), delete(), patch(); resource(), which is seven of them; and
\* group().
RoutesOf(st) ==
    CASE st.op = "route" -> <<Route(st, st.method, st.path, st.name)>>
      [] st.op = "resource" ->
           LET at(method, rest, name) == Route(st, method, <<st.path>> \o rest, name)
           IN <<at("GET", <<>>, "index"), at("GET", <<"create">>, "create"),
                at("POST", <<>>, "store"), at("GET", <<":id">>, "show"),
                at("GET", <<":id", "edit">>, "edit"), at("PUT", <<":id">>, "update"),
                at("DELETE", <<":id">>, "delete")>>
      [] st.op = "group" -> Grouped(st)
      [] OTHER -> <<>>

registers ==
    LET st == Head(program) IN
    /\ st.op \in {"route", "resource", "group"}
    /\ routes' = routes \o RoutesOf(st)
    /\ UNCHANGED <<globals, autos, auto, notFound, serving>>

use ==
    LET st == Head(program) IN
    /\ st.op = "use"
    /\ globals' = Append(globals, st.middleware)
    /\ UNCHANGED <<routes, autos, auto, notFound, serving>>

\* autoRoute(): a new AutoRouter each time, with a cache of its own.  Nothing reads
\* the middlewares it is given.
autoRoute ==
    LET st == Head(program) IN
    /\ st.op = "autoRoute"
    /\ IF st.enabled
       THEN /\ autos' = Append(autos, [exclude |-> st.exclude, middleware |-> st.middleware,
                                      explicit |-> {}, cache |-> {}])
            /\ auto' = Len(autos) + 1
       ELSE auto' = 0 /\ UNCHANGED autos
    /\ UNCHANGED <<routes, globals, notFound, serving>>

setNotFound ==
    /\ Head(program).op = "notFound"
    /\ notFound' = TRUE
    /\ UNCHANGED <<routes, globals, autos, auto, serving>>

-----------------------------------------------------------------------------
(* The table.                                                              *)

On(path, list) == {i \in DOMAIN list : list[i].path = path}

\* Variant: one method per path (RefusedMethodUnknown detects it).
PathGroupsOfLast ==
    [path \in {r.path : r \in Range(routes)} |->
        LET r == routes[Max(On(path, routes))] IN r.method :> r]

\* pathGroups: per path and method, the route registered last.
PathGroups ==
    [path \in {r.path : r \in Range(routes)} |->
        [m \in {routes[i].method : i \in On(path, routes)} |->
            routes[Max({i \in On(path, routes) : routes[i].method = m})]]]

\* adaptRoutes(): one handler per path, for the method of the last route with it.
AdaptedRoutes ==
    [path \in {r.path : r \in Range(Builtin)} |->
        LET r == Builtin[Max(On(path, Builtin))] IN r.method :> r]

\* Variant: the parameter stays (ExplicitFirst detects it).
ExplicitPathWhole(path) == path

\* A parameter at the end of a path is cut off.
ExplicitPath(path) ==
    IF path # <<>> /\ path[Len(path)] \in Params THEN Front(path) ELSE path

\* toBunServe() and the routes object of bootstrap.ts, in which the
\* application's routes come last.  The auto router and the notFound handler are
\* the ones of this moment.
toBunServe ==
    /\ Head(program).op = "toBunServe"
    /\ autos' = IF auto = 0 THEN autos
                ELSE [autos EXCEPT ![auto].explicit = {ExplicitPath(r.path) : r \in Range(routes)}]
    /\ serving' = [table |-> PathGroups @@ AdaptedRoutes, auto |-> auto, notFound |-> notFound,
                   routes |-> routes]
    /\ UNCHANGED <<routes, globals, auto, notFound>>

NotServing == [table |-> <<>>, auto |-> 0, notFound |-> FALSE, routes |-> <<>>]

NoVisit == [pc |-> "none"]

statement ==
    /\ program # <<>> /\ visit.pc \in {"none", "answered"}
    /\ program' = Tail(program)
    /\ visit' = NoVisit
    /\ registers \/ use \/ autoRoute \/ setNotFound \/ toBunServe
    /\ UNCHANGED <<files, bindings, rows, visits, unsettled>>

-----------------------------------------------------------------------------
(* A request with an explicit route.                                       *)

Fits(pattern, path) ==
    /\ Len(pattern) = Len(path)
    /\ \A i \in DOMAIN path : pattern[i] = path[i] \/ pattern[i] \in Params

\* Bun prefers a segment that is written out, from left to right.
Preferred(p, q) ==
    \E i \in DOMAIN p : /\ p[i] \notin Params /\ q[i] \in Params
                        /\ \A j \in 1 .. i - 1 : (p[j] \in Params) = (q[j] \in Params)

Patterns(path) ==
    LET fit == {p \in DOMAIN serving.table : Fits(p, path)}
    IN {p \in fit : \A q \in fit : ~ Preferred(q, p)}

Respond(how, rest) ==
    visit' = [visit EXCEPT !.pc = "answered", !.how = how, !.with = rest]

\* Variant: a segment is kept for the method (DeepestReading detects it).
MaxDirDepthShort(path) == IF Len(path) < 4 THEN Max({0, Len(path) - 2}) ELSE 2

MaxDirDepth(path) == IF Len(path) < 3 THEN Len(path) - 1 ELSE 2

\* The parameters of a route and their values.
ParamsOf(pattern, path) ==
    [p \in {pattern[i] : i \in {k \in DOMAIN pattern : pattern[k] \in Params}} |->
        path[CHOOSE i \in DOMAIN pattern : pattern[i] = p]]

Started(asked, how) ==
    [pc |-> "started", how |-> how, asked |-> asked, route |-> <<>>, chain |-> <<>>,
     params |-> <<>>, bound |-> {}, at |-> 1, depth |-> 0, found |-> <<>>, with |-> <<>>]

\* executeRoute() up to the pipeline, or 405; fetch() for what has no pattern.
\* The handlers of adaptRoutes() are called at once.
arrives(asked) ==
    /\ serving # NotServing /\ visit.pc \in {"none", "answered"} /\ visits < MaxAsked
    /\ visits' = visits + 1 /\ unsettled' = FALSE
    /\ \/ \E p \in Patterns(asked.path) :
             IF asked.method \notin DOMAIN serving.table[p]
             THEN visit' = [Started(asked, "405") EXCEPT !.pc = "answered", !.with = <<p>>]
             ELSE LET r == serving.table[p][asked.method]
                      taken == [Started(asked, "route") EXCEPT !.route = <<r>>]
                  IN visit' = IF r \notin Range(serving.routes) THEN [taken EXCEPT !.pc = "calling"]
                              ELSE [taken EXCEPT !.pc = "pipeline",
                                                 !.chain = globals \o r.middleware,
                                                 !.params = ParamsOf(p, asked.path)]
       \/ /\ Patterns(asked.path) = {}
          /\ visit' = [Started(asked, "fetch") EXCEPT
                          !.pc = "searching",
                          !.depth = IF asked.path = <<>> THEN 0 ELSE MaxDirDepth(asked.path)]
    /\ UNCHANGED <<program, routerVars, serving, files, bindings, rows>>

\* runMiddlewarePipeline(), and the question whether a parameter is bound.
pipeline ==
    /\ visit.pc = "pipeline"
    /\ LET stops == {i \in DOMAIN visit.chain : visit.chain[i] \notin visit.asked.pass} IN
       IF stops # {} THEN Respond("refused", <<visit.chain[Min(stops)]>>)
       ELSE visit' = [visit EXCEPT !.pc = IF \E b \in Range(bindings) : b \in DOMAIN visit.params
                                          THEN "binding" ELSE "calling"]
    /\ UNCHANGED <<program, routerVars, serving, files, bindings, rows, visits, unsettled>>

\* Variant: a parameter without a row is left as it is (BoundToRows detects it).
bindNextLenient ==
    /\ visit.pc = "binding"
    /\ IF visit.at > Len(bindings) THEN visit' = [visit EXCEPT !.pc = "calling"]
       ELSE LET b == bindings[visit.at] IN
            IF b \in DOMAIN visit.params /\ visit.params[b] \in rows
            THEN visit' = [visit EXCEPT !.at = @ + 1, !.bound = @ \cup {b}]
            ELSE visit' = [visit EXCEPT !.at = @ + 1]
    /\ UNCHANGED <<program, routerVars, serving, files, bindings, rows, visits, unsettled>>

\* RouteModelBinding.resolve(): the iteration sees bindings that come meanwhile;
\* one query per bound parameter, and the first without a row ends it.
bindNext ==
    /\ visit.pc = "binding"
    /\ IF visit.at > Len(bindings) THEN visit' = [visit EXCEPT !.pc = "calling"]
       ELSE LET b == bindings[visit.at] IN
            IF b \notin DOMAIN visit.params THEN visit' = [visit EXCEPT !.at = @ + 1]
            ELSE IF visit.params[b] \notin rows THEN Respond("unbound", <<b>>)
            ELSE visit' = [visit EXCEPT !.at = @ + 1, !.bound = @ \cup {b}]
    /\ UNCHANGED <<program, routerVars, serving, files, bindings, rows, visits, unsettled>>

callHandler ==
    /\ visit.pc = "calling"
    /\ Respond("handler", visit.route)
    /\ UNCHANGED <<program, routerVars, serving, files, bindings, rows, visits, unsettled>>

-----------------------------------------------------------------------------
(* A request without one: fetch(), resolve(), tryLoadController().         *)

\* controllerNameToFileBase().
FileBase(name) ==
    LET snake == IF name \in DOMAIN Hyphenless THEN Hyphenless[name] ELSE name
    IN IF snake \in DOMAIN Singular THEN Singular[snake] ELSE snake

\* The reading of a path with this many directories: the file, its path as the
\* URL has it, and the method.
Reading(path, depth) ==
    IF path = <<>> THEN [file |-> [dirs |-> <<>>, base |-> FileBase("welcome")],
                         url |-> <<"welcome">>, method |-> "index"]
    ELSE [file |-> [dirs |-> SubSeq(path, 1, depth), base |-> FileBase(path[depth + 1])],
          url |-> SubSeq(path, 1, depth + 1),
          method |-> IF Len(path) > depth + 1 THEN path[depth + 2] ELSE "index"]

IsExcluded(path, exclude) ==
    /\ path # <<>>
    /\ \E ex \in exclude :
          /\ Len(ex) <= Len(path) /\ SubSeq(path, 1, Len(ex) - 1) = Front(ex)
          /\ path[Len(ex)] = ex[Len(ex)] \/ <<path[Len(ex)], ex[Len(ex)]>> \in Begins

Answers(reading) ==
    /\ reading.method \in MethodsOf[reading.file]
    /\ reading.method \notin PrivateMethods

\* loadControllerModule(): a module stays in the cache, a missing file does not;
\* in development the cache is written and not read.
Loadable(file) == file \in files \/ (~ Debug /\ file \in autos[serving.auto].cache)

Cached(file) ==
    IF file \in files THEN [autos EXCEPT ![serving.auto].cache = @ \cup {file}] ELSE autos

NothingFound == Respond(IF serving.notFound THEN "notFound" ELSE "404", <<>>)

searches ==
    LET a == autos[serving.auto]
        r == Reading(visit.asked.path, visit.depth)
        claimed == r.url \in a.explicit
    IN
    /\ visit.pc = "searching"
    /\ IF serving.auto = 0 \/ IsExcluded(visit.asked.path, a.exclude)
       THEN NothingFound /\ UNCHANGED autos
       ELSE /\ autos' = IF claimed THEN autos ELSE Cached(r.file)
            /\ IF ~ claimed /\ Loadable(r.file) /\ Answers(r)
               THEN visit' = [visit EXCEPT !.pc = "loading", !.found = <<r>>]
               ELSE IF visit.depth = 0 THEN NothingFound
               ELSE visit' = [visit EXCEPT !.depth = @ - 1]
    /\ UNCHANGED <<program, routes, globals, auto, notFound, serving, files, bindings, rows,
                   visits, unsettled>>

\* handleRequest() after resolve(): the module is loaded again and called.
loads ==
    LET r == visit.found[1] IN
    /\ visit.pc = "loading"
    /\ autos' = Cached(r.file)
    /\ IF Loadable(r.file) /\ r.method \in MethodsOf[r.file]
       THEN Respond("auto", visit.found) ELSE NothingFound
    /\ UNCHANGED <<program, routes, globals, auto, notFound, serving, files, bindings, rows,
                   visits, unsettled>>

-----------------------------------------------------------------------------
(* What goes on meanwhile.                                                 *)

\* RouteModelBinding.bind() and unbind().
bind(param) ==
    /\ bindings' = IF param \in Range(bindings) THEN bindings ELSE Append(bindings, param)
    /\ unsettled' = TRUE
    /\ UNCHANGED <<program, routerVars, serving, files, rows, visit, visits>>

unbind(param) ==
    /\ param \in Range(bindings)
    /\ bindings' = SelectSeq(bindings, LAMBDA b : b # param)
    /\ visit' = IF visit.pc = "binding" /\ \E i \in 1 .. visit.at - 1 : bindings[i] = param
                THEN [visit EXCEPT !.at = @ - 1] ELSE visit
    /\ unsettled' = TRUE
    /\ UNCHANGED <<program, routerVars, serving, files, rows, visits>>

\* A row comes or goes, a controller is deployed or removed.
rowChanges(key) ==
    /\ rows' = IF key \in rows THEN rows \ {key} ELSE rows \cup {key}
    /\ UNCHANGED <<program, routerVars, serving, files, bindings, visit, visits, unsettled>>

fileChanges(file) ==
    /\ files' = IF file \in files THEN files \ {file} ELSE files \cup {file}
    /\ unsettled' = TRUE
    /\ UNCHANGED <<program, routerVars, serving, bindings, rows, visit, visits>>

clearCache ==
    /\ auto # 0
    /\ autos' = [autos EXCEPT ![auto].cache = {}]
    /\ unsettled' = TRUE
    /\ UNCHANGED <<program, routes, globals, auto, notFound, serving, files, bindings, rows,
                   visit, visits>>

-----------------------------------------------------------------------------
RoutingInit ==
    /\ program \in Programs
    /\ routes = <<>> /\ globals = <<>> /\ autos = <<>> /\ auto = 0 /\ notFound = FALSE
    /\ serving = NotServing
    /\ files = Controllers /\ bindings = <<>> /\ rows = RowKeys
    /\ visit = NoVisit /\ visits = 0 /\ unsettled = FALSE

RoutingNext ==
    \/ statement \/ pipeline \/ bindNext \/ callHandler \/ searches \/ loads \/ clearCache
    \/ \E a \in Asked : arrives(a)
    \/ \E p \in Bindable : bind(p) \/ unbind(p)
    \/ \E k \in RowKeys : rowChanges(k)
    \/ \E f \in Controllers : fileChanges(f)

RoutingSpec == RoutingInit /\ [][RoutingNext]_routingVars

RoutingTypeOK ==
    /\ DOMAIN serving.table \subseteq {r.path : r \in Range(serving.routes) \cup Range(Builtin)}
    /\ auto \in 0 .. Len(autos) /\ serving.auto \in 0 .. Len(autos)
    /\ files \subseteq Controllers
    /\ \A i \in DOMAIN autos : autos[i].cache \subseteq Controllers
    /\ Range(bindings) \subseteq Bindable /\ IsInjective(bindings)
    /\ visit.pc \in {"none", "pipeline", "binding", "calling", "searching", "loading", "answered"}
    /\ rows \subseteq RowKeys /\ visits \in 0 .. MaxAsked /\ unsettled \in BOOLEAN

-----------------------------------------------------------------------------
(* Properties.                                                             *)

Done(hows) == visit.pc = "answered" /\ visit.how \in hows

\* The application's handlers are reached only past all middlewares that are to guard its route:
\* the global ones, those of its group and its own (Router.group, executeRoute).
GuardsPassed ==
    Done({"handler"}) /\ visit.route[1] \in Range(serving.routes) =>
        LET r == visit.route[1] IN
        Range(globals) \cup Range(r.middleware) \cup UNION {Range(g) : g \in r.within}
            \subseteq visit.asked.pass

\* 405 is the answer only when no registration, early or late, has both the
\* method and the pattern, in the application's routes (toBunServe).
RefusedMethodUnknown ==
    Done({"405"}) => ~ \E r \in Range(serving.routes) :
                         r.path = visit.with[1] /\ r.method = visit.asked.method

\* A URL of a controller that is, with or without a parameter behind it, the path
\* of an explicit route is never searched for (setExplicitPaths, tryLoadController).
\* This compares URLs, as the code does; ControllerRouted is about controllers.
ExplicitFirst ==
    Done({"auto"}) => ~ \E r \in Range(serving.routes), p \in Params \cup {""} :
                          r.path = visit.with[1].url \o (IF p = "" THEN <<>> ELSE <<p>>)

\* The reading of a path that wins has the most directories among those that a
\* file answers, and 404 means that there is none, unless files came or went
\* during the request (resolveFromSegments, loadControllerModule).
Readable(d) ==
    LET r == Reading(visit.asked.path, d)
    IN r.url \notin autos[serving.auto].explicit /\ Loadable(r.file) /\ Answers(r)

DeepestReading ==
    LET depths == {d \in 0 .. 2 : d = 0 \/ d < Len(visit.asked.path)} IN
    ~ unsettled =>
        /\ Done({"auto"}) =>
              \A d \in depths : Readable(d) => Len(visit.with[1].url) >= d + 1
        /\ Done({"404", "notFound"}) /\ serving.auto # 0
           /\ ~ IsExcluded(visit.asked.path, autos[serving.auto].exclude) =>
              ~ \E d \in depths : Readable(d)

\* The handler gets a row for every parameter that is bound, unless bindings
\* came or went during the request (RouteModelBinding.resolve).
BoundToRows ==
    Done({"handler"}) /\ ~ unsettled =>
        visit.bound = DOMAIN visit.params \cap Range(bindings)

-----------------------------------------------------------------------------
(* What the guide says, and the code does not do.                          *)

\* docs/user-guide/routing.md, Auto Route Middleware: "You can set middleware that
\* applies only to auto-routed requests": what the search finds is called only
\* past the middlewares given to autoRoute().
AutoGuarded ==
    Done({"auto"}) => Range(autos[serving.auto].middleware) \subseteq visit.asked.pass

\* docs/user-guide/routing.md, "Explicit routes always take priority": "/products,
\* /orders etc. without explicit routes use auto routing": a controller with
\* explicit routes is not found by a path, which would lead around their
\* middlewares.  post and posts are two paths of one file.
ControllerRouted ==
    Done({"auto"}) => \A r \in Range(serving.routes) : r.controller # visit.with[1].file

=============================================================================
