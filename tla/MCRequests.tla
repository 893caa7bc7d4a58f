----------------------------- MODULE MCRequests -----------------------------
(* The components that work for a server's requests, for TLC: each initial *)
(* state chooses one of them, and only that one takes steps.               *)
EXTENDS Sessions, RequestPipeline, Cache, Realtime, Routing, Uploads,
        Blog, Pages, Audit, Templates, Validation

VARIABLE focus

Foci == {"sessions", "pipeline", "cache", "events", "sockets", "routing", "uploads",
         "blog", "pages", "audit", "views", "validation"}

requestsVars ==
    <<sessionVars, pipelineVars, cacheVars, realtimeVars, routingVars, uploadVars, blogVars,
      pagesVars, auditVars, viewVars, checked, focus>>

RequestsInit ==
    /\ focus \in Foci
    /\ SessionsInit /\ PipelineInit /\ CacheInit /\ RealtimeInit
    /\ RoutingInit /\ UploadsInit /\ BlogInit /\ PagesInit
    /\ AuditInit /\ TemplatesInit /\ ValidationInit
    /\ focus # "sessions" => driver = CHOOSE d \in Drivers : TRUE
    /\ focus # "cache" => cacheDriver = CHOOSE d \in CacheDrivers : TRUE
    /\ focus # "blog" => enforced
    /\ focus # "routing" => program = CHOOSE p \in Programs : TRUE
    /\ focus # "pages" => lastRow = 0
    /\ focus # "views" => environment = CHOOSE e \in Environments : TRUE

\* What stands still while a component takes its steps.
OnlyRequests == UNCHANGED <<cacheVars, realtimeVars, routingVars, uploadVars, blogVars, pagesVars,
                            auditVars, viewVars, checked>>

OnlyAnswers == UNCHANGED <<sessionVars, pipelineVars, routingVars, uploadVars, blogVars, pagesVars,
                           auditVars, viewVars, checked>>

OnlyHandlers == UNCHANGED <<sessionVars, pipelineVars, cacheVars, realtimeVars>>

RequestsNext ==
    /\ UNCHANGED focus
    /\ \/ focus = "sessions" /\ SessionsNext /\ OnlyRequests /\ UNCHANGED pipelineVars
       \/ focus = "pipeline" /\ PipelineNext /\ OnlyRequests /\ UNCHANGED sessionVars
       \/ focus = "cache" /\ CacheNext /\ OnlyAnswers /\ UNCHANGED realtimeVars
       \/ focus = "events" /\ SseNext /\ OnlyAnswers /\ UNCHANGED <<cacheVars, wsVars>>
       \/ focus = "sockets" /\ WsNext /\ OnlyAnswers /\ UNCHANGED <<cacheVars, sseVars>>
       \/ /\ focus = "routing" /\ RoutingNext
          /\ OnlyHandlers /\ UNCHANGED <<uploadVars, blogVars, pagesVars, auditVars, viewVars, checked>>
       \/ /\ focus = "uploads" /\ UploadsNext
          /\ OnlyHandlers /\ UNCHANGED <<routingVars, blogVars, pagesVars, auditVars, viewVars, checked>>
       \/ /\ focus = "blog" /\ BlogNext
          /\ OnlyHandlers /\ UNCHANGED <<routingVars, uploadVars, pagesVars, auditVars, viewVars, checked>>
       \/ /\ focus = "pages" /\ PagesNext
          /\ OnlyHandlers /\ UNCHANGED <<routingVars, uploadVars, blogVars, auditVars, viewVars, checked>>
       \/ /\ focus = "audit" /\ AuditNext
          /\ OnlyHandlers /\ UNCHANGED <<routingVars, uploadVars, blogVars, pagesVars, viewVars, checked>>
       \/ /\ focus = "views" /\ TemplatesNext
          /\ OnlyHandlers
          /\ UNCHANGED <<routingVars, uploadVars, blogVars, pagesVars, auditVars, checked>>
       \/ /\ focus = "validation" /\ ValidationNext
          /\ OnlyHandlers
          /\ UNCHANGED <<routingVars, uploadVars, blogVars, pagesVars, auditVars, viewVars>>

RequestsSpec == RequestsInit /\ [][RequestsNext]_requestsVars

\* routes.ts, Router and AutoRouter: each request gets to the handler that the
\* registrations and the controllers give it, and past what guards it.
RoutesServed ==
    focus = "routing" => /\ RoutingTypeOK
                         /\ GuardsPassed /\ RefusedMethodUnknown /\ ExplicitFirst
                         /\ DeepestReading /\ BoundToRows

\* PostController and CommentController: what the blog keeps together under
\* requests that overlap.
BlogKept ==
    focus = "blog" => BlogTypeOK /\ CreatedThere /\ CommentsWhereMeant /\ ShownTogether

\* paginate(), getPageRange() and paginationInfo(): whoever walks through a list sees
\* all of it, and links and numbers that are true of it.
PagesRight ==
    focus = "pages" => PagesTypeOK /\ WalkedThrough /\ InfoTrue /\ LinksInOrder

\* audit_log_ui.ts and rotateLogs(): the pages of the audit log have each entry once,
\* and rotation keeps the lines of the day.
AuditKept ==
    focus = "audit" => AuditTypeOK /\ PagesOnce /\ LinesKept

\* renderView() and getCachedTemplate(): no page is made of another request's data,
\* nor of a template that is out of date where templates are always recompiled.
ViewsShown ==
    focus = "views" => TemplatesTypeOK /\ ViewShown


-----------------------------------------------------------------------------
(* What the components are given.                                         *)

Limit(windowMs, maxRequests) ==
    [kind |-> "limit", windowMs |-> windowMs, maxRequests |-> maxRequests, trustProxy |-> FALSE]

Plain(kind) == [kind |-> kind]

\* A form behind CORS and CSRF protection, two limiters that share the store, a
\* chain that a silent middleware cuts off, and a route without middleware.
FourRoutes ==
    "/form" :> <<Plain("cors"), Plain("csrf")>> @@
    "/api" :> <<Limit(1, 1)>> @@
    "/both" :> <<Limit(2, 1), Plain("csrf")>> @@
    "/cut" :> <<Plain("silent"), Plain("csrf")>>

\* For WindowLimited: one limiter, of two requests within two units of time.
OneLimit == "/api" :> <<Limit(2, 2)>>

Controller(dirs, base) == [dirs |-> dirs, base |-> base]

Registers(method, path, name, mw) ==
    [op |-> "route", method |-> method, path |-> path, controller |-> Controller(<<>>, "post"),
     name |-> name, middleware |-> mw]

Group(prefix, mw, body) == [op |-> "group", prefix |-> prefix, middleware |-> mw, body |-> body]

\* Routes with a group in a group, middlewares, an automatic search with an
\* exclusion and a middleware, and a route that comes too late for the first
\* table; and a resource without search.
TwoPrograms ==
    {<<[op |-> "use", middleware |-> "log"],
       Registers("GET", <<"posts", ":id">>, "show", <<>>),
       Group(<<"admin">>, <<"auth">>,
             <<Registers("GET", <<"posts">>, "index", <<"csrf">>),
               [op |-> "use", middleware |-> "csrf"],
               Group(<<"old">>, <<"csrf">>, <<Registers("GET", <<"posts">>, "index", <<>>)>>)>>),
       [op |-> "autoRoute", enabled |-> TRUE, exclude |-> {<<"api">>}, middleware |-> <<"csrf">>],
       [op |-> "notFound"], [op |-> "toBunServe"],
       Registers("POST", <<"posts", ":id">>, "store", <<>>), [op |-> "toBunServe"]>>,
     <<[op |-> "resource", path |-> "posts", controller |-> Controller(<<>>, "post"),
        middleware |-> <<"auth">>],
       [op |-> "autoRoute", enabled |-> FALSE], [op |-> "toBunServe"]>>}

\* admin/posts is a method of one file and a file of its own.
FourControllers ==
    {Controller(<<>>, "post"), Controller(<<"admin">>, "post"),
     Controller(<<>>, "admin"), Controller(<<>>, "welcome")}

TheirMethods ==
    Controller(<<>>, "post") :> {"index", "show", "_load"} @@
    Controller(<<"admin">>, "post") :> {"index"} @@
    Controller(<<>>, "admin") :> {"posts", "index"} @@
    Controller(<<>>, "welcome") :> {"index"}

OfDashboard(method, name) ==
    [method |-> method, path |-> <<"_dashboard">>, controller |-> Controller(<<>>, "dashboard"),
     name |-> name, middleware |-> <<>>, within |-> {}]

TwoOfOnePath == <<OfDashboard("GET", "d"), OfDashboard("POST", "e")>>

Ask(method, path, pass) == [method |-> method, path |-> path, pass |-> pass]

\* With the two names of one controller, and with and without what guards a route.
TheRequests ==
    {Ask("GET", <<"posts", "5">>, {"log", "auth"}),
     Ask("POST", <<"posts", "5">>, {"log", "auth", "csrf"}),
     Ask("GET", <<"posts", "show", "5">>, {}), Ask("GET", <<"post", "show">>, {}),
     Ask("GET", <<"admin", "posts">>, {"log", "csrf"}),
     Ask("GET", <<"admin", "old", "posts">>, {"log", "csrf"}),
     Ask("GET", <<"admin", "old", "posts">>, {"log", "csrf", "auth"}),
     Ask("GET", <<"admin", "posts", "index">>, {}), Ask("GET", <<"admin", "post">>, {}),
     Ask("GET", <<"posts", "create">>, {"log", "auth", "csrf"}),
     Ask("GET", <<"apis", "x">>, {}), Ask("GET", <<>>, {}),
     Ask("GET", <<"_dashboard">>, {"log"}), Ask("GET", <<"post", "_load">>, {})}

OnePlural == "posts" :> "post"

NoHyphens == <<>>

ApisApi == {<<"apis", "api">>}

\* hashKey() maps both keys to one file.
OneFile == [k \in CacheKeys |-> "f"]

Upl(extension, mime, size) ==
    [name |-> "a", extension |-> extension, mime |-> mime, size |-> size, separators |-> FALSE]

\* A file that is taken, alone and after one that is refused.
TwoForms ==
    {<<Upl("png", "image/png", 1)>>,
     <<Upl("html", "image/png", 1), Upl("png", "image/png", 1)>>}

Stores(naming, overwrite) ==
    [naming |-> naming, overwrite |-> overwrite, maxSize |-> 1, allowedMimeTypes |-> {},
     allowedExtensions |-> {"png"}]

ThreeWays ==
    {Stores("original", FALSE), Stores("original", TRUE), Stores("timestamp", FALSE)}

Query(e, t, u) == [event |-> e, type |-> t, user |-> u]

\* All entries; and an event and a user, of which only the event counts.
TwoQueries == {Query("", "", ""), Query("create", "", "u")}

TwoOptions == {[enabled |-> TRUE], [trackEvents |-> {"create", "login"}, logToFile |-> FALSE]}

PostsTracked == {<<"posts", {"create"}>>}

\* The layout of the application, whose head is longer than the key of the cache.
DefaultLayout ==
    "default" :> <<Text("head"), Include("nav"), Slot("title", <<Text("BunIgniter")>>),
                   Slot("content", <<>>)>>

OnePartial == "nav" :> <<Text("nav")>>

\* Two views in the layout, one of which is edited, and one in a layout that is not
\* there, of which every part counts.
ThreeViews ==
    "index" :> <<ViewFile("default", <<Define("title", <<Text("Posts")>>), Expr("posts")>>)>> @@
    "show" :> <<ViewFile("default", <<RawExpr("post")>>),
                ViewFile("default", <<Expr("post")>>)>> @@
    "bare" :> <<ViewFile("none", <<Text("bare"), Define("title", <<Text("Bare")>>), Expr("post")>>)>>

\* What String() and Number() make of values; numbers and lengths in halves.
Typed(text, length) ==
    [type |-> "string", text |-> text, length |-> length, numeric |-> FALSE, number |-> 0]

TypedNumber(text, length, number) ==
    [type |-> "string", text |-> text, length |-> length, numeric |-> TRUE, number |-> number]

JsonNumber(text, length, number) == [TypedNumber(text, length, number) EXCEPT !.type = "number"]

Null == [type |-> "null", text |-> "null", length |-> 8, numeric |-> TRUE, number |-> 0]

False == [type |-> "boolean", text |-> "false", length |-> 10, numeric |-> TRUE, number |-> 0]

NaN == [type |-> "number", text |-> "NaN", length |-> 6, numeric |-> FALSE, number |-> 0]

\* A list as one parameter; String() and Number() of it are not asked for.
Array(items) ==
    [type |-> "array", text |-> "", length |-> 0, numeric |-> FALSE, number |-> 0, items |-> items]

SomeValues ==
    {Null, False, NaN, Typed("", 0), Typed("ab", 4), TypedNumber("2", 2, 4), JsonNumber("0", 2, 0),
     JsonNumber("2", 2, 4), JsonNumber("1.5", 6, 3)}

Rule(name, parts) == [name |-> name, parts |-> parts, given |-> FALSE, message |-> ""]

Given(rule) == [rule EXCEPT !.given = TRUE, !.message = "own"]

One == TypedNumber("1", 2, 2)
Two == TypedNumber("2", 2, 4)

EachRule ==
    {Rule(name, <<>>) : name \in {"required", "confirmed", "email", "numeric", "integer"}}
    \cup {Rule(name, <<Two>>) : name \in {"min", "max", "minValue", "maxValue"}}
    \cup {Rule("between", <<One, Two>>), Rule("in", <<Typed("ab", 4), Two>>),
          Rule("notIn", <<Two>>), Rule("regex", <<Typed("b", 2)>>),
          Rule("regex", <<Typed("b", 2), Two>>),
          Given(Rule("in", <<Array(<<One, JsonNumber("2", 2, 4)>>)>>)),
          Given(Rule("notIn", <<Array(<<Typed("ab", 4)>>)>>)),
          Given(Rule("maxValue", <<JsonNumber("1", 2, 2)>>))}

Password == "password" :> "password_confirmation" @@ "age" :> "age_confirmation"

\* Fields by themselves, and two fields of which each may fail.
TheirRules ==
    {<<<<"password", <<Rule("required", <<>>), r, Given(r)>>>>>> : r \in EachRule}
    \cup {<<<<"password", <<Rule("min", <<Two>>), Rule("confirmed", <<>>)>>>>,
            <<"age", <<r, Rule("integer", <<>>)>>>>>> : r \in EachRule}

OneAddress == {<<"email", "2">>}

BInAb == {<<<<"b">>, "ab">>}

OfTheField == {<<"password", "min">>, <<"confirmed">>}

=============================================================================
