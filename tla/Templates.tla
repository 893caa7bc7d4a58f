------------------------------ MODULE Templates ------------------------------
(***************************************************************************)
(* Views (template.ts): a view is read, put into its layout, looked up     *)
(* among the compiled templates and run with the data of the request.  A   *)
(* file is a sequence of parts; the first CutAt parts of a template stand  *)
(* for its first 80 characters.  Partials include no others, and no part   *)
(* is a promise: then nothing of a page is awaited, and it is one step.    *)
(***************************************************************************)
EXTENDS Naturals, SequencesExt, FiniteSetsExt, TLC

CONSTANTS
    Viewers,     \* requests
    Environments, \* what NODE_ENV may be
    Views,       \* names of views, some of which have a file
    ViewFiles,   \* the versions of each view's file, of which the first is there first
    Layouts,     \* the layout files by their names
    Partials,    \* the partials by their names
    CutAt,       \* parts of a template that make its key in the cache
    MaxRenders   \* bound: pages rendered

ASSUME TemplatesAssumption ==
    /\ Environments \subseteq {"development", "production"} /\ {CutAt, MaxRenders} \subseteq Nat
    /\ DOMAIN ViewFiles \subseteq Views

VARIABLES
    environment,   \* NODE_ENV
    version,       \* which version of each view's file is there
    templateCache, \* the compiled templates by their keys
    page,          \* what each request was answered with
    renders        \* pages rendered so far

viewVars == <<environment, version, templateCache, page, renders>>

Text(name) == [kind |-> "text", name |-> name, default |-> <<>>]
Expr(name) == [kind |-> "expr", name |-> name, default |-> <<>>]
RawExpr(name) == [kind |-> "raw", name |-> name, default |-> <<>>]
Include(name) == [kind |-> "include", name |-> name, default |-> <<>>]
Slot(name, default) == [kind |-> "slot", name |-> name, default |-> default]

\* <!-- slot:name -->content<!-- endslot --> in a view.
Define(name, content) == [kind |-> "define", name |-> name, default |-> content]

ViewFile(layout, content) == [layout |-> layout, content |-> content]

\* extractSlots(): the last definition of a name counts; what is left is the
\* content slot, unless there is one.
SlotsOf(file) ==
    LET Defines(i) == file.content[i].kind = "define"
        defined == {i \in DOMAIN file.content : Defines(i)}
        slots == [name \in {file.content[i].name : i \in defined} |->
                     file.content[Max({i \in defined : file.content[i].name = name})].default]
        body == SelectSeq(file.content, LAMBDA part : part.kind # "define")
    IN IF "content" \in DOMAIN slots /\ slots["content"] # <<>> THEN slots
       ELSE ("content" :> body) @@ slots

\* The view as it is written, its definitions and their comments included.
Raw(file) ==
    LET text(part) == IF part.kind # "define" THEN <<part>>
                      ELSE <<Text("slot")>> \o part.default \o <<Text("endslot")>>
    IN FlattenSeq([i \in DOMAIN file.content |-> text(file.content[i])])

\* applySlots(): a slot gives way to what the view has for it.
Filled(layout, slots) ==
    LET fill(part) == IF part.kind # "slot" THEN <<part>>
                      ELSE IF part.name \in DOMAIN slots THEN slots[part.name]
                      ELSE part.default
    IN FlattenSeq([i \in 1 .. Len(layout) |-> fill(layout[i])])

\* renderView() up to the template: without a layout, or without its file, the view
\* is it.
Template(file) ==
    IF file.layout \in DOMAIN Layouts THEN Filled(Layouts[file.layout], SlotsOf(file))
    ELSE Raw(file)

FileOf(view) == ViewFiles[view][version[view]]

-----------------------------------------------------------------------------
(* Compiled templates.                                                     *)

\* renderTemplateString(): the key.
CacheKey(template) == SubSeq(template, 1, Min({CutAt, Len(template)}))

\* Variant: what was compiled once is never compiled again (ViewShown detects it).
CompiledOnce(cache, template) ==
    IF CacheKey(template) \in DOMAIN cache THEN cache
    ELSE (CacheKey(template) :> template) @@ cache

\* getCachedTemplate(); parseTemplate() and compileTemplate() keep the parts.
Compiled(cache, template) ==
    IF CacheKey(template) \in DOMAIN cache /\ environment # "development" THEN cache
    ELSE (CacheKey(template) :> template) @@ cache

\* include() compiles the partial, if there is such a file.
Included(cache, part) ==
    IF part.kind = "include" /\ part.name \in DOMAIN Partials
    THEN Compiled(cache, Partials[part.name]) ELSE cache

\* What a compiled template puts out for a request: text as it is, expressions with
\* the data of the request, {{ }} escaped.  What is included is put out when the
\* page has gone already.
Output(template, r) ==
    LET shown == SelectSeq(template, LAMBDA part : part.kind # "include") IN
    [i \in 1 .. Len(shown) |->
       IF shown[i].kind = "text" THEN <<"text", shown[i].name>>
       ELSE <<IF shown[i].kind = "expr" THEN "escaped" ELSE "raw", shown[i].name, r>>]

NoPage == [status |-> 0, view |-> "", version |-> 0, out |-> <<>>]

renderView(r, view) ==
    /\ renders < MaxRenders /\ renders' = renders + 1
    /\ IF view \notin DOMAIN ViewFiles
       THEN /\ page' = [page EXCEPT ![r] = [NoPage EXCEPT !.status = 500, !.view = view]]
            /\ UNCHANGED templateCache
       ELSE LET template == Template(FileOf(view))
                cache == Compiled(templateCache, template)
                compiled == cache[CacheKey(template)]
            IN /\ templateCache' = FoldLeft(Included, cache, compiled)
               /\ page' = [page EXCEPT ![r] = [status |-> 200, view |-> view,
                                               version |-> version[view],
                                               out |-> Output(compiled, r)]]
    /\ UNCHANGED <<environment, version>>

clearTemplateCache ==
    /\ templateCache' = <<>>
    /\ UNCHANGED <<environment, version, page, renders>>

\* Somebody saves another version of a view.
edited(view) ==
    /\ version[view] < Len(ViewFiles[view])
    /\ version' = [version EXCEPT ![view] = @ + 1]
    /\ UNCHANGED <<environment, templateCache, page, renders>>

TemplatesInit ==
    /\ environment \in Environments
    /\ version = [view \in DOMAIN ViewFiles |-> 1] /\ templateCache = <<>>
    /\ page = [r \in Viewers |-> NoPage] /\ renders = 0

TemplatesNext ==
    \/ \E r \in Viewers, view \in Views : renderView(r, view)
    \/ \E view \in DOMAIN ViewFiles : edited(view)
    \/ clearTemplateCache

TemplatesSpec == TemplatesInit /\ [][TemplatesNext]_viewVars

-----------------------------------------------------------------------------
(* Properties.                                                             *)

TemplatesTypeOK ==
    /\ environment \in Environments
    /\ version \in [DOMAIN ViewFiles -> Nat]
    /\ \A key \in DOMAIN templateCache : CacheKey(templateCache[key]) = key
    /\ \A r \in Viewers : page[r].status \in {0, 200, 500} /\ page[r].view \in Views \cup {""}
    /\ renders \in 0 .. MaxRenders

\* Every template there is.
AllTemplates ==
    UNION {{Template(ViewFiles[view][v]) : v \in 1 .. Len(ViewFiles[view])} :
              view \in DOMAIN ViewFiles} \cup Range(Partials)

TemplateFor(r) == Template(ViewFiles[page[r].view][page[r].version])

\* A template with a key that no other template has.
Alone(template) ==
    \A other \in AllTemplates : CacheKey(other) = CacheKey(template) => other = template

\* A request for a view is answered with that view, as its file was then, and with
\* the data of that request, whatever was compiled before: in development always
\* ("always recompile", getCachedTemplate()), in production if no other template
\* begins like its own.  ViewAsked is about the others.
ViewShown ==
    \A r \in Viewers :
       page[r].status = 200 /\ (environment = "development" \/ Alone(TemplateFor(r))) =>
          page[r].out = Output(TemplateFor(r), r)

-----------------------------------------------------------------------------
(* What the guide says, and the code does not do.                          *)

\* docs/user-guide/views.md, Calling Views, this.view("posts/index", ...), and
\* "production: Cache compiled templates": a request is answered with the view it
\* asks for.  What stands in the cache under the first 80 characters is run for
\* every template that begins like it, which all views of one layout do.
ViewAsked ==
    \A r \in Viewers : page[r].status = 200 => page[r].out = Output(TemplateFor(r), r)

\* docs/user-guide/views.md, "include() - Including Other Templates": a page has
\* the text of the partials that its template includes.
PartialsShown ==
    \A r \in Viewers : page[r].status = 200 =>
       \A part \in Range(TemplateFor(r)) :
          part.kind = "include" /\ part.name \in DOMAIN Partials =>
             Range(Output(Partials[part.name], r)) \subseteq Range(page[r].out)

=============================================================================
