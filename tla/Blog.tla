-------------------------------- MODULE Blog --------------------------------
(***************************************************************************)
(* The example application (examples/blog): the controllers of its pages   *)
(* and of its API, its seeds, and its tables in SQLite.  A handler is one  *)
(* step per query that it awaits; SQLite executes one at a time.  A post   *)
(* is its slug and whether it is published, a comment the post it belongs  *)
(* to.  Other texts, the views, the users and the lists of posts are left  *)
(* out.                                                                    *)
(***************************************************************************)
EXTENDS Naturals, SequencesExt, FiniteSetsExt, TLC

CONSTANTS
    Visitors,    \* requests in flight
    Slugs,       \* slugs of posts
    SeedSlug,    \* the slug of the post that has a comment in the seeds
    MaxPosts,    \* bound: posts ever inserted
    MaxComments, \* bound: comments ever inserted
    MaxTasks     \* bound: requests

ASSUME BlogAssumption == SeedSlug \in Slugs /\ {MaxPosts, MaxComments, MaxTasks} \subseteq Nat

VARIABLES
    enforced,      \* SQLite enforces foreign keys: no PRAGMA of the code decides
    posts,         \* the table: what each id has
    comments,      \* the table: the post of each id, and (history) the slug that
                   \* its author had found under this post
    lastPost,      \* AUTOINCREMENT: the largest id there ever was
    lastComment,
    task,          \* the request of each visitor
    tasks,         \* requests so far
    seeding        \* the seeds of posts are in, those of comments are not

tables == <<enforced, posts, comments, lastPost, lastComment>>

blogVars == <<tables, task, tasks, seeding>>

NoTask == [pc |-> "idle", status |-> 0]

Forms == {"whole", "untitled", "unpublished"}

\* A form lacks its title (or the author of a comment), or what is published:
\* Number(undefined) ?? 0 is NaN, which SQLite takes for the NULL that the column
\* refuses, where Number(undefined) || 0 is 0.
Refused(form, api) == form = "untitled" \/ (api /\ form = "unpublished")

Told(v, status, rest) ==
    task' = [task EXCEPT ![v] = rest @@ [pc |-> "answered", status |-> status]]

Asks(v) ==
    /\ task[v].pc \in {"idle", "answered"} /\ tasks < MaxTasks
    /\ tasks' = tasks + 1
    /\ UNCHANGED seeding

Awaits(v, pc, rest) == task' = [task EXCEPT ![v] = rest @@ [pc |-> pc, status |-> 0]]

Resumes(v, pc) == task[v].pc = pc /\ UNCHANGED <<tasks, seeding>>

Nothing == <<>>

-----------------------------------------------------------------------------
(* The tables.                                                             *)

\* A variant that asks for published posts only.
IsTakenByPublished(slug) == \E id \in DOMAIN posts : posts[id].slug = slug /\ posts[id].published

IsTaken(slug) == \E id \in DOMAIN posts : posts[id].slug = slug

\* Without AUTOINCREMENT.
NextPostReused(last) == Max(DOMAIN posts \cup {0}) + 1

NextPost(last) == last + 1

InsertPost(slug, published) ==
    /\ lastPost < MaxPosts
    /\ posts' = (NextPost(lastPost) :> [slug |-> slug, published |-> published]) @@ posts
    /\ lastPost' = NextPost(lastPost)
    /\ UNCHANGED <<enforced, comments, lastComment>>

\* A variant without ON DELETE CASCADE, which leaves the comments alone.
DeletePostAlone(id) ==
    /\ posts' = [p \in DOMAIN posts \ {id} |-> posts[p]]
    /\ UNCHANGED <<enforced, comments, lastPost, lastComment>>

DeletePost(id) ==
    /\ posts' = [p \in DOMAIN posts \ {id} |-> posts[p]]
    /\ comments' = IF enforced
                   THEN [c \in {d \in DOMAIN comments : comments[d].post # id} |-> comments[c]]
                   ELSE comments
    /\ UNCHANGED <<enforced, lastPost, lastComment>>

Insertable(post) == post \in DOMAIN posts \/ ~ enforced

InsertComment(post, slug) ==
    /\ lastComment < MaxComments
    /\ comments' = (lastComment + 1 :> [post |-> post, slug |-> slug]) @@ comments
    /\ lastComment' = lastComment + 1
    /\ UNCHANGED <<enforced, posts, lastPost>>

-----------------------------------------------------------------------------
(* Posts.                                                                  *)

\* ApiPostController.store() up to exists(); then the INSERT.
apiStore(v, slug, form) ==
    /\ Asks(v) /\ UNCHANGED tables
    /\ IF form = "untitled" THEN Told(v, 422, Nothing)
       ELSE IF IsTaken(slug) THEN Told(v, 409, Nothing)
       ELSE Awaits(v, "inserting", [slug |-> slug, form |-> form])

apiInserts(v) ==
    LET t == task[v] IN
    /\ Resumes(v, "inserting")
    /\ IF Refused(t.form, TRUE) \/ IsTaken(t.slug)
       THEN Told(v, 500, Nothing) /\ UNCHANGED tables
       ELSE \E published \in BOOLEAN :
               /\ InsertPost(t.slug, published)
               /\ Told(v, 201, [created |-> NextPost(lastPost), slug |-> t.slug])

\* PostController.store(): the table alone refuses a second slug.
webStore(v, slug, form) ==
    /\ Asks(v)
    /\ IF Refused(form, FALSE) \/ IsTaken(slug)
       THEN Told(v, 500, Nothing) /\ UNCHANGED tables
       ELSE \E published \in BOOLEAN :
               InsertPost(slug, published) /\ Told(v, 302, Nothing)

Update(id, published) ==
    /\ posts' = IF id \in DOMAIN posts THEN [posts EXCEPT ![id].published = published] ELSE posts
    /\ UNCHANGED <<enforced, comments, lastPost, lastComment>>

\* ApiPostController.update(): findById(), then UPDATE ... RETURNING.
apiUpdate(v, id, form) ==
    /\ Asks(v) /\ UNCHANGED tables
    /\ IF id \notin DOMAIN posts THEN Told(v, 404, Nothing)
       ELSE Awaits(v, "updating", [id |-> id, form |-> form])

Updated(v, id, form, api) ==
    IF id \in DOMAIN posts /\ Refused(form, api)
    THEN Told(v, 500, Nothing) /\ UNCHANGED tables
    ELSE /\ \E published \in BOOLEAN : Update(id, published)
         /\ Told(v, IF api THEN 200 ELSE 302, Nothing)

apiUpdates(v) == Resumes(v, "updating") /\ Updated(v, task[v].id, task[v].form, TRUE)

webUpdate(v, id, form) == Asks(v) /\ Updated(v, id, form, FALSE)

apiDelete(v, id) ==
    /\ Asks(v) /\ DeletePost(id)
    /\ Told(v, IF id \in DOMAIN posts THEN 200 ELSE 404, Nothing)

webDelete(v, id) == Asks(v) /\ DeletePost(id) /\ Told(v, 302, Nothing)

\* The post is read (exists() in the list of its comments), then the comments.
Looks(v, found, pc, rest) ==
    /\ Asks(v) /\ UNCHANGED tables
    /\ IF found = {} THEN Told(v, 404, Nothing)
       ELSE \E id \in found : Awaits(v, pc, rest @@ [id |-> id, slug |-> posts[id].slug])

ById(id) == {id} \cap DOMAIN posts

BySlug(slug) == {id \in DOMAIN posts : posts[id].slug = slug}

apiShow(v, id) == Looks(v, ById(id), "reading", Nothing)

webShow(v, slug) == Looks(v, BySlug(slug), "reading", Nothing)

apiComments(v, id) == Looks(v, ById(id), "reading", Nothing)

shows(v) ==
    /\ Resumes(v, "reading") /\ UNCHANGED tables
    /\ Told(v, 200, [slug |-> task[v].slug,
                     shown |-> {comments[c].slug :
                                  c \in {d \in DOMAIN comments : comments[d].post = task[v].id}}])

-----------------------------------------------------------------------------
(* Comments.                                                               *)

\* store() up to the INSERT: the API has the id of the post, the page its slug.
apiComment(v, id, form) ==
    IF form = "untitled" THEN Asks(v) /\ Told(v, 422, Nothing) /\ UNCHANGED tables
    ELSE Looks(v, ById(id), "commenting", [form |-> form, status |-> 201])

webComment(v, slug, form) ==
    Looks(v, BySlug(slug), "commenting", [form |-> form, status |-> 302])

comment(v) ==
    LET t == task[v] IN
    /\ Resumes(v, "commenting")
    /\ IF t.form = "untitled" \/ ~ Insertable(t.id)
       THEN Told(v, 500, Nothing) /\ UNCHANGED tables
       ELSE InsertComment(t.id, t.slug) /\ Told(v, t.status, Nothing)

DeleteComment(id) ==
    /\ comments' = [c \in DOMAIN comments \ {id} |-> comments[c]]
    /\ UNCHANGED <<enforced, posts, lastPost, lastComment>>

apiUncomment(v, id) ==
    /\ Asks(v) /\ DeleteComment(id)
    /\ Told(v, IF id \in DOMAIN comments THEN 200 ELSE 404, Nothing)

webUncomment(v, id) == Asks(v) /\ DeleteComment(id) /\ Told(v, 302, Nothing)

-----------------------------------------------------------------------------
(* Seeds, again: posts are ignored where the slug is taken, the comment names the
   post by the id it had the first time, and an error ends the run. *)

seedPosts ==
    /\ ~ seeding /\ seeding' = TRUE
    /\ IF IsTaken(SeedSlug) THEN UNCHANGED tables ELSE InsertPost(SeedSlug, TRUE)
    /\ UNCHANGED <<task, tasks>>

seedComments ==
    /\ seeding /\ seeding' = FALSE
    /\ IF Insertable(1) THEN InsertComment(1, SeedSlug) ELSE UNCHANGED tables
    /\ UNCHANGED <<task, tasks>>

\* The tables after the first migration and the first seeds.
BlogInit ==
    /\ enforced \in BOOLEAN
    /\ posts = 1 :> [slug |-> SeedSlug, published |-> TRUE] /\ lastPost = 1
    /\ comments = 1 :> [post |-> 1, slug |-> SeedSlug] /\ lastComment = 1
    /\ task = [v \in Visitors |-> NoTask] /\ tasks = 0 /\ seeding = FALSE

BlogNext ==
    \/ \E v \in Visitors :
          \/ \E slug \in Slugs, form \in Forms : apiStore(v, slug, form) \/ webStore(v, slug, form)
          \/ \E slug \in Slugs, form \in {"whole", "untitled"} : webComment(v, slug, form)
          \/ \E slug \in Slugs : webShow(v, slug)
          \/ \E id \in 1 .. MaxPosts, form \in Forms : apiUpdate(v, id, form) \/ webUpdate(v, id, form)
          \/ \E id \in 1 .. MaxPosts, form \in {"whole", "untitled"} : apiComment(v, id, form)
          \/ \E id \in 1 .. MaxPosts :
                apiDelete(v, id) \/ webDelete(v, id) \/ apiShow(v, id) \/ apiComments(v, id)
          \/ \E id \in 1 .. MaxComments : apiUncomment(v, id) \/ webUncomment(v, id)
          \/ apiInserts(v) \/ apiUpdates(v) \/ shows(v) \/ comment(v)
    \/ seedPosts \/ seedComments

BlogSpec == BlogInit /\ [][BlogNext]_blogVars

BlogTypeOK ==
    /\ enforced \in BOOLEAN /\ seeding \in BOOLEAN /\ tasks \in 0 .. MaxTasks
    /\ DOMAIN posts \subseteq 1 .. lastPost /\ lastPost <= MaxPosts
    /\ \A id \in DOMAIN posts : posts[id].slug \in Slugs /\ posts[id].published \in BOOLEAN
    /\ DOMAIN comments \subseteq 1 .. lastComment /\ lastComment <= MaxComments
    /\ \A c \in DOMAIN comments : comments[c].post \in 1 .. MaxPosts /\ comments[c].slug \in Slugs
    /\ \A v \in Visitors : task[v].pc \in {"idle", "answered", "inserting", "updating", "reading",
                                           "commenting"}

-----------------------------------------------------------------------------
(* Properties.                                                             *)

\* Of two requests that both found a slug free one creates the post; a client that
\* was told 201 and an id finds its own post under it, or none (store()).
CreatedThere ==
    /\ \A p, q \in DOMAIN posts : posts[p].slug = posts[q].slug => p = q
    /\ \A v \in Visitors :
          task[v].status = 201 /\ "created" \in DOMAIN task[v] /\ task[v].created \in DOMAIN posts
             => posts[task[v].created].slug = task[v].slug

\* A comment is at the post its author saw, although that one may be deleted, and
\* another one created, between the lookup and the INSERT; with foreign keys it
\* does not outlive it (CommentController.store(), PostController.delete()).
CommentsWhereMeant ==
    \A c \in DOMAIN comments :
       IF comments[c].post \in DOMAIN posts
       THEN posts[comments[c].post].slug = comments[c].slug
       ELSE ~ enforced

\* A page shows the comments of the post it shows, although they are read later
\* (PostController.show()).
ShownTogether ==
    \A v \in Visitors :
       "shown" \in DOMAIN task[v] => task[v].shown \subseteq {task[v].slug}

=============================================================================
