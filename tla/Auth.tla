-------------------------------- MODULE Auth --------------------------------
(***************************************************************************)
(* Auth (auth.ts): logging in and out, asking who is logged in, and the    *)
(* guards, for the requests of one browser, over sessions in files         *)
(* (file_session.ts).  The application may use the same sessions and sends *)
(* the cookie then; Auth never does.  The data of a session is the set of  *)
(* its keys; the users and their passwords are outcomes.                   *)
(***************************************************************************)
EXTENDS Naturals, TLC

CONSTANTS
    BrowserCalls, \* requests of the browser that may be in progress
    MaxFiles,     \* bound: session ids ever taken
    MaxTries      \* bound: requests

VARIABLES
    stored,   \* the session files: the keys in each
    taken,    \* ids taken so far
    browser,  \* the id in the browser's cookie, 0 for none
    call,     \* the request: its progress, its session, its answer
    tries,    \* requests so far
    loggedIn  \* history: a login succeeded, and since then there was no logout,
              \* no file expired and no two requests overlapped

authVars == <<stored, taken, browser, call, tries, loggedIn>>

UserKey == "auth_user_id"

Call(pc, id, data, answer, due) ==
    [pc |-> pc, id |-> id, data |-> data, answer |-> answer, due |-> due]

Progress(r) == call[r].pc

Alone(r) == \A q \in BrowserCalls \ {r} : Progress(q) \in {"idle", "answered"}

\* getSession(): a file that is there is read, else an id is taken and no file
\* written.
Construct(r, pc) ==
    IF browser \in DOMAIN stored
    THEN /\ call' = [call EXCEPT ![r] = Call(pc, browser, stored[browser], FALSE, FALSE)]
         /\ UNCHANGED taken
    ELSE /\ taken < MaxFiles /\ taken' = taken + 1
         /\ call' = [call EXCEPT ![r] = Call(pc, taken + 1, {}, FALSE, FALSE)]

Begins(r) ==
    /\ Progress(r) \in {"idle", "answered"} /\ tries < MaxTries
    /\ tries' = tries + 1

\* attempt() and loginById() up to the session: no such user, no password, a
\* wrong one, or the right one.
attempt(r) ==
    /\ Begins(r)
    /\ \/ Construct(r, "login")
       \/ /\ call' = [call EXCEPT ![r] = Call("answered", 0, {}, FALSE, FALSE)]
          /\ UNCHANGED taken
    /\ loggedIn' = (loggedIn /\ Alone(r))
    /\ UNCHANGED <<stored, browser>>

\* regenerateId() deletes the file and, nothing being dirty, saves none; the user
\* is set and saved under the new id.
signsIn(r) ==
    LET c == call[r] IN
    /\ Progress(r) = "login" /\ taken < MaxFiles
    /\ taken' = taken + 1
    /\ stored' = (taken + 1 :> c.data \cup {UserKey})
                    @@ [id \in DOMAIN stored \ {c.id} |-> stored[id]]
    /\ call' = [call EXCEPT ![r] = Call("answered", 0, {}, TRUE, TRUE)]
    /\ loggedIn' = Alone(r)
    /\ UNCHANGED <<browser, tries>>

\* check(), user(), id(), and the guards, which ask check(): due is what the
\* login before makes one expect.
check(r) ==
    /\ Begins(r)
    /\ LET has == browser \in DOMAIN stored /\ UserKey \in stored[browser]
           asked(answer) == Call("answered", 0, {}, answer, Alone(r) /\ loggedIn)
       IN IF browser \in DOMAIN stored
          THEN call' = [call EXCEPT ![r] = asked(has)] /\ UNCHANGED taken
          ELSE taken < MaxFiles /\ taken' = taken + 1 /\ call' = [call EXCEPT ![r] = asked(FALSE)]
    /\ UNCHANGED <<stored, browser, loggedIn>>

logout(r) ==
    /\ Begins(r)
    /\ Construct(r, "logout")
    /\ loggedIn' = FALSE
    /\ UNCHANGED <<stored, browser>>

\* remove() makes the session dirty whether the key was there or not.
signsOut(r) ==
    LET c == call[r] IN
    /\ Progress(r) = "logout"
    /\ stored' = (c.id :> c.data \ {UserKey}) @@ stored
    /\ call' = [call EXCEPT ![r] = Call("answered", 0, {}, TRUE, TRUE)]
    /\ loggedIn' = FALSE
    /\ UNCHANGED <<taken, browser, tries>>

\* A handler of the application stores something and sends the cookie.
application(r) ==
    /\ Begins(r)
    /\ Construct(r, "application")
    /\ loggedIn' = (loggedIn /\ Alone(r))
    /\ UNCHANGED <<stored, browser>>

getCookie(r) ==
    LET c == call[r] IN
    /\ Progress(r) = "application"
    /\ stored' = (c.id :> c.data \cup {"app"}) @@ stored
    /\ browser' = c.id
    /\ call' = [call EXCEPT ![r] = Call("answered", 0, {}, TRUE, TRUE)]
    /\ UNCHANGED <<taken, tries, loggedIn>>

\* FileSession.gc().
collects(id) ==
    /\ stored' = [i \in DOMAIN stored \ {id} |-> stored[i]]
    /\ loggedIn' = FALSE
    /\ UNCHANGED <<taken, browser, call, tries>>

AuthInit ==
    /\ stored = <<>> /\ taken = 0 /\ browser = 0 /\ tries = 0 /\ loggedIn = FALSE
    /\ call = [r \in BrowserCalls |-> Call("idle", 0, {}, FALSE, FALSE)]

AuthNext ==
    \/ \E r \in BrowserCalls :
          \/ attempt(r) \/ signsIn(r) \/ check(r) \/ logout(r) \/ signsOut(r)
          \/ application(r) \/ getCookie(r)
    \/ \E id \in DOMAIN stored : collects(id)

AuthSpec == AuthInit /\ [][AuthNext]_authVars

\* "Check status" after "Attempt login" (auth.ts:36-44, docs/user-guide/auth.md):
\* who logged in is logged in for the next requests.  The code breaks it: the
\* user is stored under a new id that no cookie tells the browser of.
AttemptLogsIn ==
    \A r \in BrowserCalls : call[r].due => call[r].answer

=============================================================================
