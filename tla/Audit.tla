-------------------------------- MODULE Audit --------------------------------
(***************************************************************************)
(* AuditLog (audit_log.ts), the pages that show it (audit_log_ui.ts), and  *)
(* the logger that gets a line for every entry (logger.ts).  An entry is   *)
(* its event, its type of entity and its user; values, addresses and texts *)
(* are left out, and so is the event stream of the pages, which is opened, *)
(* kept alive, and never told anything.                                    *)
(***************************************************************************)
EXTENDS Naturals, Integers, SequencesExt, FiniteSetsExt, TLC

CONSTANTS
    Recorders,       \* who records an entry and waits for it
    Auditors,        \* who looks at the pages and asks the API
    AuditEvents, EntityTypes, AuditUsers,
    AuditOptions,    \* what configure() is called with
    Tracked,         \* what track() is called with: a type and its events
    Filters,         \* queries of the pages: an event, a type, a user, "" where none is given
    RowsOnLeaf,      \* perPage
    OldestOnly,      \* limit of getLogs() and the others: 50
    MaxLogSize, MaxLogFiles,
    MaxEntries,      \* bound: entries ever recorded
    MaxLooks,        \* bound: pages and answers of the API
    MaxDays          \* bound: days

ASSUME AuditAssumption ==
    /\ RowsOnLeaf \in Nat \ {0}
    /\ {OldestOnly, MaxLogSize, MaxLogFiles, MaxEntries, MaxLooks, MaxDays} \subseteq Nat

VARIABLES
    auditConfig, \* AuditLog.config
    tracked,     \* trackedModels
    made,        \* createTable() was called
    entries,     \* the table audit_logs: an entry's id is its position
    recorder,    \* the call of log() in progress, or what it returned
    auditLeaf,   \* what each auditor has in front of it
    auditWalk,   \* history: the ids seen on pages 1, 2, ... in turn
    looks,       \* pages and answers so far
    today,       \* the date in the name of the log file
    logFiles,    \* the lines of each day's file
    emailsLog,   \* emails.log is in the same directory
    logged       \* history: the lines written each day

auditVars ==
    <<auditConfig, tracked, made, entries, recorder, auditLeaf, auditWalk, looks, today,
      logFiles, emailsLog, logged>>

tableVars == <<auditConfig, tracked, made, entries, recorder>>
leafVars == <<auditLeaf, auditWalk, looks>>
logVars == <<today, logFiles, emailsLog, logged>>

AuditEntry(event, type, user) == [event |-> event, type |-> type, user |-> user]

-----------------------------------------------------------------------------
(* The logger.                                                             *)

\* How many of the .log files are too many for rotateLogs().
Surplus == Cardinality(DOMAIN logFiles) + (IF emailsLog THEN 1 ELSE 0) - MaxLogFiles

\* Another order of the files: the newest goes first.
SurvivingOldest ==
    {day \in DOMAIN logFiles : Cardinality({d \in DOMAIN logFiles : d > day}) >= Surplus}

\* rotateLogs(): while there are too many files, the first by name is deleted: this
\* logger's in the order of their days, today's among them, and then emails.log.
Surviving == {day \in DOMAIN logFiles : Cardinality({d \in DOMAIN logFiles : d < day}) >= Surplus}

\* writeToFile(): where today's file is too long the files are rotated; the line goes
\* to today's file, which is made where there is none (any more).
Writes ==
    LET rotates == today \in DOMAIN logFiles /\ logFiles[today] > MaxLogSize
        kept == IF rotates THEN Surviving ELSE DOMAIN logFiles
        lines == IF today \in kept THEN logFiles[today] ELSE 0
    IN /\ logFiles' = (today :> lines + 1) @@ [day \in kept |-> logFiles[day]]
       /\ emailsLog' = (emailsLog /\ ~ (rotates /\ Surplus > Cardinality(DOMAIN logFiles)))
       /\ logged' = [logged EXCEPT ![today] = @ + 1]

\* Another line, of any part of the program.
logs ==
    /\ logged[today] < MaxEntries
    /\ Writes
    /\ UNCHANGED <<tableVars, leafVars, today>>

nextDay ==
    /\ today < MaxDays /\ today' = today + 1
    /\ UNCHANGED <<tableVars, leafVars, logFiles, emailsLog, logged>>

\* Email with the driver "log" writes to emails.log (email.ts).
emailLogged ==
    /\ emailsLog' = TRUE
    /\ UNCHANGED <<tableVars, leafVars, today, logFiles, logged>>

-----------------------------------------------------------------------------
(* AuditLog.                                                               *)

configureAudit(partial) ==
    /\ auditConfig' = partial @@ auditConfig
    /\ UNCHANGED <<tracked, made, entries, recorder, leafVars, logVars>>

createTable ==
    /\ made' = TRUE
    /\ UNCHANGED <<auditConfig, tracked, entries, recorder, leafVars, logVars>>

track(type, events) ==
    /\ tracked' = (type :> events) @@ tracked
    /\ UNCHANGED <<auditConfig, made, entries, recorder, leafVars, logVars>>

IsRecorded(event) ==
    auditConfig.enabled /\ (auditConfig.trackEvents = {} \/ event \in auditConfig.trackEvents)

Records(c, event, type, user) ==
    /\ recorder[c].pc # "saving"
    /\ recorder' = [recorder EXCEPT
                      ![c] = IF IsRecorded(event)
                             THEN [pc |-> "saving", entry |-> AuditEntry(event, type, user)]
                             ELSE [pc |-> "null"]]
    /\ UNCHANGED <<auditConfig, tracked, made, entries, leafVars, logVars>>

\* log(), logCreate() and the others up to the INSERT.
log(c, event, type, user) == Records(c, event, type, user)

\* onModelEvent(): the application calls it, no model does.
onModelEvent(c, event, type, user) ==
    /\ type \in DOMAIN tracked /\ event \in tracked[type]
    /\ Records(c, event, type, user)

\* log() from the INSERT on.  An error is swallowed: the line is written and the
\* entry returned all the same.  logToFile is what it is by now.
saved(c) ==
    LET r == recorder[c] IN
    /\ r.pc = "saving"
    /\ \/ made /\ Len(entries) < MaxEntries /\ entries' = Append(entries, r.entry)
       \/ UNCHANGED entries
    /\ IF auditConfig.logToFile THEN logged[today] < MaxEntries /\ Writes
                                ELSE UNCHANGED <<logFiles, emailsLog, logged>>
    /\ recorder' = [recorder EXCEPT ![c] = [r EXCEPT !.pc = "entry"]]
    /\ UNCHANGED <<auditConfig, tracked, made, leafVars, today>>

-----------------------------------------------------------------------------
(* The pages and the API.                                                  *)

MatchingIds(Test(_)) == SetToSortSeq({id \in 1 .. Len(entries) : Test(entries[id])}, <)

OldestIds(ids, limit) == SubSeq(ids, 1, Min({limit, Len(ids)}))

\* getLogsByEvent(), getLogs(), getLogsByUser(), findAll(): one filter counts, and
\* rows come in the order of their ids.
Matches(filter) ==
    IF filter.event # "" THEN MatchingIds(LAMBDA e : e.event = filter.event)
    ELSE IF filter.type # "" THEN MatchingIds(LAMBDA e : e.type = filter.type)
    ELSE IF filter.user # "" THEN MatchingIds(LAMBDA e : e.user = filter.user)
    ELSE MatchingIds(LAMBDA e : TRUE)

NoFilter == [event |-> "", type |-> "", user |-> ""]

NotTurned == [filter |-> NoFilter, page |-> 0, rows |-> 0, total |-> 0, ids |-> <<>>]

\* What is read for a page: with a filter, no more than is needed up to its end.
ReadFor(filter, page) ==
    IF filter = NoFilter THEN Matches(filter) ELSE OldestIds(Matches(filter), RowsOnLeaf * page)

\* A variant that counts pages from 0.
FirstOnLeafFromZero(page) == page * RowsOnLeaf + 1

FirstOnLeaf(page) == (page - 1) * RowsOnLeaf + 1

Looked == looks < MaxLooks /\ looks' = looks + 1 /\ UNCHANGED <<tableVars, logVars>>

\* Next is offered where more rows were read than fit on the pages so far.
OffersNext(w) == w.page < (w.total + RowsOnLeaf - 1) \div RowsOnLeaf

\* The page in HTML; when the query fails it is empty.  The history goes on with
\* the page that follows a full one.
auditPage(v, filter, page) ==
    LET w == auditWalk[v]
        read == ReadFor(filter, page)
        ids == SubSeq(read, FirstOnLeaf(page), Min({page * RowsOnLeaf, Len(read)}))
        turns == w.filter = filter /\ w.page = page - 1 /\ Len(w.ids) = w.page * RowsOnLeaf
    IN
    /\ Looked
    /\ \/ /\ made
          /\ auditLeaf' = [auditLeaf EXCEPT ![v] = [status |-> 200, ids |-> ids, total |-> Len(read)]]
          /\ auditWalk' = [auditWalk EXCEPT
                ![v] = IF page = 1
                       THEN [filter |-> filter, page |-> 1, rows |-> Len(Matches(filter)),
                             total |-> Len(read), ids |-> ids]
                       ELSE IF turns
                       THEN [w EXCEPT !.page = page, !.total = Len(read), !.ids = @ \o ids]
                       ELSE NotTurned]
       \/ /\ auditLeaf' = [auditLeaf EXCEPT ![v] = [status |-> 200, ids |-> <<>>, total |-> 0]]
          /\ auditWalk' = [auditWalk EXCEPT ![v] = NotTurned]

Replies(v, reply) == auditLeaf' = [auditLeaf EXCEPT ![v] = reply] /\ UNCHANGED auditWalk

Reply(status, ids) == [status |-> status, ids |-> ids, total |-> Len(ids)]

\* GET api/entity/:type, api/event/:event, api/user/:id.
apiEntries(v, filter) ==
    /\ Looked
    /\ \/ made /\ Replies(v, Reply(200, OldestIds(Matches(filter), OldestOnly)))
       \/ Replies(v, Reply(500, <<>>))

\* GET api/:id.
apiEntry(v, id) ==
    /\ Looked
    /\ \/ made /\ Replies(v, IF id <= Len(entries) THEN Reply(200, <<id>>) ELSE Reply(404, <<>>))
       \/ Replies(v, Reply(500, <<>>))

\* GET api/stats: it reads all rows and counts them by event.
apiStats(v) == apiEntries(v, NoFilter)

-----------------------------------------------------------------------------

AuditInit ==
    /\ auditConfig = [enabled |-> FALSE, trackEvents |-> {"create", "update", "delete"},
                      logToFile |-> TRUE]
    /\ tracked = <<>> /\ made = FALSE /\ entries = <<>>
    /\ recorder = [c \in Recorders |-> [pc |-> "null"]]
    /\ auditLeaf = [v \in Auditors |-> Reply(0, <<>>)]
    /\ auditWalk = [v \in Auditors |-> NotTurned]
    /\ looks = 0 /\ today = 1 /\ logFiles = <<>> /\ emailsLog = FALSE
    /\ logged = [day \in 1 .. MaxDays |-> 0]

AuditNext ==
    \/ \E c \in Recorders :
          \/ \E event \in AuditEvents, type \in EntityTypes, user \in AuditUsers :
                log(c, event, type, user) \/ onModelEvent(c, event, type, user)
          \/ saved(c)
    \/ \E v \in Auditors :
          \/ \E filter \in Filters, page \in 1 .. MaxEntries + 1 : auditPage(v, filter, page)
          \/ \E filter \in Filters \ {NoFilter} : apiEntries(v, filter)
          \/ \E id \in 1 .. MaxEntries : apiEntry(v, id)
          \/ apiStats(v)
    \/ \E partial \in AuditOptions : configureAudit(partial)
    \/ \E t \in Tracked : track(t[1], t[2])
    \/ createTable \/ logs \/ emailLogged \/ nextDay

AuditSpec == AuditInit /\ [][AuditNext]_auditVars

AuditTypeOK ==
    /\ auditConfig.enabled \in BOOLEAN /\ auditConfig.logToFile \in BOOLEAN /\ made \in BOOLEAN
    /\ DOMAIN tracked \subseteq EntityTypes
    /\ Len(entries) <= MaxEntries
    /\ \A id \in 1 .. Len(entries) : entries[id].event \in AuditEvents /\ entries[id].type \in EntityTypes
    /\ \A c \in Recorders : recorder[c].pc \in {"null", "saving", "entry"}
    /\ \A v \in Auditors : ToSet(auditLeaf[v].ids) \cup ToSet(auditWalk[v].ids) \subseteq 1 .. Len(entries)
    /\ today \in 1 .. MaxDays /\ looks \in 0 .. MaxLooks
    /\ DOMAIN logFiles \subseteq 1 .. MaxDays /\ emailsLog \in BOOLEAN

-----------------------------------------------------------------------------
(* Properties.                                                             *)

\* Whoever turns the pages sees each entry once and in order, and stops, where
\* nothing more is offered, only after all that was there when page 1 was read,
\* although entries are recorded meanwhile (audit_log_ui.ts:299-317).  With a
\* filter the code never offers a next page: the promise is for the pages without.
PagesOnce ==
    \A v \in Auditors :
       LET w == auditWalk[v] IN
       w.page > 0 =>
          /\ IsPrefix(w.ids, Matches(w.filter))
          /\ w.filter = NoFilter /\ ~ OffersNext(w) => Len(w.ids) >= w.rows

\* Rotation deletes the oldest files and nothing of the day's own lines, although
\* it is the day's file that grew too long (rotateLogs()), wherever maxFiles leaves
\* room for emails.log, which sorts last, and for one more.
LinesKept ==
    MaxLogFiles > 1 =>
       \A day \in 1 .. today :
          IF day \in DOMAIN logFiles THEN logFiles[day] = logged[day]
          ELSE logged[day] > 0 => day < today /\ \A kept \in DOMAIN logFiles : kept > day

\* What the comment in rotateLogs() says is deleted are old files: the lines of today
\* stay, whatever maxFiles is.  With maxFiles = 1 and emails.log beside it today's own
\* file is the first by name and goes (logger.ts:169-178).
TodayKept == logged[today] > 0 => today \in DOMAIN logFiles /\ logFiles[today] = logged[today]

\* The first page without a filter shows the most recent entry, as the comment
\* beside its query says; the query sorts nothing, so rows come oldest first
\* (audit_log_ui.ts:309-317).
LatestShown ==
    \A v \in Auditors :
       LET w == auditWalk[v] IN
       w.page = 1 /\ w.filter = NoFilter /\ w.rows > 0 => w.rows \in ToSet(w.ids)

=============================================================================
