---------------------------- MODULE QueryBuilder ----------------------------
(***************************************************************************)
(* A QueryBuilder (query_builder.ts) that one piece of code uses for one   *)
(* call after the other, the connection behind it (database.ts) and a      *)
(* table that other connections change meanwhile.  Model (model.ts) makes a*)
(* builder, calls from() and then one of these calls.                      *)
(*                                                                         *)
(* A query is what the database gets: the clauses with their placeholders  *)
(* and the bindings by position.  Columns are the key "id" and "val"; a    *)
(* clause says that a column has one of the values bound to it, which      *)
(* stands for where(), whereIn() and the like.                             *)
(***************************************************************************)
EXTENDS Integers, SequencesExt

CONSTANTS
    Adapters,     \* adapters the connection may have
    RowIds,       \* keys of the table, numbers
    Values,       \* values of its column "val", numbers
    Bounds,       \* sequences of values that clauses bind
    PerPage,      \* page size of paginate()
    MaxClauses,   \* bound: clauses in the builder
    MaxCalls,     \* bound: calls of the builder that run a query
    MaxElsewhere  \* bound: changes by other connections

ASSUME QueryBuilderAssumption ==
    /\ Adapters \subseteq {"sqlite", "postgres", "mysql"}
    /\ RowIds \cup Values \subseteq Nat \ {0}
    /\ PerPage \in Nat \ {0}
    /\ {MaxClauses, MaxCalls, MaxElsewhere} \subseteq Nat

VARIABLES
    dbAdapter,  \* the adapter of the connection
    adapterKnown, \* getDB() has recorded it in adapterTypes
    builder,
    sending,    \* the call whose query is on its way
    table,      \* the value of each row; 0 where there is none
    calls, elsewhere, \* the bounded counts
    intended,   \* history: the clauses added since the last call ended
    tainted,    \* history: the last call threw before it reset the builder
    outcome     \* history: what the last query did

queryVars == <<dbAdapter, adapterKnown, builder, sending, table, calls, elsewhere, intended,
               tainted, outcome>>

Clause == [or : BOOLEAN, col : {"id", "val"}, bound : Bounds]

\* table: how often the name was escaped, 0 when from() was not called; limit and
\* offset -1 are null.
Builder == [table : 0 .. 1, adapter : {"none", "sqlite", "postgres", "mysql"},
            count : BOOLEAN, wheres : Seq(Clause), limit : -1 .. Cardinality(RowIds),
            offset : -1 .. Cardinality(RowIds)]

NewBuilder == [table |-> 0, adapter |-> "none", count |-> FALSE, wheres |-> <<>>,
               limit |-> -1, offset |-> -1]

NoCall == [kind |-> "none"]

NoOutcome == [kind |-> "none"]

QueryTypeOK ==
    /\ dbAdapter \in Adapters
    /\ adapterKnown \in BOOLEAN
    /\ builder \in Builder
    /\ sending.kind \in {"none", "select", "count", "insert", "update",
                         "updateReturning", "delete", "reselect", "pageCount", "page"}
    /\ table \in [RowIds -> Values \cup {0}]
    /\ calls \in 0 .. MaxCalls /\ elsewhere \in 0 .. MaxElsewhere
    /\ intended \in Seq(Clause)
    /\ tainted \in BOOLEAN

QueryInit ==
    /\ dbAdapter \in Adapters
    /\ adapterKnown = FALSE
    /\ builder = NewBuilder
    /\ sending = NoCall
    /\ table \in [RowIds -> {CHOOSE v \in Values : TRUE, 0}]
    /\ calls = 0 /\ elsewhere = 0
    /\ intended = <<>>
    /\ tainted = FALSE
    /\ outcome = NoOutcome

-----------------------------------------------------------------------------
(* Building.                                                               *)

\* detectAdapter(): the first call of it settles the dialect; getDBAdapter() says
\* sqlite as long as there was no connection.
Detected == IF builder.adapter # "none" THEN builder.adapter
            ELSE IF adapterKnown THEN dbAdapter ELSE "sqlite"

\* Variant: reset() keeps the conditions.
ResetBarely == [NewBuilder EXCEPT !.adapter = Detected, !.wheres = builder.wheres]

\* reset(): the adapter stays.
Reset == [NewBuilder EXCEPT !.adapter = Detected]

Bindings(wheres) == FlattenSeq([i \in DOMAIN wheres |-> wheres[i].bound])

\* buildLimitOffset(): what is bound after the conditions.
PageBindings(b, adapter) ==
    IF adapter = "mysql" /\ b.limit # -1 /\ b.offset # -1 THEN <<b.offset, b.limit>>
    ELSE (IF b.limit # -1 THEN <<b.limit>> ELSE <<>>)
         \o (IF b.offset # -1 THEN <<b.offset>> ELSE <<>>)

\* The clauses as text: how they are joined, on what, with how many placeholders.
Text(wheres) == [i \in DOMAIN wheres |->
                    [or |-> wheres[i].or, col |-> wheres[i].col, n |-> Len(wheres[i].bound)]]

\* What a query was meant to be about: wheres, unless free.
Query(kind) == [kind |-> kind, dialect |-> Detected, wheres |-> intended, free |-> tainted]

\* buildSelect()
Select(b, kind) ==
    Query(kind) @@
    [escaped |-> b.table, text |-> Text(b.wheres), first |-> 0,
     bindings |-> Bindings(b.wheres) \o PageBindings(b, Detected),
     limit |-> b.limit # -1, offset |-> b.offset # -1]

\* buildInsert(), buildUpdate() and buildDelete() for a table name of the call or, when
\* that is omitted, the one of from(), escaped once more; set: the values bound first.
Write(kind, omitted, wheres, set) ==
    Query(kind) @@
    [escaped |-> IF omitted THEN 2 ELSE 1, text |-> Text(wheres), first |-> Len(set),
     bindings |-> set \o Bindings(wheres), limit |-> FALSE, offset |-> FALSE]

\* An error before reset(): the clauses stay in the builder.
Throws(b) ==
    /\ builder' = b
    /\ tainted' = TRUE
    /\ intended' = <<>>
    /\ UNCHANGED <<dbAdapter, adapterKnown, sending, table, elsewhere, outcome>>

Sends(query) ==
    /\ sending' = query
    /\ builder' = Reset
    /\ tainted' = FALSE
    /\ intended' = <<>>
    /\ UNCHANGED <<dbAdapter, adapterKnown, table, elsewhere, outcome>>

Calling ==
    /\ sending = NoCall
    /\ calls < MaxCalls
    /\ calls' = calls + 1

-----------------------------------------------------------------------------
(* The methods of the builder.                                             *)

unchangedByClauses == <<dbAdapter, adapterKnown, sending, table, calls, elsewhere, tainted, outcome>>

from ==
    /\ sending = NoCall /\ builder.table = 0
    /\ builder' = [builder EXCEPT !.table = 1, !.adapter = Detected]
    /\ UNCHANGED <<intended, unchangedByClauses>>

\* where(), orWhere(), whereIn(), whereBetween(), like() and the others.
where(clause) ==
    /\ sending = NoCall /\ Len(builder.wheres) < MaxClauses
    /\ builder' = [builder EXCEPT !.wheres = Append(@, clause)]
    /\ intended' = Append(intended, clause)
    /\ UNCHANGED unchangedByClauses

limit(n, m) ==
    /\ sending = NoCall
    /\ builder' = [builder EXCEPT !.limit = n, !.offset = m]
    /\ builder # builder'
    /\ UNCHANGED <<intended, unchangedByClauses>>

\* get(), and first() with a limit of 1, which stays when the build throws.
getRows(onlyFirst) ==
    LET b == IF onlyFirst THEN [builder EXCEPT !.limit = 1] ELSE builder IN
    /\ Calling
    /\ IF b.table = 0 THEN Throws(b) ELSE Sends(Select(b, IF b.count THEN "count" ELSE "select"))

\* count() and exists(): the select list is replaced for good when the build throws.
count ==
    LET b == [builder EXCEPT !.count = TRUE] IN
    /\ Calling
    /\ IF b.table = 0 THEN Throws(b) ELSE Sends(Select(b, "count"))

\* What a write throws without: a table, data, or a condition.
Refused(omitted, hasData, wheres) ==
    (omitted /\ builder.table = 0) \/ ~ hasData \/ wheres = <<>>

\* insert() and insertReturning()
insertRow(omitted, hasData, v) ==
    /\ Calling
    /\ IF Refused(omitted, hasData, <<0>>) THEN Throws(builder)
       ELSE Sends(Write("insert", omitted, <<>>, <<v>>))

\* update() and updateReturning()
update(omitted, hasData, v, returning) ==
    /\ Calling
    /\ IF Refused(omitted, hasData, builder.wheres) THEN Throws(builder)
       ELSE Sends(Write(IF returning THEN "updateReturning" ELSE "update", omitted,
                        builder.wheres, <<v>>))

deleteRows(omitted) ==
    /\ Calling
    /\ IF Refused(omitted, TRUE, builder.wheres) THEN Throws(builder)
       ELSE Sends(Write("delete", omitted, builder.wheres, <<>>))

\* clone()
Cloned == builder

\* paginate(): the clone counts; the builder itself is not reset yet.
paginate(page) ==
    LET b == [Cloned EXCEPT !.count = TRUE] IN
    /\ Calling
    /\ IF b.table = 0 THEN Throws(builder)
       ELSE /\ sending' = Select(b, "pageCount") @@ [page |-> page]
            /\ UNCHANGED <<dbAdapter, adapterKnown, builder, table, elsewhere, intended,
                           tainted, outcome>>

-----------------------------------------------------------------------------
(* The database.                                                           *)

\* The values of the i-th clause, by position.
Given(q, i) ==
    LET before == FoldLeft(LAMBDA a, t : a + t.n, q.first, SubSeq(q.text, 1, i - 1))
    IN {q.bindings[k] : k \in before + 1 .. before + q.text[i].n}

\* A row under conditions that are joined left to right, AND before OR; true
\* holds the positions of those that hold.
Satisfied(ors, true) ==
    ors = <<>> \/ \E i \in DOMAIN ors : (i = 1 \/ ors[i]) /\
       \A j \in i .. Len(ors) : (\A k \in i + 1 .. j : ~ ors[k]) => j \in true

Column(id, col) == IF col = "id" THEN id ELSE table[id]

Existing == {id \in RowIds : table[id] # 0}

\* The rows a query is about, and those its caller meant.
Matching(q) ==
    {id \in Existing : Satisfied([i \in DOMAIN q.text |-> q.text[i].or],
                                 {i \in DOMAIN q.text : Column(id, q.text[i].col) \in Given(q, i)})}

Meant(wheres) ==
    {id \in Existing :
        Satisfied([i \in DOMAIN wheres |-> wheres[i].or],
                  {i \in DOMAIN wheres : Column(id, wheres[i].col) \in Range(wheres[i].bound)})}

\* LIMIT and OFFSET as the text has them; -1 for none.
LastBinding(q, back) == q.bindings[Len(q.bindings) - back]

LimitOf(q) == IF ~ q.limit THEN -1
              ELSE IF q.offset /\ q.dialect # "mysql" THEN LastBinding(q, 1) ELSE LastBinding(q, 0)

OffsetOf(q) == IF ~ q.offset THEN 0
               ELSE IF q.limit /\ q.dialect = "mysql" THEN LastBinding(q, 1) ELSE LastBinding(q, 0)

Page(ids, q) ==
    LET rank(id) == Cardinality({j \in ids : j < id}) IN
    {id \in ids : rank(id) >= OffsetOf(q)
                  /\ (LimitOf(q) = -1 \/ rank(id) < OffsetOf(q) + LimitOf(q))}

\* What the database refuses: a name that was escaped twice, the identifiers of
\* another dialect, an empty IN list or an OFFSET alone where they are not known.
Faulty(q) ==
    \/ q.escaped = 2
    \/ dbAdapter # q.dialect /\ "mysql" \in {dbAdapter, q.dialect}
    \/ dbAdapter # "sqlite" /\ \E i \in DOMAIN q.text : q.text[i].n = 0
    \/ dbAdapter # "postgres" /\ q.offset /\ ~ q.limit

Served(rest) ==
    /\ adapterKnown' = TRUE
    /\ sending' = rest

rejected ==
    /\ sending # NoCall
    /\ Faulty(sending)
    /\ Served(NoCall)
    /\ outcome' = NoOutcome
    \* paginate() throws before it resets the builder.
    /\ tainted' = (sending.kind = "pageCount" \/ tainted)
    /\ intended' = IF sending.kind = "pageCount" THEN <<>> ELSE intended
    /\ UNCHANGED <<dbAdapter, builder, table, calls, elsewhere>>

\* SELECT and SELECT COUNT(*).
selected ==
    LET q == sending
        cut(ids) == IF q.kind = "count" THEN ids ELSE Page(ids, q)
    IN
    /\ q.kind \in {"select", "count"} /\ ~ Faulty(q)
    /\ Served(NoCall)
    /\ outcome' = [kind |-> "rows", ids |-> cut(Matching(q)), meant |-> cut(Meant(q.wheres)),
                   free |-> q.free]
    /\ UNCHANGED <<dbAdapter, builder, table, calls, elsewhere, intended, tainted>>

\* INSERT, which gives the row a key of its own; MySQL reads it again by that key.
inserted(id) ==
    LET q == sending IN
    /\ q.kind = "insert" /\ ~ Faulty(q)
    /\ id \notin Existing
    /\ table' = [table EXCEPT ![id] = q.bindings[1]]
    /\ outcome' = NoOutcome
    /\ Served(IF q.dialect = "mysql" THEN [q EXCEPT !.kind = "reselect"] ELSE NoCall)
    /\ UNCHANGED <<dbAdapter, builder, calls, elsewhere, intended, tainted>>

\* UPDATE and DELETE.  updateReturning() gets the rows from RETURNING or, in MySQL,
\* by a SELECT with the same conditions.
written ==
    LET q == sending
        ids == Matching(q)
    IN
    /\ q.kind \in {"update", "updateReturning", "delete"} /\ ~ Faulty(q)
    /\ table' = [id \in RowIds |->
                    IF id \notin ids THEN table[id]
                    ELSE IF q.kind = "delete" THEN 0 ELSE q.bindings[1]]
    /\ outcome' = [kind |-> "rows", ids |-> ids, meant |-> Meant(q.wheres), free |-> q.free]
    /\ Served(IF q.kind = "updateReturning" /\ q.dialect = "mysql"
              THEN [q EXCEPT !.kind = "reselect"] ELSE NoCall)
    /\ UNCHANGED <<dbAdapter, builder, calls, elsewhere, intended, tainted>>

\* The SELECT after a write, by the new key or by the conditions of the UPDATE:
\* what its caller is handed.
reselected ==
    /\ sending.kind = "reselect"
    /\ Served(NoCall)
    /\ UNCHANGED <<dbAdapter, builder, table, calls, elsewhere, intended, tainted, outcome>>

\* The count of paginate() is there; its get() follows.
counted ==
    LET q == sending
        total == IF OffsetOf(q) > 0 \/ LimitOf(q) = 0 THEN 0 ELSE Cardinality(Matching(q))
        b == [builder EXCEPT !.limit = PerPage, !.offset = (q.page - 1) * PerPage]
    IN
    /\ q.kind = "pageCount" /\ ~ Faulty(q)
    /\ Served(Select(b, "page") @@ [total |-> total, seen |-> table,
                                    paged |-> q.offset \/ q.limit])
    /\ builder' = Reset
    /\ tainted' = FALSE
    /\ intended' = <<>>
    /\ outcome' = NoOutcome
    /\ UNCHANGED <<dbAdapter, table, calls, elsewhere>>

paged ==
    LET q == sending IN
    /\ q.kind = "page" /\ ~ Faulty(q)
    /\ Served(NoCall)
    /\ outcome' = [kind |-> "page", ids |-> Page(Matching(q), q), total |-> q.total,
                   from |-> OffsetOf(q), meant |-> Meant(q.wheres),
                   exact |-> q.seen = table /\ ~ q.paged /\ ~ q.free]
    /\ UNCHANGED <<dbAdapter, builder, table, calls, elsewhere, intended, tainted>>

\* Another connection writes.
writtenElsewhere(id, v) ==
    /\ elsewhere < MaxElsewhere
    /\ sending # NoCall
    /\ elsewhere' = elsewhere + 1
    /\ table' = [table EXCEPT ![id] = v]
    /\ UNCHANGED <<dbAdapter, adapterKnown, builder, sending, calls, intended, tainted, outcome>>

\* The code around begins anew: a builder of its own, as Model.qb() makes.
newBuilder ==
    /\ sending = NoCall /\ builder # NewBuilder
    /\ builder' = NewBuilder
    /\ intended' = <<>>
    /\ tainted' = FALSE
    /\ UNCHANGED <<dbAdapter, adapterKnown, sending, table, calls, elsewhere, outcome>>

QueryNext ==
    \/ from
    \/ \E clause \in Clause : where(clause)
    \/ \E n \in {1}, m \in {-1, 1} : limit(n, m)
    \/ \E onlyFirst \in BOOLEAN : getRows(onlyFirst)
    \/ count
    \/ \E omitted, hasData, returning \in BOOLEAN, v \in Values :
          update(omitted, hasData, v, returning)
    \/ \E omitted \in BOOLEAN : deleteRows(omitted)
    \/ \E page \in 1 .. 2 : paginate(page)
    \/ \E omitted, hasData \in BOOLEAN, v \in Values : insertRow(omitted, hasData, v)
    \/ \E id \in RowIds : inserted(id)
    \/ rejected \/ selected \/ written \/ reselected \/ counted \/ paged
    \/ \E id \in RowIds, v \in Values \cup {0} : writtenElsewhere(id, v)
    \/ newBuilder

QuerySpec == QueryInit /\ [][QueryNext]_queryVars

-----------------------------------------------------------------------------
(* Properties.                                                             *)

\* get(), count(), update(), delete(), reset(): a query reads or changes exactly the
\* rows that the conditions given since the last call select, unless the call
\* before threw and left its clauses in the builder.
RowsAsMeant ==
    outcome.kind = "rows" /\ ~ outcome.free => outcome.ids = outcome.meant

\* paginate(): the total and the page agree when no one changed the table in
\* between and the builder had no limit of its own.
PageMatchesTotal ==
    outcome.kind = "page" /\ outcome.exact =>
       /\ outcome.total = Cardinality(outcome.meant)
       /\ outcome.ids \subseteq outcome.meant
       /\ Cardinality(outcome.ids) =
             IF outcome.total <= outcome.from THEN 0
             ELSE IF outcome.total - outcome.from < PerPage THEN outcome.total - outcome.from
             ELSE PerPage

\* get(), count(), update(), delete(), reset() and paginate() do both, for one builder
\* used again and again.
QueriesAsMeant == QueryTypeOK /\ RowsAsMeant /\ PageMatchesTotal

=============================================================================
