-------------------------------- MODULE Pages --------------------------------
(***************************************************************************)
(* Lists that are read page by page (QueryBuilder.paginate, the lists of   *)
(* posts in examples/blog, pagination.ts): one query counts the rows, a    *)
(* second one reads the page, and readers go on by the links of the page,  *)
(* while posts come and go.  Newest rows come first; among the rows of one *)
(* second the order is that of their ids.                                  *)
(***************************************************************************)
EXTENDS Naturals, Integers, SequencesExt, FiniteSetsExt

CONSTANTS
    Readers,    \* who reads the list
    RowsOnPage, \* perPage
    MaxVisible, \* paginationHtml(): maxPages
    MaxListed,  \* bound: rows ever there
    MaxOpened,  \* bound: pages opened
    MaxTotal    \* bound: lists for which the row of links is compared

ASSUME PagesAssumption ==
    /\ {RowsOnPage, MaxVisible} \subseteq Nat \ {0}
    /\ {MaxListed, MaxOpened, MaxTotal} \subseteq Nat

VARIABLES
    listed,   \* the rows that the list is made of
    lastRow,  \* the newest row there ever was
    leaf,     \* what each reader has in front of it
    walk,     \* history: what it has seen since it opened page 1
    opened    \* pages opened so far

pagesVars == <<listed, lastRow, leaf, walk, opened>>

NoLeaf == [pc |-> "none", page |-> 1, total |-> 0, data |-> <<>>]

\* rows: the list when page 1 was counted; twice: rows seen again; deleted,
\* inserted: the list changed; between: a row came in after the count of this page
\* and before its rows; next: page 1 and then only next pages were opened.
NoWalk == [rows |-> {}, seen |-> {}, twice |-> FALSE, deleted |-> FALSE,
           inserted |-> FALSE, between |-> FALSE, next |-> FALSE]

TotalPages(total) == (total + RowsOnPage - 1) \div RowsOnPage

HasNext(r) == leaf[r].page < TotalPages(leaf[r].total)

HasPrev(r) == leaf[r].page > 1

\* A variant that counts pages from 0.
PageOffsetFromZero(page) == page * RowsOnPage

PageOffset(page) == (page - 1) * RowsOnPage

NewestFirst == Reverse(SetToSortSeq(listed, <))

Larger(a, b) == IF a > b THEN a ELSE b

Smaller(a, b) == IF a < b THEN a ELSE b

\* A variant that goes on below page 1.
FirstAroundUnbounded(current, visible) == current - visible \div 2

\* The first number shown, where the window does not touch the end.
FirstAround(current, visible) == Larger(1, current - visible \div 2)

\* getPageRange(): the numbers around the current page, the first and the last
\* one; 0 is an ellipsis.
PageRange(current, total, visible) ==
    LET from == FirstAround(current, visible)
        end == Smaller(total, from + visible - 1)
        start == IF end = total THEN Larger(1, end - visible + 1) ELSE from
        numbers(a, b) == [i \in 1 .. Larger(0, b - a + 1) |-> a + i - 1]
    IN IF total <= visible THEN numbers(1, total)
       ELSE (IF start > 1 THEN <<1>> ELSE <<>>) \o (IF start > 2 THEN <<0>> ELSE <<>>)
               \o numbers(start, end)
               \o (IF end < total - 1 THEN <<0>> ELSE <<>>) \o (IF end < total THEN <<total>> ELSE <<>>)

\* paginationHtml(): the pages that the links lead to.
LinksOf(r) ==
    LET total == TotalPages(leaf[r].total) IN
    IF total <= 1 THEN {}
    ELSE (ToSet(PageRange(leaf[r].page, total, MaxVisible)) \ {0})
            \cup (IF HasPrev(r) THEN {1, leaf[r].page - 1} ELSE {})
            \cup (IF HasNext(r) THEN {total, leaf[r].page + 1} ELSE {})

\* A variant for which the last page is a full one, too.
FromToFull(r) ==
    LET l == leaf[r] IN
    <<IF l.total = 0 THEN 0 ELSE (l.page - 1) * RowsOnPage + 1, l.page * RowsOnPage>>

\* paginationInfo(): the first and the last row that the text names.
FromTo(r) ==
    LET l == leaf[r] IN
    <<IF l.total = 0 THEN 0 ELSE (l.page - 1) * RowsOnPage + 1,
      Smaller(l.page * RowsOnPage, l.total)>>

-----------------------------------------------------------------------------

\* paginate() and PostController.index() up to the count.
counts(r, page) ==
    /\ opened < MaxOpened /\ opened' = opened + 1
    /\ leaf' = [leaf EXCEPT ![r] = [NoLeaf EXCEPT !.pc = "counted", !.page = page,
                                                  !.total = Cardinality(listed)]]
    /\ UNCHANGED <<listed, lastRow>>

\* Page 1 is the default; a page number may also be typed or kept from earlier.
opens(r, page) ==
    /\ leaf[r].pc # "counted"
    /\ counts(r, page)
    /\ walk' = [walk EXCEPT ![r] = [NoWalk EXCEPT !.rows = listed, !.next = page = 1]]

follows(r, page) ==
    /\ leaf[r].pc = "shown" /\ page \in LinksOf(r)
    /\ counts(r, page)
    /\ walk' = [walk EXCEPT ![r].next = @ /\ page = leaf[r].page + 1, ![r].between = FALSE]

\* The rows of the page.
reads(r) ==
    LET offset == PageOffset(leaf[r].page)
        data == SubSeq(NewestFirst, offset + 1, Smaller(offset + RowsOnPage, Cardinality(listed)))
    IN
    /\ leaf[r].pc = "counted"
    /\ leaf' = [leaf EXCEPT ![r].pc = "shown", ![r].data = data]
    /\ walk' = [walk EXCEPT ![r].seen = @ \cup ToSet(data),
                            ![r].twice = @ \/ walk[r].seen \cap ToSet(data) # {}]
    /\ UNCHANGED <<listed, lastRow, opened>>

\* A post is created or published: the first row of the list from now on.
enters ==
    /\ lastRow < MaxListed /\ lastRow' = lastRow + 1
    /\ listed' = listed \cup {lastRow + 1}
    /\ walk' = [r \in Readers |-> [walk[r] EXCEPT !.inserted = TRUE,
                                                  !.between = @ \/ leaf[r].pc = "counted"]]
    /\ UNCHANGED <<leaf, opened>>

\* A post is deleted, or no longer published.
leaves(row) ==
    /\ listed' = listed \ {row}
    /\ walk' = [r \in Readers |-> [walk[r] EXCEPT !.deleted = TRUE]]
    /\ UNCHANGED <<lastRow, leaf, opened>>

PagesInit ==
    /\ lastRow \in 0 .. MaxListed /\ listed = 1 .. lastRow
    /\ leaf = [r \in Readers |-> NoLeaf] /\ walk = [r \in Readers |-> NoWalk] /\ opened = 0

PagesNext ==
    \/ \E r \in Readers :
          \/ \E page \in 1 .. TotalPages(MaxListed) : opens(r, page) \/ follows(r, page)
          \/ reads(r)
    \/ enters
    \/ \E row \in listed : leaves(row)

PagesSpec == PagesInit /\ [][PagesNext]_pagesVars

PagesTypeOK ==
    /\ lastRow \in 0 .. MaxListed /\ listed \subseteq 1 .. lastRow /\ opened \in 0 .. MaxOpened
    /\ \A r \in Readers :
          /\ leaf[r].pc \in {"none", "counted", "shown"}
          /\ ToSet(leaf[r].data) \subseteq 1 .. lastRow /\ Len(leaf[r].data) <= RowsOnPage
          /\ walk[r].rows \cup walk[r].seen \subseteq 1 .. lastRow

-----------------------------------------------------------------------------
(* Properties.                                                             *)

\* Who opens page 1 and follows the link to the next page until there is none has
\* seen every row that was there, although others came in meanwhile, and none of
\* them twice when nothing changed (paginate()).  Two things void the promise: a
\* row that is deleted makes the later ones slip back a page, and a row that comes
\* in between the count of the last page and its rows pushes one off that page.
WalkedThrough ==
    \A r \in Readers :
       leaf[r].pc = "shown" /\ walk[r].next /\ ~ walk[r].deleted =>
          /\ ~ HasNext(r) /\ ~ walk[r].between => walk[r].rows \subseteq walk[r].seen
          /\ walk[r].twice => walk[r].inserted

\* "1-15 of 150" counts the rows in front of the reader (paginationInfo()), unless
\* the list changed.
InfoTrue ==
    \A r \in Readers :
       leaf[r].pc = "shown" /\ ~ walk[r].deleted /\ ~ walk[r].inserted
             /\ leaf[r].page \in 1 .. TotalPages(leaf[r].total) =>
          Len(leaf[r].data) = FromTo(r)[2] - FromTo(r)[1] + 1

\* The row of links has the first, the last and the current page, in order, and an
\* ellipsis exactly where pages are left out, for any number of pages (getPageRange());
\* every page that the list had when it was counted can be reached one by one, and
\* no other (paginationHtml()).
LinksInOrder ==
    /\ \A total \in 2 .. MaxTotal, visible \in 1 .. MaxTotal :
          \A current \in 1 .. total :
             LET range == PageRange(current, total, visible)
                 numbers == SelectSeq(range, LAMBDA p : p # 0)
             IN /\ numbers[1] = 1 /\ Last(numbers) = total /\ current \in ToSet(numbers)
                /\ \A i \in 1 .. Len(range) - 1 :
                      IF range[i + 1] = 0 THEN range[i + 2] > range[i] + 1
                      ELSE range[i] # 0 => range[i + 1] = range[i] + 1
                /\ Len(numbers) <= visible + 2
    /\ \A r \in Readers :
          LET pages == 1 .. TotalPages(leaf[r].total)
              page == leaf[r].page
          IN leaf[r].pc = "shown" /\ page \in pages =>
                {page - 1, page + 1} \cap pages \subseteq LinksOf(r) /\ LinksOf(r) \subseteq pages

=============================================================================
