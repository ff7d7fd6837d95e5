--------------------------- MODULE CatalogueLists ---------------------------
(***************************************************************************)
(* How the books are listed page by page while they change: search_catalog *)
(* (services/catalog_read.py) behind GET /public-catalog/books and the MCP *)
(* tool bookshelf_search_books, GET /books, and the two lists of the front *)
(* end that load more on demand (SharedBookshelfView.vue, useBooks.ts).    *)
(*                                                                         *)
(* Pages are cut by offset out of the books that match, last changed first.*)
(* A scene has one reader: an "agent" with the cursors of MCP, a "visitor" *)
(* of the public API, the "house" list of the members or the "shared" list *)
(* of the visitors in the browser.                                         *)
(***************************************************************************)
EXTENDS CoverThumbnails

CONSTANTS
    Filter,     \* what can be searched for: records of title and shelf
    Size        \* page sizes

\* A page has a row at least (page_size = max(1, page_size)); no cursor is no next page.
ASSUME SizeAssumption ==
    /\ Size \subseteq Nat \ {0}
    /\ None \notin [page : Nat, digest : Filter \X Size]

VARIABLES
    order,      \* ORDER BY updated_at DESC, id DESC: pairs of live books, the first before the second
    level,      \* catalog_visibility of each book
    shelved,    \* the books with a copy in the shelf
    list,       \* what the reader holds
    calls       \* requests for pages that are under way

lvars == <<order, level, shelved, list, calls>>

Walks == scene.reader \in {"agent", "visitor"}
Views == scene.reader \in {"house", "shared"}

AnyFilter == CHOOSE f \in Filter : TRUE

NoList == [filter |-> AnyFilter, items |-> {},
           size |-> 0, next |-> None, held |-> {}, lost |-> 0,                      \* walks
           id |-> 0, status |-> "none", busy |-> FALSE, more |-> FALSE, count |-> 0] \* views

LInit ==
    /\ TInit
    /\ order = {p \in Live \X Live : p[1] > p[2]}
    /\ level = [b \in Book |-> "lan_shared"]
    /\ shelved = {}
    /\ list = NoList
    /\ calls = {}

-----------------------------------------------------------------------------
(* The statement behind a page.                                              *)

\* _anonymous_visibility_set
VisibleSet == IF scene.mode = "explicit_public" THEN {"public"} ELSE {"lan_shared", "public"}

\* visibility_condition, for readers without a session or a grant.
MayRead(lv) == scene.reader \in {"visitor", "shared"} => lv \in VisibleSet

\* The conditions, joined by AND; a filter without any is for browsing.
Matches(row, lv, in, f) ==
    /\ f.title # None => row.title = f.title
    /\ f.isbn # None => row.isbn = f.isbn
    /\ f.shelf => in
    /\ MayRead(lv)

Hitting(rows, lv, in, f) ==
    {b \in Book : rows[b] # None /\ Matches(rows[b], lv[b], b \in in, f)}
Matching(f) == Hitting(books, level, shelved, f)

\* How many rows come before that of b.
Position(f, b) == Cardinality({c \in Matching(f) : <<c, b>> \in order})

\* .offset(o).limit(n), and whether there was one more.
PageRows(f, o, n) == {b \in Matching(f) : Position(f, b) \in o .. o + n - 1}
HasMore(f, o, n) == Cardinality(Matching(f)) > o + n

-----------------------------------------------------------------------------
(* What the catalogue's requests do to the order.                            *)

\* updated_at is set by every change of the row: those of S come before the rest.
Restamp(S, live) ==
    {p \in live \X live : IF p[1] \in S THEN p[2] \in S => p[1] > p[2]
                                       ELSE p[2] \notin S /\ p \in order}

\* What a walk may count on: the books that match and stay as they are, and how many of
\* those that matched no longer do.
Watched(changed, then) ==
    IF Walks THEN [list EXCEPT !.held = (@ \cap then) \ changed,
                               !.lost = @ + Cardinality(Matching(list.filter) \ then)]
    ELSE list

Follow ==
    LET live == {b \in Book : books'[b] # None}
        S    == {b \in live : books'[b] # books[b]}
    IN  IF scene.reader = "none" THEN UNCHANGED lvars
        ELSE /\ order' = Restamp(S, live)
             /\ level' = [b \in Book |-> IF b \in Live THEN level[b] ELSE "lan_shared"]
             /\ shelved' = shelved \cap live
             /\ list' = Watched(S, Hitting(books', level', shelved', list.filter))
             /\ UNCHANGED calls

\* PATCH /books/{id}/visibility by the owner; an equal level changes nothing.
SetLevel ==
    \E b \in Live, lv \in scene.levels :
        /\ lv # level[b] /\ left > 0
        /\ left' = left - 1
        /\ level' = [level EXCEPT ![b] = lv]
        /\ order' = Restamp({b}, Live)
        /\ list' = Watched({b}, Hitting(books, level', shelved, list.filter))
        /\ UNCHANGED <<scene, books, kids, files, lock, at, pvars, shelved, calls>>

\* A copy is put into the shelf or lent: the book's row does not change.
SetStatus ==
    \E b \in Live :
        /\ scene.lends /\ left > 0
        /\ left' = left - 1
        /\ shelved' = IF b \in shelved THEN shelved \ {b} ELSE shelved \cup {b}
        /\ list' = Watched({}, Hitting(books, level, shelved', list.filter))
        /\ UNCHANGED <<scene, books, kids, files, lock, at, pvars, order, level, calls>>

-----------------------------------------------------------------------------
(* Walks: bookshelf_search_books, and GET /public-catalog/books by page.     *)

Items(f, o, n) == {[book |-> b, of |-> f] : b \in PageRows(f, o, n)}

\* Mutant: the cursor is bound to the conditions alone.
Conditions(f, n) == f

\* _filter_digest: the conditions and the page size.
Digest(f, n) == <<f, n>>

\* has_more and next_cursor; a visitor counts the pages.
NextCursor(f, n, page) ==
    IF HasMore(f, (page - 1) * n, n) THEN [page |-> page + 1, digest |-> Digest(f, n)] ELSE None

\* QUERY_REQUIRED
Asked(f) == f.title # None \/ f.isbn # None \/ f.shelf

SearchBooks ==
    /\ Walks
    /\ \E f \in Filter, n \in Size :
          /\ scene.reader = "agent" => Asked(f)
          /\ list' = [NoList EXCEPT !.filter = f, !.size = n, !.held = Matching(f),
                       !.items = Items(f, 0, n), !.next = NextCursor(f, n, 1)]
    /\ UNCHANGED <<order, level, shelved, calls>>

\* decode_cursor: refused with other conditions or another page size.
SearchOn ==
    /\ Walks /\ list.next # None
    /\ \E f \in Filter, n \in Size :
          /\ IF scene.reader = "agent" THEN Digest(f, n) = list.next.digest
             ELSE f = list.filter /\ n = list.size
          /\ LET page == list.next.page IN
             list' = [list EXCEPT !.items = @ \cup Items(f, (page - 1) * n, n),
                                  !.next = NextCursor(f, n, page)]
    /\ UNCHANGED <<order, level, shelved, calls>>

-----------------------------------------------------------------------------
(* The lists of the front end: requests are numbered, answers come in any    *)
(* order, and only the answer of the last number counts.                     *)

Call(id, first, o) == [id |-> id, first |-> first, filter |-> list.filter, offset |-> o,
                       total |-> None, rows |-> None, more |-> FALSE]

Put(c) == calls' = calls \cup {c}
Stays  == UNCHANGED <<order, level, shelved>>

\* useBooks: a filter changes, or the view is mounted (bound: scene.loads).
SetFilter ==
    /\ scene.reader = "house" /\ list.id < scene.loads
    /\ \E f \in Filter :
          /\ list.id > 0 => f # list.filter
          /\ list' = [list EXCEPT !.filter = f, !.id = @ + 1, !.busy = TRUE]
          /\ calls' = calls \cup {[Call(list.id + 1, TRUE, 0) EXCEPT !.filter = f]}
    /\ Stays

\* SharedBookshelfView: the fields hold what load() will ask for.
Type ==
    /\ scene.reader = "shared"
    /\ \E f \in Filter : f # list.filter /\ list' = [list EXCEPT !.filter = f]
    /\ Stays /\ UNCHANGED calls

Search ==
    /\ scene.reader = "shared" /\ list.id < scene.loads
    /\ list' = [list EXCEPT !.id = @ + 1, !.status = "loading"]
    /\ Put(Call(list.id + 1, TRUE, 0))
    /\ Stays

\* Only the shared list gives a number of its own to the request for more.
LoadMore ==
    /\ Views /\ list.more /\ ~list.busy /\ list.status # "error"
    /\ IF scene.reader = "house"
       THEN list' = [list EXCEPT !.busy = TRUE] /\ Put(Call(list.id, FALSE, list.count))
       ELSE /\ list.id < scene.loads
            /\ list' = [list EXCEPT !.busy = TRUE, !.id = @ + 1]
            /\ Put(Call(list.id + 1, FALSE, list.count))
    /\ Stays

\* The server counts in one statement and reads the rows in the next.
CountBooks ==
    /\ \E c \in calls :
          /\ c.total = None
          /\ calls' = (calls \ {c}) \cup {[c EXCEPT !.total = Cardinality(Matching(c.filter))]}
    /\ Stays /\ UNCHANGED list

ReadPage ==
    /\ \E c \in calls :
          /\ c.total # None /\ c.rows = None
          /\ calls' = (calls \ {c}) \cup
                {[c EXCEPT !.rows = Items(c.filter, c.offset, scene.limit),
                           !.more = HasMore(c.filter, c.offset, scene.limit)]}
    /\ Stays /\ UNCHANGED list

\* Mutant: whatever comes is shown.
Whatever(c) == TRUE

Current(c) == c.id = list.id

\* loadingMore is reset by the end of any request for more, loading by the current one.
BusyAfter(c) == IF (IF scene.reader = "house" THEN Current(c) ELSE ~c.first) THEN FALSE ELSE list.busy

ShownBy(c) ==
    LET count == (IF c.first THEN 0 ELSE list.count) + Cardinality(c.rows)
    IN  [list EXCEPT !.items = IF c.first THEN c.rows ELSE @ \cup c.rows,
                     !.count = count, !.status = "ok", !.busy = BusyAfter(c),
                     !.more = IF scene.reader = "house" THEN count < c.total ELSE c.more]

Receive ==
    /\ \E c \in calls :
          /\ c.rows # None
          /\ calls' = calls \ {c}
          /\ list' = IF Current(c) THEN ShownBy(c) ELSE [list EXCEPT !.busy = BusyAfter(c)]
    /\ Stays

\* The network, the gate or the limit refuses: the list stays as it is.
Fail ==
    /\ scene.fails
    /\ \E c \in calls :
          /\ calls' = calls \ {c}
          /\ list' = [list EXCEPT !.busy = BusyAfter(c),
                        !.status = IF scene.reader = "shared" /\ Current(c) /\ c.first THEN "error" ELSE @]
    /\ Stays

Reads ==
    \/ SearchBooks \/ SearchOn
    \/ SetFilter \/ Type \/ Search \/ LoadMore \/ CountBooks \/ ReadPage \/ Receive \/ Fail

LNext ==
    \/ TNext /\ Follow
    \/ SetLevel \/ SetStatus
    \/ Reads /\ UNCHANGED <<vars, pvars>>

LSpec == LInit /\ [][LNext]_<<vars, pvars, lvars>>

-----------------------------------------------------------------------------
(* A walk that follows the cursors to the end misses a book that matched and *)
(* did not change all along only where another one ceased to match: at most  *)
(* one for each.  Books that come in or move to the front cost nothing.      *)
WalkMissesNothing ==
    Walks /\ list.size > 0 /\ list.next = None =>
        Cardinality(list.held \ {x.book : x \in list.items}) <= list.lost

(* A list never holds the books of two searches, whatever is typed and       *)
(* clicked while answers are under way.                                      *)
ListIsOfOneSearch == Views => \A x, y \in list.items : x.of = y.of

=============================================================================
