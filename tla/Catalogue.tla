----------------------------- MODULE Catalogue -----------------------------
(***************************************************************************)
(* Books, the rows that hang on them, and the files both refer to:         *)
(* services/books.py (update, delete, merge, cover), POST /books, the      *)
(* inserts of copies, progress, notes, purchases, custom fields and        *)
(* attachments, the way the intake and the linking of photos give a book   *)
(* its cover, and services/storage.py that writes the cover files.         *)
(*                                                                         *)
(* The database is the SQLite of the default settings: statements before   *)
(* the first write of a request see whatever is committed, and from its    *)
(* first write to its commit a request is alone, so a transaction is one   *)
(* action.  The file system has no part in it: files are written before    *)
(* the commit and removed after it, in steps of their own.                 *)
(*                                                                         *)
(* A scene fixes the rows at the start, what clients may ask, how many     *)
(* requests there are, and what may go wrong.                              *)
(***************************************************************************)
EXTENDS Integers, FiniteSets

CONSTANTS
    Book,       \* row ids 1..n: SQLite gives out the greatest in use plus one
    Isbn, Title,
    Kid,        \* rows that belong to a book
    KindOf,     \* "copy", "progress", "attachment" or "field"
    Request,    \* requests in flight at a time
    Uuid,       \* as many as a behaviour needs
    Scenes, None

VARIABLES
    scene,      \* what this behaviour is about
    left,       \* requests clients may still send
    books,      \* the books table
    kids,       \* the book each row belongs to
    files,      \* paths that exist: covers, and one per attachment row
    lock,       \* the request that holds the intake locks
    at          \* where each request is, and what it remembers

vars == <<scene, left, books, kids, files, lock, at>>

Linked(k) == KindOf[k] \in {"copy", "progress"}     \* ON DELETE CASCADE
Keyed(k)  == KindOf[k] \in {"progress", "field"}    \* one per book and key
Attachment(k) == KindOf[k] = "attachment"

Live   == {b \in Book : books[b] # None}
Of(b)  == {k \in Kid : kids[k] = b}
Used   == {books[b].cover : b \in Live} \ {None}
Isbns(B) == {books[b].isbn : b \in B} \ {None}

\* Row ids are reused: books is declared without AUTOINCREMENT.
NewId ==
    CHOOSE b \in Book \cup {Cardinality(Book) + 1} :
        /\ \A o \in Live : o < b
        /\ b = 1 \/ b - 1 \in Live

-----------------------------------------------------------------------------
(* Cover paths: {name}.jpg, {name}_{book id}.jpg or {name}_{uuid}.jpg.       *)
Name  == Isbn \cup Title \cup {"photo"}
Path  == [name : Name, tag : ({"plain"} \X {0}) \cup ({"book"} \X Book) \cup ({"uuid"} \X Uuid)]
Plain(n)  == [name |-> n, tag |-> <<"plain", 0>>]
Own(n, b) == [name |-> n, tag |-> <<"book", b>>]

\* Names nobody has, with the eight digits of a uuid (bound: Uuid).
Spare(n) == [name : {n}, tag : {"uuid"} \X Uuid]
                \ (files \cup Used \cup {at[r].path : r \in Request})
Unused(n) == CHOOSE p \in Spare(n) : TRUE

NameOf(isbn, title) == IF isbn # None THEN isbn ELSE title

-----------------------------------------------------------------------------
(* What the tables hold, what clients ask, and what every scene starts from. *)
BookRow == [isbn : Isbn \cup {None}, title : Title, cover : Path \cup {None}]

Ask ==
    [kind : {"create"}, isbn : Isbn \cup {None}, title : Title]
    \cup [kind : {"update"}, book : Book, isbn : Isbn \cup {None}, guarded : BOOLEAN]
    \cup [kind : {"merge"}, target : Book, source : Book, force : BOOLEAN, guarded : BOOLEAN]
    \cup [kind : {"delete", "cover"}, book : Book]
    \cup [kind : {"intake"}, isbn : Isbn \cup {None}, title : Title,
          cover : {"none", "url", "upload", "photo"}]
    \cup [kind : {"link"}, book : Book, isbn : Isbn \cup {None}, title : Title, cover : {"photo"}]
    \cup [kind : {"add"}, kid : Kid, book : Book]

ASSUME BookAssumption == IsFiniteSet(Book) /\ Book = 1 .. Cardinality(Book)
ASSUME RequestAssumption == IsFiniteSet(Request)
ASSUME KidAssumption ==
    /\ KindOf \in [Kid -> {"copy", "progress", "attachment", "field"}]
    /\ Kid \cap Path = {}
ASSUME NoneAssumption == None \notin Book \cup Isbn \cup Title \cup Kid \cup Request \cup Path \cup BookRow
ASSUME SceneAssumption ==
    \A s \in Scenes :
        /\ s.books \in [Book -> BookRow \cup {None}]
        /\ s.kids \in [Kid -> Book \cup {None}]
        /\ \A k \in Kid : s.kids[k] # None => s.books[s.kids[k]] # None
        /\ \A b, c \in Book : s.books[b] # None /\ s.books[c] # None /\ b # c =>
              s.books[b].isbn = None \/ s.books[b].isbn # s.books[c].isbn
        /\ s.asks \subseteq Ask

-----------------------------------------------------------------------------
Idle == [pc |-> "idle", ask |-> None, seen |-> None, path |-> None, sweep |-> {}]

Init ==
    /\ scene \in Scenes
    /\ left = scene.count
    /\ books = scene.books
    /\ kids = scene.kids
    /\ files = Used \cup {k \in Kid : Attachment(k) /\ kids[k] # None}
    /\ lock = None
    /\ at = [r \in Request |-> Idle]

Go(r, to) == at' = [at EXCEPT ![r].pc = to]
Turn(r, to, seen, path, sweep) ==
    at' = [at EXCEPT ![r] = [pc |-> to, ask |-> @.ask, seen |-> seen, path |-> path, sweep |-> sweep]]
End(r)    == at' = [at EXCEPT ![r] = Idle]
In(r, kind, pc) == at[r].pc = pc /\ at[r].ask.kind = kind

\* A new row has an id of its own; a scene may keep equal requests apart.
Free(a) ==
    /\ a.kind = "add" => kids[a.kid] = None
    /\ a.kind = "add" \/ scene.apart => \A q \in Request : at[q].ask # a

\* A client looks at the ISBNs, then sends a request.
Issue(r) ==
    /\ at[r].pc = "idle" /\ left > 0
    /\ Cardinality({q \in Request : at[q].pc # "idle"}) < scene.width
    /\ left' = left - 1
    /\ \E a \in scene.asks :
          /\ Free(a)
          /\ at' = [at EXCEPT ![r] = [Idle EXCEPT !.pc = "start", !.ask = a,
                    !.seen = [b \in Live |-> books[b].isbn]]]
    /\ UNCHANGED <<scene, books, kids, files, lock>>

-----------------------------------------------------------------------------
(* POST /books: look for the ISBN, then insert; the column is unique.        *)

NotTaken(isbn, others) == FALSE

Taken(isbn, others) == isbn # None /\ isbn \in Isbns(others)

Row(isbn, title, cover) == [isbn |-> isbn, title |-> title, cover |-> cover]

CreateLook(r) ==
    LET a == at[r].ask IN
    /\ In(r, "create", "start")
    /\ IF a.isbn # None /\ a.isbn \in Isbns(Live) THEN End(r) ELSE Go(r, "insert")
    /\ UNCHANGED <<scene, left, books, kids, files, lock>>

CreateInsert(r) ==
    LET a == at[r].ask IN
    /\ In(r, "create", "insert")
    /\ IF Taken(a.isbn, Live) THEN UNCHANGED books
       ELSE /\ NewId \in Book
            /\ books' = [books EXCEPT ![NewId] = Row(a.isbn, a.title, None)]
    /\ End(r)
    /\ UNCHANGED <<scene, left, kids, files, lock>>

-----------------------------------------------------------------------------
(* PATCH and merge take the write lock before they read (_lock_book).        *)

\* expected_isbn13: what the client saw is still so.
AsExpected(r, B) ==
    at[r].ask.guarded => \A b \in B : b \in DOMAIN at[r].seen /\ at[r].seen[b] = books[b].isbn

Update(r) ==
    LET a == at[r].ask IN
    /\ In(r, "update", "start")
    /\ IF /\ a.book \in Live
          /\ AsExpected(r, {a.book})
          /\ ~Taken(a.isbn, Live \ {a.book})
       THEN books' = [books EXCEPT ![a.book].isbn = a.isbn]
       ELSE UNCHANGED books
    /\ End(r)
    /\ UNCHANGED <<scene, left, kids, files, lock>>

MayMerge(r) ==
    LET a == at[r].ask IN
    /\ a.target # a.source
    /\ {a.target, a.source} \subseteq Live
    /\ AsExpected(r, {a.target, a.source})
    /\ \/ a.force
       \/ None \in {books[a.target].isbn, books[a.source].isbn}
       \/ books[a.target].isbn = books[a.source].isbn

\* The reading logs were once left to the cascade.
PlainLeft(k, target) == Keyed(k) => \E o \in Of(target) : KindOf[o] = KindOf[k]

\* The target has a row under the same key already.
Duplicate(k, target) == Keyed(k) /\ \E o \in Of(target) : KindOf[o] = KindOf[k]

\* Its rows move, its ISBN and cover fill what the target lacks.
Migrated(target, source) ==
    [k \in Kid |-> IF k \notin Of(source) THEN kids[k]
                   ELSE IF Duplicate(k, target) THEN None ELSE target]

Filled(mine, other) == IF mine = None THEN other ELSE mine

\* The cover the merge leaves without a book, unless the target took it.
LeftCover(target, source) ==
    IF books[target].cover = None THEN None ELSE books[source].cover

Merge(r) ==
    LET a == at[r].ask
        t == books[a.target]
        s == books[a.source]
    IN  /\ In(r, "merge", "start")
        /\ MayMerge(r)
        /\ kids' = Migrated(a.target, a.source)
        /\ books' = [books EXCEPT
                ![a.target] = [t EXCEPT !.isbn = Filled(t.isbn, s.isbn),
                                        !.cover = Filled(t.cover, s.cover)],
                ![a.source] = None]
        /\ Turn(r, "look", None, LeftCover(a.target, a.source), {})
        /\ UNCHANGED <<scene, left, files, lock>>

RefuseMerge(r) ==
    /\ In(r, "merge", "start") /\ ~MayMerge(r)
    /\ End(r)
    /\ UNCHANGED <<scene, left, books, kids, files, lock>>

-----------------------------------------------------------------------------
(* delete_book: the cover and the attachments are read before the first      *)
(* write; their files go after the commit.                                   *)

DeleteRead(r) ==
    LET b == at[r].ask.book IN
    /\ In(r, "delete", "start")
    /\ IF b \in Live
       THEN Turn(r, "commit", None, books[b].cover, {k \in Of(b) : Attachment(k)})
       ELSE End(r)
    /\ UNCHANGED <<scene, left, books, kids, files, lock>>

\* As it was before BUG-147.
LinkedOnly(b) == {k \in Of(b) : Linked(k)}

\* Rows without a foreign key are deleted by hand, the others by cascade.
Removed(b) == Of(b)

DeleteCommit(r) ==
    LET b == at[r].ask.book IN
    /\ In(r, "delete", "commit")
    /\ kids' = [k \in Kid |-> IF k \in Removed(b) THEN None ELSE kids[k]]
    /\ books' = [books EXCEPT ![b] = None]
    /\ Go(r, "look")
    /\ UNCHANGED <<scene, left, files, lock>>

AnyCover(p) == p # None

\* _delete_cover_if_unreferenced: look for a book that uses the path ...
Unreferenced(p) == p # None /\ p \notin Used

Look(r) ==
    LET p == at[r].path IN
    /\ at[r].pc = "look"
    /\ Turn(r, "unlink", None, None, at[r].sweep \cup (IF Unreferenced(p) THEN {p} ELSE {}))
    /\ UNCHANGED <<scene, left, books, kids, files, lock>>

\* ... and remove the files.
Unlink(r) ==
    /\ at[r].pc = "unlink"
    /\ files' = files \ at[r].sweep
    /\ End(r)
    /\ UNCHANGED <<scene, left, books, kids, lock>>

-----------------------------------------------------------------------------
(* POST /books/{id}/cover: the file is written over whatever has its name,   *)
(* which holds the id of the book; then the row is changed.                  *)

CoverRead(r) ==
    LET b == at[r].ask.book IN
    /\ In(r, "cover", "start")
    /\ IF b \in Live
       THEN Turn(r, "save", [cover |-> books[b].cover],
                 Own(NameOf(books[b].isbn, books[b].title), b), {})
       ELSE End(r)
    /\ UNCHANGED <<scene, left, books, kids, files, lock>>

CoverSave(r) ==
    /\ In(r, "cover", "save")
    /\ files' = files \cup {at[r].path}
    /\ Go(r, "set")
    /\ UNCHANGED <<scene, left, books, kids, lock>>

\* The session still has the row it read: an equal path is no change.
CoverSet(r) ==
    LET b == at[r].ask.book
        old == at[r].seen.cover
    IN  /\ In(r, "cover", "set")
        /\ IF old = at[r].path \/ b \notin Live
           THEN End(r) /\ UNCHANGED books
           ELSE /\ books' = [books EXCEPT ![b].cover = at[r].path]
                /\ Turn(r, "look", None, old, {})
        /\ UNCHANGED <<scene, left, kids, files, lock>>

-----------------------------------------------------------------------------
(* intake_book: look for the book, write the cover file, look again under    *)
(* the intake locks, insert.  _execute_link_photos: a cover for a known book.*)

\* By ISBN, else the one book of that title and author.
Found(a) ==
    LET byIsbn  == {b \in Live : a.isbn # None /\ books[b].isbn = a.isbn}
        byTitle == {b \in Live : books[b].title = a.title}
    IN  IF byIsbn # {} THEN byIsbn ELSE IF Cardinality(byTitle) = 1 THEN byTitle ELSE {}

\* _check_isbn_ownership: the ISBN is a book's of another title.
NotOwned(a) == a.isbn # None /\ \E b \in Live : books[b].isbn = a.isbn /\ books[b].title # a.title

\* A photo keeps the name of its content, unless an intake knows the ISBN.
CoverNameOf(a) ==
    IF a.cover = "photo" /\ (a.kind = "link" \/ a.isbn = None) THEN "photo" ELSE NameOf(a.isbn, a.title)

\* dest.exists(): a uuid when the name is taken; a scan without ISBN has a name of its own.
ChosenPath(a) ==
    LET n == CoverNameOf(a) IN
    IF Plain(n) \in files \/ (a.cover = "upload" /\ a.isbn = None) THEN Unused(n) ELSE Plain(n)

Wants(a, b) == a.cover # "none" /\ books[b].cover = None

IntakeLook(r) ==
    LET a == at[r].ask IN
    /\ In(r, "intake", "start")
    /\ Spare(CoverNameOf(a)) # {}
    /\ IF NotOwned(a) THEN End(r)
       ELSE IF Found(a) = {}
       THEN IF a.cover = "none" THEN Turn(r, "lock", None, None, {})
                                ELSE Turn(r, "save", None, ChosenPath(a), {})
       ELSE \E b \in Found(a) :
              IF a.cover # "url" /\ Wants(a, b)
              THEN Turn(r, "save", b, ChosenPath(a), {})
              ELSE End(r)
    /\ UNCHANGED <<scene, left, books, kids, files, lock>>

LinkLook(r) ==
    LET a == at[r].ask IN
    /\ In(r, "link", "start")
    /\ Spare(CoverNameOf(a)) # {}
    /\ IF a.book \in Live /\ Wants(a, a.book)
       THEN Turn(r, "save", a.book, ChosenPath(a), {})
       ELSE End(r)
    /\ UNCHANGED <<scene, left, books, kids, files, lock>>

\* The copy, or the end of the download, on the path chosen before.
Save(r) ==
    /\ at[r].pc = "save" /\ at[r].ask.kind \in {"intake", "link"}
    /\ files' = files \cup {at[r].path}
    /\ Go(r, IF at[r].seen = None THEN "lock" ELSE "fill")
    /\ UNCHANGED <<scene, left, books, kids, lock>>

\* A download that fails leaves the book without a cover.
DownloadFails(r) ==
    /\ In(r, "intake", "save") /\ at[r].ask.cover = "url"
    /\ Turn(r, "lock", None, None, {})
    /\ UNCHANGED <<scene, left, books, kids, files, lock>>

Lock(r) ==
    /\ at[r].pc = "lock" /\ lock = None
    /\ lock' = r
    /\ Go(r, "recheck")
    /\ UNCHANGED <<scene, left, books, kids, files>>

Release(r) == lock' = IF lock = r THEN None ELSE lock

\* Mutant: the book is rolled back, its cover stays.
NothingCleaned(r) == files

\* _cleanup_orphan_cover: the path this request wrote, whoever uses it.
Cleaned(r) == files \ {at[r].path}

Recheck(r) ==
    LET a == at[r].ask IN
    /\ at[r].pc = "recheck"
    /\ UNCHANGED <<scene, left, books, kids>>
    /\ \/ /\ NotOwned(a) \/ \E b \in Found(a) : books[b].cover # None
          /\ files' = Cleaned(r)
          /\ Release(r) /\ End(r)
       \/ /\ ~NotOwned(a)
          /\ \E b \in Found(a) :
                /\ books[b].cover = None
                /\ IF at[r].path # None
                   THEN Turn(r, "fill", b, at[r].path, {}) /\ UNCHANGED lock
                   ELSE Release(r) /\ End(r)
          /\ UNCHANGED files
       \/ /\ ~NotOwned(a) /\ Found(a) = {}
          /\ Go(r, "insert")
          /\ UNCHANGED <<files, lock>>

\* A row cannot be given its cover: the cover is removed, unless a copy was registered
\* first, whose INSERT fails before the clean-up is in reach; photos register none.
NotFilled(r) == IF at[r].ask.cover = "photo" THEN {Cleaned(r)} ELSE {files, Cleaned(r)}

\* A book without a cover gets this one; a book deleted meanwhile does not.
Fill(r) ==
    LET b == at[r].seen IN
    /\ at[r].pc = "fill"
    /\ IF b \in Live
       THEN books' = [books EXCEPT ![b].cover = at[r].path] /\ UNCHANGED files
       ELSE files' \in NotFilled(r) /\ UNCHANGED books
    /\ Release(r) /\ End(r)
    /\ UNCHANGED <<scene, left, kids>>

\* The INSERT comes before the clean-up is in reach: an intake that loses the ISBN leaves
\* its cover behind.
IntakeInsert(r) ==
    LET a == at[r].ask IN
    /\ In(r, "intake", "insert")
    /\ IF Taken(a.isbn, Live)
       THEN UNCHANGED books
       ELSE /\ NewId \in Book
            /\ books' = [books EXCEPT ![NewId] = Row(a.isbn, a.title, at[r].path)]
    /\ Release(r) /\ End(r)
    /\ UNCHANGED <<scene, left, kids, files>>

\* The workbench refuses the receipt (_store_owned_receipt): what was written is rolled
\* back, and the cover removed.
Refused(r) ==
    LET a == at[r].ask IN
    /\ "refused" \in scene.faults
    /\ at[r].pc \in {"insert", "fill"} /\ a.kind \in {"intake", "link"} /\ a.cover = "photo"
    /\ at[r].pc = "insert" => ~Taken(a.isbn, Live)
    /\ files' = Cleaned(r)
    /\ Release(r) /\ End(r)
    /\ UNCHANGED <<scene, left, books, kids>>

-----------------------------------------------------------------------------
(* A row for a book: the book is looked up, an uploaded file is stored, the  *)
(* row is inserted.                                                          *)

AddLook(r) ==
    LET a == at[r].ask IN
    /\ In(r, "add", "start")
    /\ IF a.book \in Live
       THEN /\ files' = IF Attachment(a.kid) THEN files \cup {a.kid} ELSE files
            /\ Go(r, "insert")
       ELSE End(r) /\ UNCHANGED files
    /\ UNCHANGED <<scene, left, books, kids, lock>>

\* Foreign and unique keys refuse; rows without them go in.
AddInsert(r) ==
    LET a == at[r].ask IN
    /\ In(r, "add", "insert")
    /\ kids' = IF (Linked(a.kid) /\ a.book \notin Live) \/ Duplicate(a.kid, a.book)
               THEN kids ELSE [kids EXCEPT ![a.kid] = a.book]
    /\ End(r)
    /\ UNCHANGED <<scene, left, books, files, lock>>

-----------------------------------------------------------------------------
(* The process dies; or the database stays locked past the time it waits.    *)

Die(r) ==
    /\ "crash" \in scene.faults /\ at[r].pc # "idle"
    /\ End(r) /\ Release(r)
    /\ UNCHANGED <<scene, left, books, kids, files>>

\* Rolled back: files that were written stay, but for the cover of a known book.
Busy(r) ==
    /\ "busy" \in scene.faults
    /\ at[r].pc \in {"commit", "insert", "set", "fill"} \/ In(r, "merge", "start")
    /\ files' \in IF at[r].pc = "fill" THEN NotFilled(r) ELSE {files}
    /\ End(r) /\ Release(r)
    /\ UNCHANGED <<scene, left, books, kids>>

Next ==
    \E r \in Request :
        \/ Issue(r) \/ CreateLook(r) \/ CreateInsert(r) \/ Update(r)
        \/ Merge(r) \/ RefuseMerge(r) \/ DeleteRead(r) \/ DeleteCommit(r)
        \/ Look(r) \/ Unlink(r) \/ CoverRead(r) \/ CoverSave(r) \/ CoverSet(r)
        \/ IntakeLook(r) \/ LinkLook(r) \/ Save(r) \/ DownloadFails(r) \/ Lock(r)
        \/ Recheck(r) \/ Fill(r) \/ IntakeInsert(r) \/ Refused(r)
        \/ AddLook(r) \/ AddInsert(r) \/ Die(r) \/ Busy(r)

Spec == Init /\ [][Next]_vars

-----------------------------------------------------------------------------
CTypeOK ==
    /\ books \in [Book -> BookRow \cup {None}]
    /\ kids \in [Kid -> Book \cup {None}]
    /\ files \subseteq Path \cup Kid
    /\ lock \in Request \cup {None}
    /\ \A r \in Request : at[r].pc \in {"idle", "start", "insert", "commit", "look", "unlink",
                                        "save", "set", "lock", "recheck", "fill"}

(* Every cover a book refers to and every attachment's file is there: after  *)
(* deletes, merges and rollbacks, with covers shared by books and file       *)
(* names that come back with a reused id.                                    *)
Referenced == Used \cup {k \in Kid : Attachment(k) /\ kids[k] # None}
FilesAreThere == Referenced \subseteq files

(* And no other file is left when the requests of a scene that promises it   *)
(* have ended: one after the other, or intakes side by side, whatever        *)
(* receipts were refused.                                                    *)
NoFileLeft ==
    scene.exact /\ (\A r \in Request : at[r].pc = "idle") => files \subseteq Referenced

(* The files are those the rows refer to, as far as the scene promises it.    *)
FilesMatchRows == FilesAreThere /\ NoFileLeft

(* What the comments of intake_book promise, and what does not hold: an      *)
(* intake that ends without its cover on a book has removed the file.        *)
LosersCleanUp ==
    [][\A r \in Request :
          /\ In(r, "intake", "insert") /\ at[r].path # None
          /\ at'[r].pc = "idle" /\ at[r].path \notin Used'
          => at[r].path \notin files']_vars

(* No row is left behind by the book it hangs on, foreign key or not; and    *)
(* every variable keeps its type.                                            *)
RowsHaveTheirBook == CTypeOK /\ \A k \in Kid : kids[k] # None => kids[k] \in Live

(* No two books have one ISBN, however creations, intakes, edits and merges  *)
(* overlap.                                                                  *)
OneBookPerIsbn ==
    \A b, c \in Live : books[b].isbn # None /\ books[b].isbn = books[c].isbn => b = c

(* A step in which a merge removes its source loses nothing of it: each row  *)
(* is at the target, or the target had one under its key; the target has an  *)
(* ISBN and a cover if either book had.                                      *)
MergeKeepsAll ==
    [][\A r \in Request :
          In(r, "merge", "start") /\ at'[r].pc = "look" =>
             LET t == at[r].ask.target
                 s == at[r].ask.source
             IN  /\ \A k \in Of(s) :
                       \/ kids'[k] = t
                       \/ Keyed(k) /\ \E o \in Of(t) : KindOf[o] = KindOf[k] /\ kids'[o] = t
                 /\ books'[t].isbn = None => books[t].isbn = None /\ books[s].isbn = None
                 /\ books'[t].cover = None => books[t].cover = None /\ books[s].cover = None
      ]_vars

=============================================================================
