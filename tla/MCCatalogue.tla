---------------------------- MODULE MCCatalogue ----------------------------
(* Scenes: a few rows, what is asked of them, and what may go wrong.         *)
EXTENDS CatalogueLists, TLC

CONSTANTS i1, i2, t1, t2, copy, progress1, progress2, file, field, r1, r2, r3, v1

MCKindOf == copy :> "copy" @@ progress1 :> "progress" @@ progress2 :> "progress"
            @@ file :> "attachment" @@ field :> "field"

Create(i, t)       == [kind |-> "create", isbn |-> i, title |-> t]
Edit(b, i)         == [kind |-> "update", book |-> b, isbn |-> i, guarded |-> TRUE]
Join(t, s)         == [kind |-> "merge", target |-> t, source |-> s, force |-> FALSE, guarded |-> TRUE]
Drop(b)            == [kind |-> "delete", book |-> b]
Picture(b)         == [kind |-> "cover", book |-> b]
Take(i, t, c)      == [kind |-> "intake", isbn |-> i, title |-> t, cover |-> c]
Link(b)            == [kind |-> "link", book |-> b, cover |-> "photo", isbn |-> None, title |-> t1]
Add(k, b)          == [kind |-> "add", kid |-> k, book |-> b]

Books(x, y) == 1 :> x @@ 2 :> y @@ 3 :> None
Rows(c, p, q, a, f) == copy :> c @@ progress1 :> p @@ progress2 :> q @@ file :> a @@ field :> f
NoRows == Rows(None, None, None, None, None)

\* Two books that share a cover, as downloads by title once gave them.
Twins == Books(Row(i1, t1, Plain(t1)), Row(None, t1, Plain(t1)))
Pair  == Books(Row(i1, t1, Own(i1, 1)), Row(None, t2, None))
Bare  == Books(Row(None, t1, None), None)
NoBook == Books(None, None)

\* Rows, asks, and who reads meanwhile.
Scene(b, k, n, w, e, d, f, a) ==
    [books |-> b, kids |-> k, count |-> n, width |-> w, exact |-> e, apart |-> d, faults |-> f, asks |-> a,
     visits |-> 0, reader |-> "none", mode |-> "lan_shared", levels |-> {}, lends |-> FALSE,
     limit |-> 1, loads |-> 0, fails |-> FALSE]

ByTitle(t, s) == [title |-> t, isbn |-> None, shelf |-> s]
MCFilter == {ByTitle(t1, FALSE), ByTitle(None, TRUE), ByTitle(None, FALSE)}

Three == 1 :> Row(i1, t1, None) @@ 2 :> Row(None, t1, None) @@ 3 :> Row(None, t2, None)

\* Covers replaced and removed, names that come back, and the thumbnails of them.
Covers(n, e, a) == [Scene(Pair, NoRows, n, 1, e, FALSE, {}, a) EXCEPT !.visits = 2]
\* A walk, page by page.
Walk(who, a) == [Scene(Three, NoRows, 3, 1, FALSE, FALSE, {}, a) EXCEPT
                    !.reader = who, !.lends = who = "agent",
                    !.levels = IF who = "visitor" THEN {"public", "private"} ELSE {}]
\* A list of the front end.
View(who, f) == [Scene(Three, NoRows, 1, 1, FALSE, FALSE, {}, {Drop(1), Edit(2, i2)}) EXCEPT
                    !.reader = who, !.loads = 3, !.fails = f]

MCReadScenes ==
    { Covers(4, TRUE, {Picture(1), Drop(1), Take(i1, t1, "url"), Join(2, 1)}),
      Covers(2, FALSE, {Picture(1), Drop(1), Take(i1, t1, "upload"), Link(2)}),
      Walk("agent", {Drop(1), Drop(3), Edit(2, i2), Create(i2, t1)}),
      Walk("visitor", {Drop(2), Edit(1, i2), Create(i2, t1)}),
      View("house", FALSE) }

MCScenes ==
    { \* one request after the other, long enough for ids and names to come back
      Scene(Twins, Rows(2, 1, 2, 2, 2), 6, 1, TRUE, FALSE, {"refused"},
            {Join(1, 2), Join(2, 1), Drop(1), Drop(2), Picture(1), Picture(2), Edit(1, i2),
             Create(i2, t1), Take(i1, t1, "upload"), Take(None, t2, "url"), Take(i2, t2, "photo"),
             Link(2), Add(file, 1)}),
      Scene(Pair, Rows(1, 1, None, 1, 2), 4, 1, FALSE, FALSE, {"crash", "busy"},
            {Join(2, 1), Drop(1), Picture(1), Picture(2), Take(i2, t2, "upload"), Create(i1, t1), Add(file, 2)}),
      \* side by side
      Scene(Twins, Rows(2, 1, 2, None, 2), 5, 3, FALSE, FALSE, {},
            {Join(1, 2), Join(2, 1), Drop(1), Drop(2), Edit(1, i2), Edit(2, i2), Create(i2, t1)}),
      Scene(Pair, Rows(None, 1, None, None, None), 4, 3, FALSE, TRUE, {},
            {Drop(1), Join(2, 1), Add(copy, 1), Add(progress2, 1), Create(i2, t2)}),
      Scene(NoBook, NoRows, 4, 3, TRUE, FALSE, {}, {Take(None, t1, "upload"), Take(None, t2, "upload")}),
      Scene(Bare, NoRows, 4, 3, FALSE, FALSE, {}, {Take(None, t2, "upload"), Create(None, t2)}),
      Scene(NoBook, NoRows, 2, 2, FALSE, TRUE, {"busy"}, {Take(i1, t1, "upload"), Create(i1, t1), Create(i1, t2)}) }

MCAllScenes == MCScenes \cup MCReadScenes

\* Two scans of one book, each with the cover of the provider.
MCTwoScans == { Scene(NoBook, NoRows, 2, 2, FALSE, FALSE, {}, {Take(i1, t1, "url")}) }

Sym == Permutations(Request)
=============================================================================
