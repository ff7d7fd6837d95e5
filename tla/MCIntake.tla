------------------------------- MODULE MCIntake -------------------------------
\* Scenes: one question at a time about one work item.
EXTENDS Workbench, TLC

CONSTANTS p1, p2, x1, x2, page1, t1, w1, w2

Scene(kinds, candidates, versions, photos_, contents, owned, tabs, workers) ==
    [kinds |-> kinds, candidates |-> candidates, versions |-> versions, photos |-> photos_,
     contents |-> contents, owned |-> owned, tabs |-> tabs, workers |-> workers]

\* Two photos become candidates, which one tab edits and splits; or matches and confirms.
DeskScene ==
    Scene({"upload", "build", "recognize", "update", "split"},
          1 .. 3, 2, {p1, p2}, {x1}, {x1}, {t1}, {})
MatchScene ==
    Scene({"upload", "build", "recognize", "update", "split", "preview"},
          1 .. 2, 2, {p1, p2}, {x1}, {x1}, {t1}, {})

\* Two workers carry out what is confirmed, while it is edited; or what is matched;
\* or one does, while the match is edited.
WorkersScene ==
    Scene({"upload", "build", "update", "execute", "intake"},
          {1}, 2, {p1}, {x1}, {x1}, {t1}, {w1, w2})
LinkScene ==
    Scene({"upload", "build", "preview", "execute", "retry"},
          {1}, 2, {p1}, {x1}, {x1}, {t1}, {w1, w2})

RematchScene ==
    Scene({"upload", "build", "preview", "update", "execute", "retry", "intake"},
          {1}, 2, {p1}, {x1}, {x1}, {t1}, {w1})

\* The page alone, and beside another tab; candidates that are recognized again.
AloneScene ==
    Scene({"upload", "recognize", "update", "preview", "split"}, 1 .. 2, 2,
          {p1, p2}, {x1}, {}, {page1}, {})
PageScene ==
    Scene({"upload", "recognize", "update"}, 1 .. 2, 2, {p1}, {x1, x2}, {}, {page1, t1}, {})
OverwriteScene ==
    Scene({"upload", "recognize", "update"}, {1}, 3, {p1}, {x1, x2}, {}, {page1}, {})

EditScene == Scene({"upload", "build", "update", "execute"}, {1}, 2, {p1}, {x1}, {x1}, {t1}, {w1})

MCScenes ==
    {DeskScene, MatchScene, WorkersScene, LinkScene, RematchScene, AloneScene, PageScene,
     OverwriteScene}
OnlyEdit == {EditScene}
OnlyPage == {PageScene}

\* No more photos, contents or workers are told apart than by their use.
Interchangeable ==
    Permutations(Photo) \cup Permutations(Content) \cup Permutations(Worker)
=============================================================================
