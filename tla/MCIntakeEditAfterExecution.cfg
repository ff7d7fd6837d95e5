SPECIFICATION WSpec
CONSTANTS
    p1 = p1  p2 = p2  x1 = x1  x2 = x2  page1 = page1  t1 = t1  w1 = w1  w2 = w2
    Candidate = {1, 2, 3}
    Photo = {p1, p2}
    Content = {x1, x2}
    Tab = {page1, t1}
    Page = page1
    Worker = {w1, w2}
    Scenes <- OnlyEdit
    MaxEpoch = 2
    None = None
SYMMETRY Interchangeable
PROPERTIES ExecutedIsFinal
CHECK_DEADLOCK FALSE
