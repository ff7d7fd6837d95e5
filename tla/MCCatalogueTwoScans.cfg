SPECIFICATION LSpec
CONSTANTS
    i1 = i1 i2 = i2 t1 = t1 t2 = t2 r1 = r1 r2 = r2 r3 = r3 v1 = v1 copy = copy
    progress1 = progress1 progress2 = progress2 file = file field = field
    None = None Book = {1, 2, 3} Isbn = {i1, i2} Title = {t1, t2}
    Kid = {copy, progress1, progress2, file, field}
    KindOf <- MCKindOf
    Visitor = {v1} Filter <- MCFilter Size = {1, 2}
    Request = {r1, r2, r3} Uuid = {1, 2, 3, 4, 5}
    Scenes <- MCTwoScans
INVARIANT FilesAreThere
SYMMETRY Sym
CHECK_DEADLOCK FALSE
