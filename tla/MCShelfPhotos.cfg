SPECIFICATION Spec
CONSTANTS
    p1 = p1  p2 = p2  p3 = p3  k1 = k1  k2 = k2  w1 = w1  w2 = w2
    Path = {p1, p2, p3}
    Key = {k1, k2}
    Worker = {w1}
    MaxPhotos = 2
    MaxAttempts = 2
    None = None
CONSTRAINTS ThirdUploadAlone OneJobInRecovery
SYMMETRY Interchangeable
INVARIANTS ContentKept AlbumSound NothingLeftBehind
CHECK_DEADLOCK FALSE
