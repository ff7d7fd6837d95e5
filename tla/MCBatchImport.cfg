SPECIFICATION Spec
CONSTANTS
    cover = cover  barcode = barcode  t1 = t1  t2 = t2
    Photo = {cover, barcode}
    Root <- OnePair
    Shows <- OnePrints
    Twin = {t1, t2}
    Odd = {t2}
    Scenes <- MCScenes
    None = None
INVARIANTS GroupsConsistent OnlyApproved SentAsConfirmed CopiedOnce ReconcileSound
CHECK_DEADLOCK FALSE
