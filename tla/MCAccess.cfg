SPECIFICATION CSpec
CONSTANTS
    s1 = s1 s2 = s2 r1 = r1 r2 = r2 c1 = c1 g1 = g1 g2 = g2 t1 = t1 
    d1 = d1 d2 = d2 k1 = k1 pilot = pilot full = full None = None
    home = home other = other p1 = p1 p2 = p2
    Process = {p1, p2} Named = {other} File = {home, other} DefaultFile = home MaxCommands = 3
    Member = {1, 2} Request = {r1, r2} Session = {s1, s2}
    Client = {c1} Grant = {g1, g2} Token = {t1} Job = {d1, d2} Call = {k1}
    ScopeSets = {pilot, full} Pilot = pilot Household = {g1}
    Methods <- MCMethods
    Scenes <- MCScenes
    MaxPassword = 2 MaxAttempts = 2 LoginLimit = 2 McpLimit = 1
SYMMETRY Sym
INVARIANTS AccessFollowsRole OldPasswordIsOut ScopesHold AnswersAreAudited LoginsHold
PROPERTIES GuessingBounded RevocationHolds
CHECK_DEADLOCK FALSE
