SPECIFICATION MCSpec
CONSTANTS
    alice = alice
    bob = bob
    pool1 = pool1
    None = None
    Wallet = {alice, bob}
    Pool = {pool1}
    PerSecond = 2
    Epoch = 10
    PageSize = 2
    Firsts <- MCFirsts
    Afters <- MCAfters
    MaxPositions = 3
    MaxMoves = 2
    MaxTime = 2
INVARIANTS
    SkipsOnlyTies
PROPERTIES
    NeverTwice
    SnapshotShowsHolder
    WalkEnds
CHECK_DEADLOCK FALSE
