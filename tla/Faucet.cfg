SPECIFICATION Spec
CONSTANTS
    r1 = r1
    r2 = r2
    r3 = r3
    w1 = w1
    w2 = w2
    bad = bad
    home = home
    office = office
    Request = {r1, r2, r3}
    Wallet = {w1, w2, bad}
    ValidWallet = {w1, w2}
    Address = {home, office}
    Window = 2
    MaxTime = 3
SYMMETRY Requests
INVARIANTS
    OnlyEligible
    DoublesOverlap
CHECK_DEADLOCK FALSE
