SPECIFICATION Spec
CONSTANTS
    s1 = s1
    s2 = s2
    r1 = r1
    r2 = r2
    Owner = Owner
    WordSize = 32
    kMaxCasAttempts = 3
    Senders <- TwoSenders
    Runners <- TwoRunners
SYMMETRY Symmetry
INVARIANTS
    DrainSound
PROPERTIES
    AtomicOnRecord
    GuardSeesClaim
CHECK_DEADLOCK FALSE
