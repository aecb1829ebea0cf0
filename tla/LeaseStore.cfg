SPECIFICATION FairSpec
CONSTANTS
    None = None
    Card = {c1, c2}
    Session = {s1, s2}
    Key = {k1}
    LeaseSeconds <- ZeroOrOne
    MaxLeases = 3
    MaxTime = 2
INVARIANTS
    TypeOK
    ExclusiveLease
PROPERTIES
    ImplementsLeaseService
    KeyKeepsItsLease
    EveryAcquireEnds
CHECK_DEADLOCK FALSE
