SPECIFICATION Spec
CONSTANTS
    None = None
    Panels <- OnePanel
    Bucket <- InboxOrDone
    Pipe <- WorkerPipes
    RefLists <- MCRefLists
    LeaseSeconds <- One
    Key = {}
    Session = {s1, s2, s3}
    MaxRequests = 4
    MaxTime = 1
INVARIANTS
    TypeOK
    NoCardDisappears
    EvidenceEndsAtLocation
SYMMETRY Sessions
CHECK_DEADLOCK FALSE
