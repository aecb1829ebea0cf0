SPECIFICATION Spec
CONSTANTS
    None = None
    Panels <- OnePanel
    Bucket <- InboxOrDone
    Pipe <- WorkerPipes
    RefLists <- MCRefLists
    LeaseSeconds <- One
    Key = {}
    Session = {s1, s2}
    MaxRequests = 3
    MaxTime = 1
INVARIANTS
    ExclusiveLease
CHECK_DEADLOCK FALSE
