SPECIFICATION FromClaimed
CONSTANTS
    None = None
    Panels <- OnePanel
    Bucket <- InboxOrDone
    Pipe <- WorkerPipes
    RefLists <- MCRefLists
    LeaseSeconds <- One
    Key = {k1}
    Session = {s1, s2}
    MaxRequests = 4
    MaxTime = 1
PROPERTIES
    KeyKeepsItsAnswer
    EveryTransactionEnds
CHECK_DEADLOCK FALSE
