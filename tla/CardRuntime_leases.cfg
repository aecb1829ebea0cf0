SPECIFICATION Spec
CONSTANTS
    None = None
    Panels <- OnePanel
    Bucket <- MCBucket
    NodeId <- MCNodeId
    Pipe <- WorkPipes
    RefLists <- MCRefLists
    ArtifactId <- MCArtifactId
    LeaseSeconds <- ZeroOrOne
    Key = {}
    MaxCards = 1
    MaxLeases = 2
    MaxEvents = 5
    MaxTime = 2
INVARIANTS
    TypeOK
    ExclusiveLease
    LocationIsReplayable
    LeaseEvidence
    ArtifactEvidence
    ReclaimableAfterLease
PROPERTIES
    EndedLeaseIsFinal
    ImplementsLeaseService
