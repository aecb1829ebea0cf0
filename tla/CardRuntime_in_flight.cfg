SPECIFICATION Spec
CONSTANTS
    None = None
    Panels <- AllPanels
    Bucket <- MCBucket
    NodeId <- MCNodeId
    Pipe <- WorkerPipes
    RefLists <- MCRefLists
    ArtifactId <- MCArtifactId
    LeaseSeconds <- One
    Key = {k1}
    MaxCards = 1
    MaxLeases = 2
    MaxEvents = 4
    MaxTime = 1
INVARIANTS
    RepeatedRequestsAgree
    ClaimedFromOwnInput
