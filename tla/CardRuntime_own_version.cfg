SPECIFICATION Spec
CONSTANTS
    None = None
    Panels <- TwoVersions
    Bucket <- MCBucket
    NodeId <- MCNodeId
    Pipe <- WorkerPipes
    RefLists <- MCRefLists
    ArtifactId <- MCArtifactId
    LeaseSeconds <- One
    Key = {}
    MaxCards = 2
    MaxLeases = 2
    MaxEvents = 3
    MaxTime = 1
INVARIANTS
    BucketOfOwnVersion
