SPECIFICATION Spec
CONSTANTS
    None = None
    Definition <- MCDefinition
    MaxCards = 2
    MaxEvents = 6
    Client = {c1, c2}
    Key <- OneKey
    Payload = {"p"}
    External <- TwoReferences
    Dedup <- OneDelivery
    CardKey <- CardKeys
    Token = {"t1", "t2"}
    Worker = {"w1"}
    Release = {"relay2", "broken"}
    MaxMutations = 1
    MaxParallel = 1
    MaxLeases = 2
    MaxLinks = 1
INVARIANTS
    TypeOK
    DeliveredOnce
    
    EvidenceInOrder
    ShadowsHaveNoEgress
    RetriesContinue
    PromotedIsRegistered
CONSTRAINT MutationWindow
SYMMETRY Requests
