SPECIFICATION GenesisSpec
CONSTANTS
    None = None
    Definition <- MCDefinition
    MaxCards = 2
    MaxEvents = 3
    MaxEntries = 2
    Client = {c1}
    Key <- Unkeyed
    Payload <- Nothing
    Decision <- MCDecision
    External <- NoReference
    MoveTo <- Nothing
    Workflow = "approval"
    Reviewer <- Nothing
    Candidate = {"v1"}
    EntryStatus <- Nothing
    IntentRequest <- MCIntentRequest
    MaxIntents = 2
INVARIANTS
    GenesisTypeOK
    OneLaunchPerKey
    LaunchedInWorkflow
