SPECIFICATION Spec
CONSTANTS
    None = None
    Definition <- MCDefinition
    MaxCards = 1
    MaxEvents = 4
    MaxEntries = 2
    Client = {c1}
    Key <- Unkeyed
    Payload = {"v1", "broken"}
    Decision <- MCDecision
    External <- NoReference
    MoveTo = {"registry_publication", "no_such_bucket"}
    Workflow = "approval"
    Reviewer = {"governance_reviewer"}
    Candidate = {"v1", "v2"}
    EntryStatus = {"draft"}
INVARIANTS
    TypeOK
    IndexedIsRegistered
    PublishedWithApproval
    OneEntryPerVersion
    SinkEvidenceNamesEntry
