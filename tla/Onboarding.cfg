SPECIFICATION Spec
CONSTANTS
    None = None
    Definition <- MCDefinition
    MaxCards = 1
    MaxEvents = 4
    Client = {c1}
    Key <- Unkeyed
    Payload <- MCPayload
    Decision <- MCDecision
    External <- NoReference
    MoveTo = {"authority_provisioning"}
    Permission = {"boundary:source_ingress", "validation:submit", "sink:execute", "participant:manage", "permission:grant"}
    MaxAssignments = 3
    MaxGrants = 7
    Registration = "registration"
    Root = "root"
    Person = {"root", "ann"}
    SetTo = {"suspended"}
    ByHand <- MCByHand
INVARIANTS
    TypeOK
    ProvisionedIsAuthorized
    NoDuplicateProvisioning
    ProvisionedWithApproval
