SPECIFICATION Spec
CONSTANTS
    None = None
    Definition <- MCDefinition
    MaxCards = 1
    MaxEvents = 4
    Client = {c1}
    Key <- OneKey
    Payload <- ValidatorPayload
    Decision <- MCDecision
    External <- NoReference
    MoveTo = {"authority_provisioning"}
    Permission = {"boundary:source_ingress", "validation:submit", "sink:execute", "participant:manage"}
    MaxAssignments = 2
    MaxGrants = 5
    Registration = "registration"
    Root = "root"
    Person = {"root", "ann"}
    SetTo = {"suspended"}
    ByHand <- Nothing
PROPERTY
    RepeatedSinkHasNoEffect
