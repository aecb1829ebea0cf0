----------------------------- MODULE Onboarding -----------------------------
(***************************************************************************)
(* How participants come by their authority: the bootstrap of the root      *)
(* operator, the registration workflow system_agent_registration with its   *)
(* authority_provisioner_sink, and the /participants routes.  Writing a     *)
(* participant, an assignment or a grant is a transaction of its own, so    *)
(* each of these is a request of many steps that may end between any two.   *)
(* Every route first asks the authorization service (authorization_enabled  *)
(* is on), except the one that moves cards.                                 *)
(***************************************************************************)
EXTENDS NodeExecutor, Authority

CONSTANTS
    Decision,      \* what a validator may be told: [accepted, exit], None if not given
    MoveTo,        \* the buckets an operator moves cards to by hand
    Registration,  \* system_agent_registration
    Root,          \* the root operator
    Person,        \* everyone who sends requests, Root included
    SetTo,         \* the statuses operators give participants by hand
    ByHand         \* the roles operators assign by hand: [participant, role, scope]

ParticipantStatus == {"active", "suspended", "archived"}

\* initialize_system registers a workflow that the validator accepts.
ASSUME RegistrationAssumption == Registration \in ValidPanels

\* What ParticipantOnboardingPayload requires of a payload, and the routes of
\* what an operator sends: a status, and roles of the catalogue, at least one.
ASSUME PayloadAssumption ==
    \A payload \in Payload : payload.compliant =>
        /\ payload.status \in ParticipantStatus
        /\ payload.roles \in Seq(Elements(payload.roles)) /\ payload.roles # << >>
        /\ \A r \in Elements(payload.roles) : r.role \in DOMAIN RoleTemplate

ASSUME ByHandAssumption ==
    /\ SetTo \subseteq ParticipantStatus
    /\ \A r \in ByHand : r.participant # None /\ r.role \in DOMAIN RoleTemplate

vars == <<runtimeVars, authorityVars, call>>

\* authorize_request: whoever the request names is authorized.
Allowed(permission, target, panel) == \E p \in Person : authorize(p, permission, target, panel)

-----------------------------------------------------------------------------
(* Provisioning: upsert the participant, then ensure each of its roles.     *)

\* The Participant and the role requests of a payload: call[c].data while a
\* request provisions; `roles` are those still to ensure and `missing` the
\* grants of the current role still to add, at their positions.
Provisioning(participant, status, roles) ==
    [participant |-> participant, status |-> status, roles |-> roles, missing |-> << >>]

\* The two loops: for assignment in payload.role_assignments, and for grant
\* in template.permission_grants.
ForRoles(roles) == IF roles = << >> THEN << >> ELSE <<"find">>
ForGrants(missing) == IF DOMAIN missing = {} THEN << >> ELSE <<"grant">>

RootRoles == <<[participant |-> Root, role |-> "admin", scope |-> GlobalScope]>>

\* seed_root_operator, when a process starts.
Bootstrap(c) ==
    /\ IsIdle(c)
    /\ call' = [call EXCEPT ![c] =
          MkCall(<<"upsert", "find", "initialized">>, None, 0, NoKey,
                 Provisioning(Root, "active", RootRoles))]
    /\ UNCHANGED <<runtimeVars, authorityVars>>

Upsert(c) ==
    /\ At(c, "upsert")
    /\ upsert_participant(call[c].data.participant, call[c].data.status)
    /\ Continue(c, Rest(c))
    /\ UNCHANGED <<runtimeVars, assignments, grants>>

CurrentRole(c) == Head(call[c].data.roles)

Find(c) ==
    /\ At(c, "find")
    /\ Continue(c, (IF HasAssignment(CurrentRole(c)) THEN <<"list">> ELSE <<"assign", "list">>)
                   \o Rest(c))
    /\ UNCHANGED <<runtimeVars, authorityVars>>

Assign(c) ==
    /\ At(c, "assign")
    /\ add_role_assignment(MkAssignment(CurrentRole(c), "builtin"))
    /\ Continue(c, Rest(c))
    /\ UNCHANGED <<runtimeVars, participants, grants>>

\* active_grants is read once, before the first grant is added.
List(c) ==
    /\ At(c, "list")
    /\ LET missing == MissingGrants(CurrentRole(c)) IN
       Proceed(c, ForGrants(missing) \o ForRoles(Tail(call[c].data.roles)) \o Rest(c),
               call[c].ref, [call[c].data EXCEPT !.roles = Tail(@), !.missing = missing])
    /\ UNCHANGED <<runtimeVars, authorityVars>>

Grant(c) ==
    /\ At(c, "grant")
    /\ LET missing == call[c].data.missing
           next == Least(DOMAIN missing)
           rest == [i \in DOMAIN missing \ {next} |-> missing[i]]
       IN /\ add_permission_grant(missing[next])
          /\ Proceed(c, ForGrants(rest) \o Rest(c), call[c].ref,
                     [call[c].data EXCEPT !.missing = rest])
    /\ UNCHANGED <<runtimeVars, participants, assignments>>

\* initialize_system returns.
Initialized(c) ==
    /\ At(c, "initialized")
    /\ Continue(c, Rest(c))
    /\ UNCHANGED <<runtimeVars, authorityVars>>

-----------------------------------------------------------------------------
(* The registration workflow.                                               *)

RegistrationScope == PanelScope(Def(Registration).id)

RegistrationSource(c, payload, k) ==
    /\ Allowed("boundary:source_ingress", RegistrationScope, Def(Registration).id)
    /\ \E n \in Node(Def(Registration)) :
          execute_source(c, Registration, n, payload, k, <<"source_executed">>)
    /\ UNCHANGED authorityVars

RecordSource(c) == SourceRecorded(c) /\ UNCHANGED authorityVars

\* POST /validators/{validator_id}/cards/{card_id}/decision, and
\* /nodes/validator/execute.
Validate(card, d, k) ==
    /\ Allowed("validation:submit", CardScope(card), Def(Registration).id)
    /\ \E n \in Node(Def(Registration)) : execute_validator(Registration, n, card, d, k)
    /\ UNCHANGED <<authorityVars, call>>

Move(card, bucket) == move_card(card, bucket) /\ UNCHANGED <<authorityVars, call>>

ProvisionerSink(c, card, external, k) ==
    /\ Allowed("sink:execute", RegistrationScope, Def(Registration).id)
    /\ \E n \in Node(Def(Registration)) :
          execute_sink(c, Registration, n, card, external, k, <<"history">>)
    /\ UNCHANGED authorityVars

\* Mutant: the administrator's approval alone is enough.
ensure_admin_history(card) == Approved(card, "registration_admin_reviewer", "registration_approved")

ensure_authority_provisioning_history(card) ==
    /\ Approved(card, "registration_compliance_validator", "registration_compliant")
    /\ Approved(card, "registration_admin_reviewer", "registration_approved")

\* The history, then ParticipantOnboardingPayload.model_validate; a call
\* that either refuses can only End.
CheckHistory(c) ==
    /\ At(c, "history")
    /\ ensure_authority_provisioning_history(call[c].card)
    /\ LET payload == cards[call[c].card].payload IN
       /\ payload.compliant
       /\ Proceed(c, <<"upsert", "find", "sink_executed">>,
                  Reference(c, payload.participant),
                  Provisioning(payload.participant, payload.status, payload.roles))
    /\ UNCHANGED <<runtimeVars, authorityVars>>

RecordSink(c) == SinkRecorded(c) /\ UNCHANGED authorityVars

-----------------------------------------------------------------------------
(* The /participants routes.                                                *)

SetParticipant(p, status) ==
    /\ Allowed("participant:manage", GlobalScope, None)
    /\ upsert_participant(p, status)
    /\ UNCHANGED <<runtimeVars, assignments, grants, call>>

\* POST /participants/{id}/roles adds the assignment and every grant of the
\* template, whatever is there.
AssignRole(c, r) ==
    /\ IsIdle(c)
    /\ Allowed("permission:grant", r.scope, None)
    /\ add_role_assignment(MkAssignment(r, "api"))
    /\ LET all == permission_grants(r.role, r.scope, "api") IN
       call' = [call EXCEPT ![c] =
          MkCall(ForGrants(all), None, 0, NoKey,
                 [Provisioning(r.participant, None, << >>) EXCEPT !.missing = all])]
    /\ UNCHANGED <<runtimeVars, participants, grants>>

GrantPermission(p, permission, scope) ==
    /\ Allowed("permission:grant", scope, None)
    /\ add_permission_grant([participant |-> p, role |-> None, permission |-> permission,
                             scope |-> scope, origin |-> "api"])
    /\ UNCHANGED <<runtimeVars, participants, assignments, call>>

End(c) == Abort(c) /\ UNCHANGED <<runtimeVars, authorityVars>>

-----------------------------------------------------------------------------
(* initialize_system registers the workflow before it seeds the root.       *)
Init ==
    /\ registered = {Registration}
    /\ cards = << >>
    /\ history = << >>
    /\ keys = << >>
    /\ participants = << >>
    /\ assignments = EmptyBag
    /\ grants = EmptyBag
    /\ call = [c \in Client |-> Idle]

Next ==
    \/ \E c \in Client :
          \/ Bootstrap(c) \/ Upsert(c) \/ Find(c) \/ Assign(c) \/ List(c) \/ Grant(c)
          \/ Initialized(c)
          \/ \E payload \in Payload, k \in Key : RegistrationSource(c, payload, k)
          \/ RecordSource(c)
          \/ \E card \in DOMAIN cards, external \in External, k \in Key :
                ProvisionerSink(c, card, external, k)
          \/ CheckHistory(c) \/ RecordSink(c)
          \/ \E r \in ByHand : AssignRole(c, r)
          \/ End(c)
    \/ \E card \in DOMAIN cards :
          \/ \E d \in Decision, k \in Key : Validate(card, d, k)
          \/ \E bucket \in MoveTo : Move(card, bucket)
    \/ \E p \in Person, status \in SetTo : SetParticipant(p, status)
    \/ \E r \in ByHand, permission \in Permission :
          GrantPermission(r.participant, permission, r.scope)

Spec == Init /\ [][Next]_vars

-----------------------------------------------------------------------------
(* Properties.                                                              *)

\* What each variable holds; no participant has authority before it has a
\* record, and a request that provisions adds grants while it lacks some.
TypeOK ==
    /\ registered = {Registration}
    /\ DOMAIN history = DOMAIN cards
    /\ \A i \in DOMAIN cards : cards[i].payload \in Payload
    /\ \A p \in DOMAIN participants : participants[p] \in ParticipantStatus
    /\ \A a \in BagToSet(assignments) : a.participant \in DOMAIN participants
    /\ \A g \in BagToSet(grants) :
          g.permission \in Permission /\ (g.participant = None <=> g.role # None)
    /\ \A c \in Client : call[c].data # None =>
          (At(c, "grant") <=> DOMAIN call[c].data.missing # {})

\* Participant r.participant has the role r.role and every permission of it
\* in the scope it was given for.
Provisioned(r) ==
    /\ HasAssignment(r)
    /\ \A i \in permissions(r.role) :
          \E g \in list_permission_grants(r.participant) :
             g.permission = RoleTemplate[r.role][i] /\ g.scope = r.scope

\* A completed provisioning is complete: when the sink has recorded that it
\* provisioned a card's participant, or the initializer returns, every role
\* asked for is there with all its permissions, however often the attempts
\* before were cut short between two writes.
ProvisionedIsAuthorized ==
    /\ \A card \in DOMAIN cards : \A e \in Events(card) : e.type = "sink_executed" =>
          \A r \in Elements(cards[card].payload.roles) : Provisioned(r)
    /\ \A c \in Client : At(c, "initialized") => \A r \in Elements(RootRoles) : Provisioned(r)

\* Retries of the sink and restarts of the process add an assignment and a
\* grant once; what operators add by hand is not counted.
NoDuplicateProvisioning ==
    /\ \A a \in BagToSet(assignments) : a.origin = "builtin" => assignments[a] = 1
    /\ \A g \in BagToSet(grants) : g.origin = "builtin" => grants[g] = 1

\* The sink writes only after the card's history holds the compliance
\* validation and the administrator's approval: whoever got a role from the
\* system, and is not the root, was approved on some card.
ProvisionedWithApproval ==
    \A a \in BagToSet(assignments) :
        a.origin = "builtin" /\ a.participant # Root =>
            \E card \in DOMAIN cards :
                /\ \E r \in Elements(cards[card].payload.roles) : MkAssignment(r, "builtin") = a
                /\ Approved(card, "registration_compliance_validator", "registration_compliant")
                /\ Approved(card, "registration_admin_reviewer", "registration_approved")

\* Client c executes a sink again: its key is the one the execution of that
\* sink on that card is recorded under.
Repeated(c) ==
    /\ call[c].card # 0
    /\ Stored(call[c].key, "event")
    /\ keys[call[c].key].card = call[c].card
    /\ history[call[c].card][keys[call[c].key].event].type = "sink_executed"

\* Duplicate sink execution is prevented when a matching idempotency record
\* exists: a repeated execution writes no participant, role or grant.
RepeatedSinkHasNoEffect ==
    [][\A c \in Client :
          Repeated(c) /\ call'[c] # call[c] => UNCHANGED authorityVars]_vars
=============================================================================
