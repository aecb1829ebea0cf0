----------------------------- MODULE Authority -----------------------------
(***************************************************************************)
(* Participants, role assignments and permission grants (auth/): the        *)
(* tables, the built-in role catalogue, what a participant may do, and the  *)
(* steps by which ensure_builtin_role_assignment (bootstrap.py) gives a     *)
(* participant a role.                                                      *)
(*                                                                         *)
(* A scope is [type, id], id a sequence or None.  Nothing in the system     *)
(* revokes an assignment or a grant or gives one an expiry date, so every   *)
(* stored one is active.                                                    *)
(***************************************************************************)
EXTENDS PatchPanel, Bags

CONSTANTS
    Permission,     \* the permissions a run looks at
    MaxAssignments, MaxGrants  \* bounds on the two tables

VARIABLES
    participants,  \* participant id -> status
    assignments,   \* bag of [participant, role, scope, origin]
    grants         \* bag of [participant, role, permission, scope, origin]

authorityVars == <<participants, assignments, grants>>

ASSUME AuthorityBoundsAssumption == MaxAssignments \in Nat /\ MaxGrants \in Nat

GlobalScope == [type |-> "global", id |-> None]
PanelScope(id) == [type |-> "patch_panel", id |-> id]
CardScope(card) == [type |-> "card", id |-> <<card>>]

-----------------------------------------------------------------------------
(* BUILT_IN_ROLE_TEMPLATES: the permissions of a role, in order.            *)

PermissionName ==
    <<"patch_panel:create", "patch_panel:edit_draft", "patch_panel:publish_version",
      "patch_panel:archive", "patch_panel:discover", "bucket:create", "node:create",
      "edge:create", "pipe_binding:create", "card:create", "card:claim",
      "card:submit_artifact", "card:release", "card:view", "validation:submit",
      "mutation:propose", "mutation:validate", "mutation:promote", "shadow:create",
      "shadow:complete", "sink:execute", "boundary:source_ingress", "boundary:sink_egress",
      "participant:manage", "permission:grant", "audit:view">>

Designing == <<"bucket:create", "node:create", "edge:create", "pipe_binding:create">>

RoleTemplate ==
    [workflow_owner |->
        <<"patch_panel:create", "patch_panel:edit_draft", "patch_panel:publish_version",
          "patch_panel:archive", "patch_panel:discover">> \o Designing \o
        <<"mutation:validate", "mutation:promote", "shadow:create", "permission:grant">>,
     workflow_designer |->
        <<"patch_panel:create", "patch_panel:edit_draft", "patch_panel:discover">> \o Designing \o
        <<"mutation:propose">>,
     worker |-> <<"card:view", "card:claim", "card:submit_artifact", "card:release">>,
     validator |-> <<"card:view", "validation:submit">>,
     routing_validator |-> <<"card:view", "validation:submit">>,
     source_operator |-> <<"boundary:source_ingress", "card:create">>,
     sink_operator |-> <<"sink:execute", "boundary:sink_egress">>,
     reviewer_approver |->
        <<"card:view", "validation:submit", "mutation:validate", "mutation:promote",
          "patch_panel:publish_version">>,
     shadow_participant |->
        <<"card:view", "card:claim", "card:submit_artifact", "shadow:complete",
          "mutation:propose">>,
     learning_optimizer |->
        <<"card:view", "patch_panel:discover", "mutation:propose", "shadow:create">>,
     observer |-> <<"card:view", "patch_panel:discover", "audit:view">>,
     admin |-> PermissionName,
     intent_operator |-> <<"card:create", "patch_panel:discover">>,
     workflow_architect |->
        <<"patch_panel:discover", "patch_panel:create", "patch_panel:edit_draft">> \o Designing \o
        <<"card:create", "mutation:propose", "shadow:create">>]

\* A template lists permissions of the catalogue, each once.
ASSUME RoleTemplateAssumption ==
    /\ None \notin DOMAIN RoleTemplate
    /\ \A role \in DOMAIN RoleTemplate :
          /\ RoleTemplate[role] \in Seq(Elements(PermissionName))
          /\ \A i, j \in DOMAIN RoleTemplate[role] :
                RoleTemplate[role][i] = RoleTemplate[role][j] => i = j

\* Where the template of a role has the permissions that the run looks at.
permissions(role) == { i \in DOMAIN RoleTemplate[role] : RoleTemplate[role][i] \in Permission }

\* template.permission_grants(scope): grants to the role, not to a participant,
\* at their positions in the template.
permission_grants(role, scope, origin) ==
    [i \in permissions(role) |->
        [participant |-> None, role |-> role, permission |-> RoleTemplate[role][i],
         scope |-> scope, origin |-> origin]]

-----------------------------------------------------------------------------
(* The repository.                                                          *)

upsert_participant(p, status) ==
    participants' = [q \in DOMAIN participants \union {p} |->
                       IF q = p THEN status ELSE participants[q]]

\* The durable tables' foreign keys: the participant must be there; the
\* mutant is a table without them.
add_any_assignment(a) ==
    /\ BagCardinality(assignments) < MaxAssignments
    /\ assignments' = assignments (+) SetToBag({a})

add_role_assignment(a) ==
    /\ a.participant \in DOMAIN participants
    /\ BagCardinality(assignments) < MaxAssignments
    /\ assignments' = assignments (+) SetToBag({a})

add_permission_grant(g) ==
    /\ g.participant = None \/ g.participant \in DOMAIN participants
    /\ BagCardinality(grants) < MaxGrants
    /\ grants' = grants (+) SetToBag({g})

list_role_assignments(p) == { a \in BagToSet(assignments) : a.participant = p }

\* The grants of the participant and those of every role it has.
list_permission_grants(p) ==
    LET role_ids == { a.role : a \in list_role_assignments(p) }
    IN { g \in BagToSet(grants) : g.participant = p \/ g.role \in role_ids }

\* A grant's scope covers the target; panel is context["patch_panel_id"] or
\* None, and no caller passes context["workflow_id"].
scope_matches(scope, target, panel) ==
    \/ scope.type \in {"global", "development_global"}
    \/ scope.type = target.type /\ scope.id = target.id
    \/ scope.type = "patch_panel" /\ panel # None /\ scope.id = panel

authorize(p, permission, target, panel) ==
    /\ p \in DOMAIN participants
    /\ participants[p] = "active"
    /\ \E g \in list_permission_grants(p) :
          g.permission = permission /\ scope_matches(g.scope, target, panel)

-----------------------------------------------------------------------------
(* ensure_builtin_role_assignment: r is [participant, role, scope].         *)

MkAssignment(r, origin) ==
    [participant |-> r.participant, role |-> r.role, scope |-> r.scope, origin |-> origin]

HasAssignment(r) ==
    \E a \in list_role_assignments(r.participant) : a.role = r.role /\ a.scope = r.scope

\* _has_matching_grant
MatchingGrant(S, g) ==
    \E h \in S : /\ h.role = g.role
                 /\ h.participant = g.participant
                 /\ h.permission = g.permission
                 /\ h.scope = g.scope

\* The grants of the template that the participant's active ones lack, and
\* two mutants: one gives none to a participant that has the role already,
\* the other sees only the grants made to the participant itself.
Lacking(all, active) ==
    [i \in { j \in DOMAIN all : ~MatchingGrant(active, all[j]) } |-> all[i]]

NoGrantsIfAssigned(r) ==
    IF HasAssignment(r) THEN << >> ELSE permission_grants(r.role, r.scope, "builtin")

MissingFromOwnGrants(r) ==
    Lacking(permission_grants(r.role, r.scope, "builtin"),
            { g \in BagToSet(grants) : g.participant = r.participant })

MissingGrants(r) ==
    Lacking(permission_grants(r.role, r.scope, "builtin"), list_permission_grants(r.participant))
=============================================================================
