---------------------------- MODULE MCOnboarding ----------------------------
(***************************************************************************)
(* Instances of Onboarding for TLC: ann asks for two roles, or sends a      *)
(* payload that is not compliant.                                           *)
(***************************************************************************)
EXTENDS Onboarding, SystemPanels, TLC

MCDefinition == [registration |-> system_agent_registration]

Role(p, role, scope) == [participant |-> p, role |-> role, scope |-> scope]
OnPanel == PanelScope(system_agent_registration.id)

Ann == [compliant |-> TRUE, participant |-> "ann", status |-> "active",
        roles |-> <<Role("ann", "validator", OnPanel), Role("ann", "admin", GlobalScope)>>]
AnnAsValidator == [Ann EXCEPT !.roles = <<Role("ann", "validator", OnPanel)>>]
MCPayload == {Ann, [Ann EXCEPT !.compliant = FALSE]}
ValidatorPayload == {AnnAsValidator}

MCByHand == {Role("ann", "validator", OnPanel)}
Nothing == {}
Unkeyed == {NoKey}
OneKey == {NoKey, <<"k1">>}
NoReference == {None}

MCDecision ==
    { [accepted |-> None, exit |-> None],
      [accepted |-> None, exit |-> "registration_compliant"],
      [accepted |-> None, exit |-> "registration_approved"] }
=============================================================================
