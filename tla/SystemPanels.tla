---------------------------- MODULE SystemPanels ----------------------------
(***************************************************************************)
(* The system workflows of defaults/patchpanels/*.yaml, as panels.  Their   *)
(* nodes carry the part of `config` that the node executor reads.           *)
(***************************************************************************)
EXTENDS HelloWorld

\* node.config, None standing for an absent key.
Config(handler, valid, invalid, egress) ==
    [validation_handler |-> handler, valid_exit |-> valid, invalid_exit |-> invalid,
     egress_contract |-> egress, allow_shadow_egress |-> FALSE]

NoConfig == Config(None, None, None, None)

Configured(n, config) ==
    [f \in DOMAIN n \union {"config"} |-> IF f = "config" THEN config ELSE n[f]]

Routing(id, input, accept, reject, config) ==
    Configured([MkNode(id, "validator", <<input>>, <<accept, reject>>, {accept})
                  EXCEPT !.validator_kind = "routing"], config)

\* Both workflows have this shape: a source, an automated check, a reviewer
\* and a sink, one bucket in front of each of the last three and one for the
\* rejected cards.
SystemPanel(id, b, source, check, review, sink, out, in) ==
    [id |-> <<id>>,
     version |-> <<"1.0.0">>,
     buckets |-> [bucket \in Elements(b) |-> None],
     nodes |-> <<source, check, review, sink>>,
     edges |-> { [from |-> source.id, to |-> check.id, on |-> "card_created"],
                 [from |-> check.id, to |-> review.id, on |-> check.output_pipes[1]],
                 [from |-> review.id, to |-> sink.id, on |-> review.output_pipes[1]] },
     pipe_bindings |->
        [pipe \in Elements(out) \union Elements(in) |->
           CASE pipe = out[1] -> Bind(b[1], source.id, "output")
             [] pipe = in[1] -> Bind(b[1], check.id, "input")
             [] pipe = out[2] -> Bind(b[2], check.id, "output")
             [] pipe = out[3] -> Bind(b[4], check.id, "output")
             [] pipe = in[2] -> Bind(b[2], review.id, "input")
             [] pipe = out[4] -> Bind(b[3], review.id, "output")
             [] pipe = out[5] -> Bind(b[4], review.id, "output")
             [] pipe = in[3] -> Bind(b[3], sink.id, "input")],
     contracts |-> << >>]

system_pp_approval ==
    SystemPanel("system_pp_approval",
        <<"topology_proposals", "governance_review", "registry_publication", "rejected_proposals">>,
        Configured(MkNode("proposal_source", "source", << >>, <<"proposal_submitted">>, None),
                   NoConfig),
        Routing("topological_validator", "topology_validation_input", "topology_valid",
                "topology_invalid",
                Config("patch_panel_topology", "topology_valid", "topology_invalid", None)),
        Routing("governance_reviewer", "governance_review_input", "proposal_approved",
                "proposal_rejected", NoConfig),
        Configured(MkNode("registry_publication_sink", "sink", <<"publication_input">>, << >>, None),
                   Config(None, None, None, "registry_publication")),
        <<"proposal_submitted", "topology_valid", "topology_invalid", "proposal_approved",
          "proposal_rejected">>,
        <<"topology_validation_input", "governance_review_input", "publication_input">>)

system_agent_registration ==
    SystemPanel("system_agent_registration",
        <<"registration_compliance", "registration_admin_review", "authority_provisioning",
          "registration_rejected">>,
        Configured(MkNode("registration_source", "source", << >>, <<"registration_submitted">>, None),
                   NoConfig),
        Routing("registration_compliance_validator", "compliance_input", "registration_compliant",
                "registration_noncompliant",
                Config("participant_onboarding_compliance", "registration_compliant",
                       "registration_noncompliant", None)),
        Routing("registration_admin_reviewer", "admin_review_input", "registration_approved",
                "registration_rejected", NoConfig),
        Configured(MkNode("authority_provisioner_sink", "sink", <<"provisioning_input">>, << >>,
                          None),
                   Config(None, None, None, "authority_provisioning")),
        <<"registration_submitted", "registration_compliant", "registration_noncompliant",
          "registration_approved", "registration_rejected">>,
        <<"compliance_input", "admin_review_input", "provisioning_input">>)
=============================================================================
