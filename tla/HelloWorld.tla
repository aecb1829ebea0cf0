----------------------------- MODULE HelloWorld -----------------------------
(***************************************************************************)
(* Panels for TLC.  hello_v1 is                                             *)
(* examples/patchpanels/hello-world-patchpanel.yaml; hello_v2 renames the   *)
(* worker's inbox, other_v1 is a second workflow with the same pipe names.  *)
(***************************************************************************)
EXTENDS PatchPanel

MkNode(id, type, ins, outs, exits) ==
    [id |-> id, type |-> type, validator_kind |-> None, input_pipes |-> ins,
     output_pipes |-> outs, acceptance_contract |-> None, accept_exits |-> exits]

Bind(bucket, node, direction) == [bucket |-> bucket, node |-> node, direction |-> direction]

HelloNodes ==
    << MkNode("intake_source", "source", << >>, <<"intake_output">>, None),
       MkNode("example_worker", "worker", <<"worker_input">>, <<"worker_output">>, None),
       MkNode("human_validator", "validator", <<"validator_input">>, <<"publish", "reject">>,
              {"publish"}),
       MkNode("archive_sink", "sink", <<"sink_input">>, << >>, None) >>

HelloEdges ==
    { [from |-> "intake_source", to |-> "example_worker", on |-> "created"],
      [from |-> "example_worker", to |-> "human_validator", on |-> "submitted"],
      [from |-> "human_validator", to |-> "archive_sink", on |-> "publish"] }

\* The workflow with the worker's inbox named inbox.
Hello(version, inbox) ==
    [id |-> <<"hello_world">>,
     version |-> <<version>>,
     buckets |-> [b \in {"intake", inbox, "validation_inbox", "done", "rejected"} |->
                    IF b = "validation_inbox" THEN "basic_review" ELSE None],
     nodes |-> HelloNodes,
     edges |-> HelloEdges,
     pipe_bindings |->
        [intake_output |-> Bind(inbox, "intake_source", "output"),
         worker_input |-> Bind(inbox, "example_worker", "input"),
         worker_output |-> Bind("validation_inbox", "example_worker", "output"),
         validator_input |-> Bind("validation_inbox", "human_validator", "input"),
         publish |-> Bind("done", None, None),
         reject |-> Bind("rejected", "human_validator", "output"),
         sink_input |-> Bind("done", None, "input")],
     contracts |-> [basic_review |->
        { [type |-> "artifact_reference_structure"],
          [type |-> "required_artifacts", min_count |-> 1, roles |-> {"draft"}],
          [type |-> "human_review"] }]]

hello_v1 == Hello("1", "worker_inbox")
hello_v2 == Hello("2", "worker_queue")
other_v1 == [hello_v1 EXCEPT !.id = <<"other">>]

\* A reference to an artifact of a card, in the role the contract asks for.
Ref(id, card) == [id |-> id, card_id |-> card, role |-> "draft", well_formed |-> TRUE]
=============================================================================
