----------------------------- MODULE MCGenesis -----------------------------
(***************************************************************************)
(* Instances of Genesis for TLC.                                            *)
(***************************************************************************)
EXTENDS Genesis, SystemPanels, TLC

MCDefinition == [approval |-> system_pp_approval, v1 |-> hello_v1, v2 |-> hello_v2]
Unkeyed == {NoKey}
Nothing == {}
MCIntentRequest == [dedup : {"d1"}, propose_if_missing : BOOLEAN]
NoReference == {None}
MCDecision ==
    { [accepted |-> None, exit |-> None],
      [accepted |-> None, exit |-> "proposal_approved"] }
=============================================================================
