--------------------------- MODULE MCPublication ---------------------------
(***************************************************************************)
(* Instances of Publication for TLC: hello_v1 and hello_v2 are proposed,    *)
(* and a hello_v2 whose worker is not reachable.                            *)
(***************************************************************************)
EXTENDS Publication, SystemPanels, TLC

MCDefinition ==
    [approval |-> system_pp_approval, v1 |-> hello_v1, v2 |-> hello_v2,
     broken |-> [hello_v2 EXCEPT !.edges = {}]]
Unkeyed == {NoKey}
NoReference == {None}

\* The check by itself, an approval and a rejection, and a contradiction.
MCDecision ==
    { [accepted |-> None, exit |-> None],
      [accepted |-> None, exit |-> "topology_valid"],
      [accepted |-> None, exit |-> "proposal_approved"],
      [accepted |-> FALSE, exit |-> "proposal_approved"] }
=============================================================================
