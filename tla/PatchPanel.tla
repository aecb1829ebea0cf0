----------------------------- MODULE PatchPanel -----------------------------
(***************************************************************************)
(* Patch Panels: the topology that says where Cards may go.  A panel is a   *)
(* value; this module has the operators the runtime applies to one: the     *)
(* structural validation of patchpanel/validator.py, the pipe resolution    *)
(* of runtime/service.py and the acceptance contracts of                    *)
(* artifacts/validation.py.                                                 *)
(*                                                                         *)
(* A panel is a record with the fields                                      *)
(*   id, version    sequences of colon-free segments, so that the string    *)
(*                  "id:version" is the concatenation id \o version;         *)
(*   buckets        function from bucket id to its acceptance contract id   *)
(*                  (or None);                                              *)
(*   nodes          sequence of records [id, type, validator_kind,          *)
(*                  input_pipes, output_pipes, acceptance_contract,         *)
(*                  accept_exits], the pipes being sequences;               *)
(*   edges          set of records [from, to, on];                          *)
(*   pipe_bindings  function from pipe to [bucket, node, direction], the    *)
(*                  last two possibly None;                                 *)
(*   contracts      function from contract id to a set of rules.            *)
(* Bucket, node and contract ids are unique in a panel                      *)
(* (PatchPanel.validate_unique_local_ids), hence the functions.             *)
(***************************************************************************)
EXTENDS Naturals, Sequences, FiniteSets

CONSTANT None  \* Python's None in an optional field

Elements(s) == { s[i] : i \in DOMAIN s }

\* The first of a nonempty set of positions: next(... for ... in ...).
Least(S) == CHOOSE i \in S : \A j \in S : i <= j

Node(p) == Elements(p.nodes)
node_ids(p) == { n.id : n \in Node(p) }
NodesOfType(p, type) == { i \in DOMAIN p.nodes : p.nodes[i].type = type }
Pipes(n, direction) == IF direction = "input" THEN n.input_pipes ELSE n.output_pipes

-----------------------------------------------------------------------------
(* Resolution: runtime/service.py.                                          *)

\* The string f"{id}:{version}" that a Card keeps, and what
\* workflow_version.rsplit(":", 1)[0] gives back.
workflow_version(p) == p.id \o p.version
rsplit_panel_id(wv) == SubSeq(wv, 1, Len(wv) - 1)

initial_pipe(p) == p.nodes[Least(NodesOfType(p, "source"))].output_pipes[1]

\* resolve_initial_bucket raises no error.
HasInitialBucket(p) ==
    /\ NodesOfType(p, "source") # {}
    /\ p.nodes[Least(NodesOfType(p, "source"))].output_pipes # << >>
    /\ initial_pipe(p) \in DOMAIN p.pipe_bindings

resolve_initial_bucket(p) == p.pipe_bindings[initial_pipe(p)].bucket

\* resolve_pipe_bucket raises no InvalidOperationError ...
IsBound(p, pipe, direction) ==
    /\ pipe \in DOMAIN p.pipe_bindings
    /\ p.pipe_bindings[pipe].direction \in {None, direction}

Declaring(p, pipe, direction) ==
    { i \in DOMAIN p.nodes : pipe \in Elements(Pipes(p.nodes[i], direction)) }

\* ... and no NotFoundError either.
HasNode(p, pipe, direction) ==
    \/ p.pipe_bindings[pipe].node # None
    \/ Declaring(p, pipe, direction) # {}

pipe_bucket(p, pipe) == p.pipe_bindings[pipe].bucket

pipe_node(p, pipe, direction) ==
    IF p.pipe_bindings[pipe].node # None
    THEN p.pipe_bindings[pipe].node
    ELSE p.nodes[Least(Declaring(p, pipe, direction))].id

Resolvable(p, pipe, direction) ==
    IsBound(p, pipe, direction) /\ HasNode(p, pipe, direction)

-----------------------------------------------------------------------------
(* Acceptance contracts.  A rule is [type |-> "artifact_reference_structure"] *)
(* or [type |-> "required_artifacts", min_count, roles]; an artifact          *)
(* reference is a record [id, card_id, role, well_formed], well_formed        *)
(* standing for the three tests of _validate_structure.                       *)

RuleAccepts(rule, refs) ==
    CASE rule.type = "artifact_reference_structure" ->
            \A r \in Elements(refs) : r.well_formed
      [] rule.type = "required_artifacts" ->
            /\ Len(refs) >= rule.min_count
            /\ rule.roles \subseteq { r.role : r \in Elements(refs) }
      [] OTHER -> TRUE

ensure_artifacts_accepted(p, bucket, refs) ==
    /\ bucket \in DOMAIN p.buckets
    /\ p.buckets[bucket] # None =>
          /\ p.buckets[bucket] \in DOMAIN p.contracts
          /\ \A rule \in p.contracts[p.buckets[bucket]] : RuleAccepts(rule, refs)

\* Mutant: any card's artifacts will do.
ensure_some_artifact_refs(card, refs) == refs # << >>

ensure_artifact_refs_belong_to_card(card, refs) ==
    /\ refs # << >>
    /\ \A r \in Elements(refs) : r.card_id = card

-----------------------------------------------------------------------------
(* PatchPanelValidator.validate: a panel with any error is refused.         *)

validate_contract_references(p) ==
    /\ \A b \in DOMAIN p.buckets : p.buckets[b] \in DOMAIN p.contracts \union {None}
    /\ \A n \in Node(p) : n.acceptance_contract \in DOMAIN p.contracts \union {None}

validate_edges(p) == \A e \in p.edges : {e.from, e.to} \subseteq node_ids(p)

validate_validator_edges(p) ==
    \A e \in p.edges, n \in Node(p) :
        n.type = "validator" /\ n.id = e.from => e.on \in Elements(n.output_pipes)

is_routing_validator(n) == n.validator_kind = "routing" \/ Len(n.output_pipes) > 1

\* accept_exits is None when config.accept_exits is not a list.
validate_routing_validator_accept_exits(p) ==
    \A n \in Node(p) : n.type = "validator" /\ is_routing_validator(n) =>
        /\ n.accept_exits # None
        /\ n.accept_exits \subseteq Elements(n.output_pipes)

\* declared_pipes: a dict filled node by node, inputs before outputs, so the
\* last declaration of a pipe wins.
DeclaredPipes(p) ==
    UNION { Elements(n.input_pipes) \union Elements(n.output_pipes) : n \in Node(p) }

declared_pipe(p, pipe) ==
    LET ns == Declaring(p, pipe, "input") \union Declaring(p, pipe, "output")
        i == CHOOSE i \in ns : \A j \in ns : j <= i
    IN [node |-> p.nodes[i].id,
        direction |-> IF i \in Declaring(p, pipe, "output") THEN "output" ELSE "input"]

validate_pipe_bindings(p) ==
    /\ DOMAIN p.pipe_bindings = DeclaredPipes(p)
    /\ \A pipe \in DOMAIN p.pipe_bindings :
          LET b == p.pipe_bindings[pipe] IN
          /\ b.node \in {None, declared_pipe(p, pipe).node}
          /\ b.direction \in {None, declared_pipe(p, pipe).direction}
          /\ b.bucket \in DOMAIN p.buckets

validate_boundaries(p) ==
    /\ NodesOfType(p, "source") # {}
    /\ NodesOfType(p, "sink") # {}
    /\ \A n \in Node(p), e \in p.edges :
          /\ n.type = "source" => e.to # n.id
          /\ n.type = "sink" => e.from # n.id

\* networkx.descendants, from every source at once.
Reachable(p) ==
    LET within[k \in Nat] ==
            IF k = 0 THEN { n.id : n \in { m \in Node(p) : m.type = "source" } }
            ELSE within[k - 1] \union { e.to : e \in { d \in p.edges : d.from \in within[k - 1] } }
    IN within[Len(p.nodes)]

validate_reachability(p) == node_ids(p) \subseteq Reachable(p)

validate_dead_ends(p) ==
    \A n \in Node(p) : n.type = "sink" \/ \E e \in p.edges : e.from = n.id

validate(p) ==
    /\ validate_contract_references(p)
    /\ validate_edges(p)
    /\ validate_validator_edges(p)
    /\ validate_routing_validator_accept_exits(p)
    /\ validate_pipe_bindings(p)
    /\ validate_boundaries(p)
    /\ validate_reachability(p)
    /\ validate_dead_ends(p)
=============================================================================
