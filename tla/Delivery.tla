------------------------------ MODULE Delivery ------------------------------
(***************************************************************************)
(* Work through a panel, end to end: boundary sources take external events  *)
(* in, workers are executed, shadow cards run beside production ones and    *)
(* boundary sinks record what left the system; mutations promote new        *)
(* versions of the panel.  External systems deliver events twice and        *)
(* requests are repeated with the same key.  The shadow service keeps its   *)
(* links and mutations in memory: a restart loses them.                     *)
(***************************************************************************)
EXTENDS NodeExecutor

CONSTANTS
    Dedup,            \* deduplication keys of external events, as sequences; NoKey may be one
    CardKey,          \* idempotency keys of POST /cards, as sequences; NoKey may be one
    Token,            \* actor tokens of external systems
    Worker,           \* worker ids
    Release,          \* the panels that mutations promote
    MaxParallel,      \* max_parallel of a shadow request
    MaxLeases, MaxLinks, MaxMutations  \* bounds

VARIABLES
    leases,     \* sequence of [card, worker, node, active]
    links,      \* shadow links: sequence of [production, shadow, status]
    mutations   \* sequence of [status, panel]

serviceVars == <<links, mutations>>
vars == <<runtimeVars, call, leases, serviceVars>>

ASSUME DeliveryBoundsAssumption ==
    /\ MaxParallel \in Nat
    /\ MaxLeases \in Nat /\ MaxLinks \in Nat /\ MaxMutations \in Nat

-----------------------------------------------------------------------------
(* boundaries.py: a contract is node.config.boundary, with the fields       *)
(* tokens, target, deduplicates and egress_key.                             *)

ensure_authorized(n, token) == n.config.boundary.tokens # {} => token \in n.config.boundary.tokens

\* _extract_path of the contract's deduplication key, if it has one.
deduplication_key(n, d) == IF n.config.boundary.deduplicates THEN d ELSE NoKey

\* What a card carries: its data and, in its metadata, the boundary source
\* and the deduplication key of the delivery that it was made for.
Ingress(payload, source, dedup) == [data |-> payload, source |-> source, dedup |-> dedup]

BoundaryKey(kind, p, n, key) ==
    IF key = NoKey THEN NoKey ELSE <<kind>> \o Def(p).id \o <<n.id>> \o key

\* What a boundary source still does once it has the card; the mutant reports
\* the event before the execution.
ReceivedFirst == <<"boundary_source_received", "source_executed">>

SourceSteps == <<"source_executed", "boundary_source_received">>

BoundarySource(c, p, n, payload, d, token) ==
    /\ n.type = "source"
    /\ ensure_authorized(n, token)
    /\ n.config.boundary.target \in {None, workflow_version(Def(p))}
    /\ execute_source(c, p, n, Ingress(payload, n.id, deduplication_key(n, d)),
                      BoundaryKey("boundary-source", p, n, deduplication_key(n, d)),
                      SourceSteps)
    /\ UNCHANGED <<leases, serviceVars>>

RecordSource(c) == SourceRecorded(c) /\ UNCHANGED <<leases, serviceVars>>

\* _render_template, for the names joined by "+".
RenderedName(name, n, card, external) ==
    CASE name = "card_id" -> card
      [] name = "sink_id" -> n.id
      [] name = "workflow_version" -> workflow_version(Def(cards[card].panel))
      [] name = "external_reference" -> external

\* contract.idempotency_key or "card_id + sink_id"; the mutant's default
\* names what the external system answered.
reference_template(n) ==
    IF n.config.boundary.egress_key = << >> THEN <<"card_id", "external_reference">>
    ELSE n.config.boundary.egress_key

egress_template(n) ==
    IF n.config.boundary.egress_key = << >> THEN <<"card_id", "sink_id">>
    ELSE n.config.boundary.egress_key

render_template(n, card, external) ==
    [i \in DOMAIN egress_template(n) |-> RenderedName(egress_template(n)[i], n, card, external)]

BoundarySink(c, p, n, card, external, token) ==
    /\ n.type = "sink"
    /\ ensure_authorized(n, token)
    /\ execute_sink(c, p, n, card, external,
                    BoundaryKey("boundary-sink", p, n, render_template(n, card, external)),
                    <<"sink_executed", "boundary_sink_egressed">>)
    /\ UNCHANGED <<leases, serviceVars>>

RecordSink(c) == SinkRecorded(c) /\ UNCHANGED <<leases, serviceVars>>

\* The adapter's own event, the last step of both; the mutant records it
\* without a key.
RecordUnkeyed(c, type) ==
    /\ At(c, type)
    /\ record_event(call[c].card, MkEvent(type, call[c].node, None, None, call[c].ref, NoKey))
    /\ Continue(c, Rest(c))
    /\ UNCHANGED <<leases, serviceVars>>

RecordBoundary(c, type) ==
    /\ At(c, type)
    /\ record_event(call[c].card, MkEvent(type, call[c].node, None, None, call[c].ref,
                                          Suffixed(call[c].key, "event")))
    /\ Continue(c, Rest(c))
    /\ UNCHANGED <<leases, serviceVars>>

\* POST /cards: a card that no boundary source made, under a client's key.
\* The client leaves the metadata of adapters and shadows alone.
CreateCard(p, payload, k) ==
    /\ \E card \in 1..MaxCards :
          create_card(Def(p).id, Ingress(payload, None, NoKey), FALSE, k, card)
    /\ UNCHANGED <<call, leases, serviceVars>>

-----------------------------------------------------------------------------
(* execute_worker: claim, submit, then look at the history again.           *)

ActiveLease(card) == \E l \in DOMAIN leases : leases[l].card = card /\ leases[l].active

\* claim_card answers lease l; _single_patch_panel wants one panel.
claim_card(pipe, worker, k, l) ==
    \/ /\ Stored(k, "lease")
       /\ l = keys[k].event
       /\ UNCHANGED <<runtimeVars, leases>>
    \/ /\ Fresh(k)
       /\ l = Len(leases) + 1
       /\ Len(leases) < MaxLeases
       /\ \E p \in registered :
             /\ registered = {p}
             /\ Resolvable(Def(p), pipe, "input")
             /\ \E card \in DOMAIN cards :
                   /\ cards[card].bucket = pipe_bucket(Def(p), pipe)
                   /\ ~ActiveLease(card)
                   /\ Len(history[card]) < MaxEvents
                   /\ leases' = Append(leases, [card |-> card, worker |-> worker, active |-> TRUE,
                                                node |-> pipe_node(Def(p), pipe, "input")])
                   /\ history' = [history EXCEPT ![card] =
                         Append(@, MkEvent("card_claimed", worker, None, pipe, None, k))]
                   /\ store_idempotency(k, "lease", card, l)
       /\ UNCHANGED <<registered, cards>>

\* node_id = self._node_for_pipe(...): the node comes from the binding.
WorkerNode(p, pipe) ==
    { n \in Node(p) : /\ n.type = "worker"
                      /\ pipe \in DOMAIN p.pipe_bindings
                      /\ p.pipe_bindings[pipe].node = n.id }

\* Mutant: the claim of a retry is a new one.
ExecuteWorkerAnew(c, p, pipe, out, worker, k) ==
    /\ IsIdle(c)
    /\ p \in registered
    /\ \E n \in WorkerNode(Def(p), pipe), l \in 1..MaxLeases :
          /\ claim_card(pipe, worker, NoKey, l)
          /\ call' = [call EXCEPT ![c] =
                MkCall(<<"submit", "check">>, n.id, leases'[l].card, k,
                       [lease |-> l, out |-> out, panel |-> p])]
    /\ UNCHANGED serviceVars

ExecuteWorker(c, p, pipe, out, worker, k) ==
    /\ IsIdle(c)
    /\ p \in registered
    /\ \E n \in WorkerNode(Def(p), pipe), l \in 1..MaxLeases :
          /\ claim_card(pipe, worker, Suffixed(k, "claim"), l)
          /\ call' = [call EXCEPT ![c] =
                MkCall(<<"submit", "check">>, n.id, leases'[l].card, k,
                       [lease |-> l, out |-> out, panel |-> p])]
    /\ UNCHANGED serviceVars

\* The artifact references are ones that submit_artifact takes; with others
\* it raises and the call Ends.
submit_artifact(l, out, k) ==
    \/ /\ Stored(k, "artifacts")
       /\ UNCHANGED <<runtimeVars, leases>>
    \/ /\ Fresh(k)
       /\ leases[l].active
       /\ LET card == leases[l].card
              p == Def(cards[card].panel)
          IN /\ Resolvable(p, out, "output")
             /\ pipe_node(p, out, "output") = leases[l].node
             /\ Len(history[card]) < MaxEvents
             /\ cards' = [cards EXCEPT ![card].bucket = pipe_bucket(p, out)]
             /\ leases' = [leases EXCEPT ![l].active = FALSE]
             /\ history' = [history EXCEPT ![card] =
                   Append(@, MkEvent("artifact_submitted", leases[l].worker, None, out, l, k))]
             /\ store_idempotency(k, "artifacts", card, Len(history'[card]))
       /\ UNCHANGED registered

Submit(c) ==
    /\ At(c, "submit")
    /\ submit_artifact(call[c].data.lease, call[c].data.out, Suffixed(call[c].key, "submit"))
    /\ Continue(c, Rest(c))
    /\ UNCHANGED serviceVars

\* event = self.runtime.card_history(...)[-1] is the submission.
LastIsSubmission(c) ==
    history[call[c].card][Len(history[call[c].card])].type = "artifact_submitted"

\* A call that this refuses can only End.
Check(c) ==
    /\ At(c, "check")
    /\ Def(call[c].data.panel).pipe_bindings[call[c].data.out].node = call[c].node
    /\ LastIsSubmission(c)
    /\ Continue(c, Rest(c))
    /\ UNCHANGED <<runtimeVars, leases, serviceVars>>

\* The time of a lease runs out.
Expire(l) ==
    /\ leases[l].active
    /\ leases' = [leases EXCEPT ![l].active = FALSE]
    /\ UNCHANGED <<runtimeVars, call, serviceVars>>

-----------------------------------------------------------------------------
(* Shadows.                                                                 *)

ActiveLinks(card) ==
    { i \in DOMAIN links : links[i].production = card /\ links[i].status = "active" }

StartShadow(c, card, k) ==
    /\ IsIdle(c)
    /\ Cardinality(ActiveLinks(card)) < MaxParallel
    /\ call' = [call EXCEPT ![c] = MkCall(<<"shadow_card", "shadow_created">>, None, card, k, None)]
    /\ UNCHANGED <<runtimeVars, leases, serviceVars>>

\* production_card.workflow_version.split(":", maxsplit=1)[0]
split_panel_id(card) == <<Head(workflow_version(Def(cards[card].panel)))>>

\* Mutant: the copy is not marked.
UnmarkedShadowCard(card, k, s) ==
    create_card(split_panel_id(card), cards[card].payload, cards[card].shadow, k, s)

ShadowCard(card, k, s) ==
    create_card(split_panel_id(card), cards[card].payload, TRUE, k, s)

\* The card is created and, in memory, linked.
CreateShadow(c) ==
    /\ At(c, "shadow_card")
    /\ Len(links) < MaxLinks
    /\ \E s \in 1..MaxCards :
          /\ ShadowCard(call[c].card, call[c].key, s)
          /\ links' = Append(links, [production |-> call[c].card, shadow |-> s,
                                     status |-> "active"])
          /\ Proceed(c, Rest(c), s, None)
    /\ UNCHANGED <<leases, mutations>>

CompleteShadow(c, i) ==
    /\ IsIdle(c)
    /\ links[i].status # "lost"
    /\ links' = [links EXCEPT ![i].status = "completed"]
    /\ call' = [call EXCEPT ![c] = [MkCall(<<"shadow_completed">>, None, links[i].production,
                                           NoKey, None) EXCEPT !.ref = links[i].shadow]]
    /\ UNCHANGED <<runtimeVars, leases, mutations>>

\* record_event on the production card, without a key.
RecordShadow(c, type) ==
    /\ At(c, type)
    /\ record_event(call[c].card, MkEvent(type, None, None, None, call[c].ref, NoKey))
    /\ Continue(c, Rest(c))
    /\ UNCHANGED <<leases, serviceVars>>

-----------------------------------------------------------------------------
(* Mutations.                                                               *)

ProposeMutation ==
    /\ Len(mutations) < MaxMutations
    /\ mutations' = Append(mutations, [status |-> "shadowing", panel |-> None])
    /\ UNCHANGED <<runtimeVars, call, leases, links>>

\* validate_mutation takes a mutation in any status.
ValidateMutation(i, accepted) ==
    /\ mutations[i].status # "lost"
    /\ mutations' = [mutations EXCEPT ![i].status = IF accepted THEN "validated" ELSE "rejected"]
    /\ UNCHANGED <<runtimeVars, call, leases, links>>

\* What a promotion does once it has its copy of the mutation; the mutant
\* marks the mutation before it registers the panel.
PromotedFirst == <<"promoted", "register">>

PromotionSteps == <<"register", "promoted">>

\* mutation = self._mutation(mutation_id), the copy that will be promoted.
StartPromotion(c, i, p) ==
    /\ IsIdle(c)
    /\ mutations[i].status = "validated"
    /\ call' = [call EXCEPT ![c] = MkCall(PromotionSteps, None, 0, NoKey,
                                          [mutation |-> i, panel |-> p])]
    /\ UNCHANGED <<runtimeVars, leases, serviceVars>>

\* The durable half; an invalid panel raises and the call can only End.
RegisterPromoted(c) ==
    /\ At(c, "register")
    /\ register_patch_panel(call[c].data.panel)
    /\ Continue(c, Rest(c))
    /\ UNCHANGED <<leases, serviceVars>>

\* The copy is written back, whatever became of the mutation meanwhile.
MarkPromoted(c) ==
    /\ At(c, "promoted")
    /\ mutations' = [mutations EXCEPT ![call[c].data.mutation] =
                        [status |-> "promoted", panel |-> call[c].data.panel]]
    /\ Continue(c, Rest(c))
    /\ UNCHANGED <<runtimeVars, leases, links>>

-----------------------------------------------------------------------------
End(c) == Abort(c) /\ UNCHANGED <<runtimeVars, leases, serviceVars>>

\* The process restarts; a new one knows no link and no mutation.
Restart ==
    /\ call' = [c \in Client |-> Idle]
    /\ links' = [i \in DOMAIN links |-> [links[i] EXCEPT !.status = "lost"]]
    /\ mutations' = [i \in DOMAIN mutations |-> [mutations[i] EXCEPT !.status = "lost"]]
    /\ UNCHANGED <<runtimeVars, leases>>

Init ==
    /\ registered = ValidPanels \ Release
    /\ cards = << >>
    /\ history = << >>
    /\ keys = << >>
    /\ call = [c \in Client |-> Idle]
    /\ leases = << >>
    /\ links = << >>
    /\ mutations = << >>

Next ==
    \/ \E c \in Client :
          \/ \E p \in registered, payload \in Payload, d \in Dedup, token \in Token :
                \E n \in Node(Def(p)) : BoundarySource(c, p, n, payload, d, token)
          \/ \E p \in registered, card \in DOMAIN cards, external \in External, token \in Token :
                \E n \in Node(Def(p)) : BoundarySink(c, p, n, card, external, token)
          \/ RecordSource(c) \/ RecordSink(c)
          \/ RecordBoundary(c, "boundary_source_received")
          \/ RecordBoundary(c, "boundary_sink_egressed")
          \/ \E p \in registered, worker \in Worker, k \in Key :
                \E n \in Node(Def(p)) :
                   \E pipe \in Elements(n.input_pipes), out \in Elements(n.output_pipes) :
                      ExecuteWorker(c, p, pipe, out, worker, k)
          \/ Submit(c) \/ Check(c)
          \/ \E card \in DOMAIN cards, k \in Key : StartShadow(c, card, k)
          \/ CreateShadow(c)
          \/ \E i \in DOMAIN links : CompleteShadow(c, i)
          \/ RecordShadow(c, "shadow_created") \/ RecordShadow(c, "shadow_completed")
          \/ \E i \in DOMAIN mutations, p \in Release : StartPromotion(c, i, p)
          \/ RegisterPromoted(c) \/ MarkPromoted(c)
          \/ End(c)
    \/ \E p \in registered, payload \in Payload, k \in CardKey : CreateCard(p, payload, k)
    \/ \E l \in DOMAIN leases : Expire(l)
    \/ ProposeMutation
    \/ \E i \in DOMAIN mutations, accepted \in BOOLEAN : ValidateMutation(i, accepted)
    \/ Restart

Spec == Init /\ [][Next]_vars

-----------------------------------------------------------------------------
(* Properties.                                                              *)

\* What each variable holds; leases, links and keys name cards that exist.
TypeOK ==
    /\ registered \subseteq ValidPanels
    /\ DOMAIN history = DOMAIN cards
    /\ \A i \in DOMAIN cards :
          cards[i].panel \in registered /\ cards[i].bucket \in DOMAIN Def(cards[i].panel).buckets
    /\ \A l \in DOMAIN leases : leases[l].card \in DOMAIN cards
    /\ \A i \in DOMAIN links : {links[i].production, links[i].shadow} \subseteq DOMAIN cards
    /\ \A i \in DOMAIN mutations :
          mutations[i].status \in {"shadowing", "validated", "rejected", "promoted", "lost"}
    /\ \A k \in DOMAIN keys : keys[k].card \in DOMAIN cards
    /\ \A c \in Client : call[c].card \in DOMAIN cards \union {0}

\* The card was made for a delivery; a shadow only copies its metadata.
Delivered(card) == cards[card].payload.dedup # NoKey /\ ~cards[card].shadow

SameDelivery(i, j) ==
    /\ Def(cards[i].panel).id = Def(cards[j].panel).id
    /\ cards[i].payload.source = cards[j].payload.source
    /\ cards[i].payload.dedup = cards[j].payload.dedup

OnlyOne(card, type) ==
    \A x, y \in DOMAIN history[card] :
        history[card][x].type = type /\ history[card][y].type = type => x = y

\* However often an external system delivers an event, also while an earlier
\* delivery is under way or after one that was cut short or into another
\* version of the panel: one card, one execution of the source, one reception.
DeliveredOnce ==
    /\ \A i, j \in DOMAIN cards : Delivered(i) /\ Delivered(j) /\ SameDelivery(i, j) => i = j
    /\ \A i \in DOMAIN cards : Delivered(i) =>
          OnlyOne(i, "source_executed") /\ OnlyOne(i, "boundary_source_received")

\* However often a sink is asked to send a card out, and whatever the external
\* system answers each time: the card has one execution and one egress of it.
EgressedOnce ==
    \A card \in DOMAIN cards : \A x, y \in DOMAIN history[card] :
        /\ history[card][x].type \in {"sink_executed", "boundary_sink_egressed"}
        /\ history[card][x].type = history[card][y].type
        /\ history[card][x].actor = history[card][y].actor
        => x = y

\* A repeated execute_worker goes on where the first left off: once its key
\* has a submission, the requests with that key hold the card submitted, and
\* none of them keeps another card from the other workers.
RetriesContinue ==
    \A c \in Client, card \in DOMAIN cards :
        /\ At(c, "submit") \/ At(c, "check")
        /\ call[c].key # NoKey
        /\ \E e \in Events(card) : e.type = "artifact_submitted"
                                  /\ e.key = Suffixed(call[c].key, "submit")
        => call[c].card = card

Before(card, first, second) ==
    \A y \in DOMAIN history[card] : history[card][y].type = second =>
        \E x \in 1..(y - 1) : history[card][x].type = first

\* The evidence is in order although several requests of one delivery write
\* it: an adapter's event follows the node's event it reports, and a
\* submission follows the claim.
EvidenceInOrder ==
    \A card \in DOMAIN cards :
        /\ Before(card, "source_executed", "boundary_source_received")
        /\ Before(card, "sink_executed", "boundary_sink_egressed")
        /\ Before(card, "card_claimed", "artifact_submitted")

\* Shadow work triggers no production egress: every linked shadow is marked,
\* and no sink ever runs on a marked card.
ShadowsHaveNoEgress ==
    /\ \A i \in DOMAIN links : cards[links[i].shadow].shadow
    /\ \A card \in DOMAIN cards : cards[card].shadow =>
          \A e \in Events(card) : e.type \notin {"sink_executed", "boundary_sink_egressed"}

\* A promoted mutation is in force: a panel of its version is registered.
PromotedIsRegistered ==
    \A i \in DOMAIN mutations : mutations[i].status = "promoted" =>
        \E p \in registered : SameVersion(p, mutations[i].panel)
=============================================================================
