---------------------------- MODULE NodeExecutor ----------------------------
(***************************************************************************)
(* NodeExecutor: Source, Validator and Sink execution over the runtime.     *)
(* An execution makes several calls, each a transaction of its own, so it   *)
(* is a sequence of steps; between two of them other requests run, and it   *)
(* may end there (an error, a crash, a dropped connection), after which     *)
(* the client may try again.  call[c].todo is what client c's request has   *)
(* still to do.  The routes ask for authority first; that is modelled in    *)
(* Onboarding, and here authorization_enabled is off, as it is by default.  *)
(***************************************************************************)
EXTENDS CardCalls

CONSTANTS
    Client,    \* the requests that may be under way at once
    Key,       \* idempotency keys of clients, as sequences; NoKey may be one
    Payload,   \* card payloads
    External   \* external references a client may pass to a sink, None included

VARIABLE call  \* client -> [todo, node, card, key, ref, data]

\* ref is what the record of the execution will name, data the request's
\* other local variables.
MkCall(todo, node, card, k, data) ==
    [todo |-> todo, node |-> node, card |-> card, key |-> k, ref |-> None, data |-> data]

Idle == MkCall(<< >>, None, 0, NoKey, None)

IsIdle(c) == call[c].todo = << >>

\* Client c's next step is `step`.
At(c, step) == ~IsIdle(c) /\ Head(call[c].todo) = step

\* Client c has done its step and goes on with these steps, this reference
\* and these data; with nothing to do it has answered its request.
Proceed(c, todo, ref, data) ==
    call' = [call EXCEPT ![c] = IF todo = << >> THEN Idle
                                ELSE [@ EXCEPT !.todo = todo, !.ref = ref, !.data = data]]

Continue(c, todo) == Proceed(c, todo, call[c].ref, call[c].data)

Rest(c) == Tail(call[c].todo)

\* The request ends where it is.
Abort(c) ==
    /\ ~IsIdle(c)
    /\ call' = [call EXCEPT ![c] = Idle]

-----------------------------------------------------------------------------
(* Sources.                                                                 *)

\* execute_source: create the card, then record the execution.
execute_source(c, p, n, payload, k, todo) ==
    /\ IsIdle(c)
    /\ p \in registered
    /\ n \in Node(Def(p)) /\ n.type = "source"
    /\ \E card \in 1..MaxCards :
          /\ create_card(Def(p).id, payload, FALSE, k, card)
          /\ call' = [call EXCEPT ![c] = MkCall(todo, n.id, card, k, None)]

SourceRecorded(c) ==
    /\ At(c, "source_executed")
    /\ record_event(call[c].card, MkEvent("source_executed", call[c].node, None, None, None,
                                          Suffixed(call[c].key, "source")))
    /\ Continue(c, Rest(c))

-----------------------------------------------------------------------------
(* Validators.                                                              *)

\* What the handlers find out about the payload.  A handler acts only when
\* the request decides nothing itself.
HandlerAccepts(n, payload) ==
    CASE n.config.validation_handler = "patch_panel_topology" -> payload \in ValidPanels
      [] n.config.validation_handler = "participant_onboarding_compliance" -> payload.compliant

validation_request(n, card, d) ==
    IF n.config.validation_handler = None \/ d.accepted # None \/ d.exit # None THEN d
    ELSE IF HandlerAccepts(n, cards[card].payload)
         THEN [accepted |-> TRUE, exit |-> n.config.valid_exit]
         ELSE [accepted |-> FALSE, exit |-> n.config.invalid_exit]

requires_selected_exit(n) == n.validator_kind = "routing" \/ Len(n.output_pipes) > 1

ensure_validator_exit(p, n, exit) ==
    /\ exit \in Elements(n.output_pipes)
    /\ exit \in DOMAIN p.pipe_bindings
    /\ p.pipe_bindings[exit].node = n.id
    /\ p.pipe_bindings[exit].direction = "output"

\* _validator_accepted raises nothing, and what it answers.
Decided(n, d) == d.accepted # None \/ (d.exit # None /\ n.accept_exits # None)

validator_accepted(n, d) == IF d.accepted # None THEN d.accepted ELSE d.exit \in n.accept_exits

\* execute_validator: everything before the call only reads what never
\* changes (the panel of the executor, the payload of the card).
execute_validator(p, n, card, d, k) ==
    /\ p \in registered
    /\ n \in Node(Def(p)) /\ n.type = "validator"
    /\ LET r == validation_request(n, card, d) IN
       /\ requires_selected_exit(n) => r.exit # None
       /\ r.exit # None => ensure_validator_exit(Def(p), n, r.exit)
       /\ Decided(n, r)
       /\ validate_card(card, n.id, validator_accepted(n, r), r.exit, k)

-----------------------------------------------------------------------------
(* Sinks.                                                                   *)

\* Mutant: shadow cards are not told apart.
any_card_egress(n, card) == TRUE

shadow_egress_allowed(n, card) == ~cards[card].shadow \/ n.config.allow_shadow_egress

input_buckets(p, n) ==
    { p.pipe_bindings[pipe].bucket : pipe \in Elements(n.input_pipes) \intersect DOMAIN p.pipe_bindings }

ensure_card_at_sink(p, n, card) ==
    input_buckets(p, n) # {} => cards[card].bucket \in input_buckets(p, n)

\* execute_sink up to its first write; `todo` is what the sink then does.
execute_sink(c, p, n, card, external, k, todo) ==
    /\ IsIdle(c)
    /\ p \in registered
    /\ n \in Node(Def(p)) /\ n.type = "sink"
    /\ shadow_egress_allowed(n, card)
    /\ ensure_card_at_sink(Def(p), n, card)
    /\ call' = [call EXCEPT ![c] = [MkCall(todo, n.id, card, k, None) EXCEPT !.ref = external]]
    /\ UNCHANGED runtimeVars

\* external_reference or <what the sink itself refers to>
Reference(c, own) == IF call[c].ref = None THEN own ELSE call[c].ref

\* The record of the execution, with the reference of what it did.
SinkRecorded(c) ==
    /\ At(c, "sink_executed")
    /\ record_event(call[c].card, MkEvent("sink_executed", call[c].node, None, None,
                                          call[c].ref, call[c].key))
    /\ Continue(c, Rest(c))

\* any(...) over the history: validator v once accepted the card through exit.
Approved(card, v, exit) ==
    \E e \in Events(card) : /\ e.type = "card_validated"
                            /\ e.actor = v
                            /\ e.accepted = TRUE
                            /\ e.pipe = exit
=============================================================================
