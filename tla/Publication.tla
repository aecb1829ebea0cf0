---------------------------- MODULE Publication ----------------------------
(***************************************************************************)
(* The governed publication of Patch Panels: proposal cards run through     *)
(* system_pp_approval (source, topology check, governance review) and       *)
(* registry_publication_sink registers the candidate with the runtime and   *)
(* indexes it; the bootstrap does the same for the system workflow itself   *)
(* and /registry for panels that need no approval.  Every one of these is   *)
(* a request of several transactions that may end between two of them.      *)
(***************************************************************************)
EXTENDS NodeExecutor, Registry

CONSTANTS
    Decision,     \* what a validator may be told: [accepted, exit], None if not given
    MoveTo,       \* the buckets an operator moves cards to by hand
    Workflow,     \* system_pp_approval
    Reviewer,     \* the names that decisions sent to a card directly come under
    Candidate,    \* the panels clients propose or register
    EntryStatus   \* the statuses a client may give an entry's metadata

vars == <<runtimeVars, entries, call>>

ASSUME NoProposalOfTheWorkflow ==
    \A p \in Candidate \union Payload : Def(p).id # Def(Workflow).id

ASSUME EntryStatusAssumption == EntryStatus \subseteq Status

-----------------------------------------------------------------------------
(* What a request that publishes is about: a proposal card, or (card 0) the *)
(* bootstrap of the workflow itself.                                        *)
Subject(c) == IF call[c].card = 0 THEN Workflow ELSE cards[call[c].card].payload

Origin(c) == IF call[c].card = 0 THEN "bootstrap" ELSE "sink"

\* Mutant: governance approval alone is enough.
ensure_governance_history(card) == Approved(card, "governance_reviewer", "proposal_approved")

ensure_registry_publication_history(card) ==
    /\ Approved(card, "topological_validator", "topology_valid")
    /\ Approved(card, "governance_reviewer", "proposal_approved")

\* SystemWorkflowBootstrapper.bootstrap, for one workflow.
Bootstrap(c) ==
    /\ IsIdle(c)
    /\ call' = [call EXCEPT ![c] = MkCall(<<"register", "search">>, None, 0, NoKey, None)]
    /\ UNCHANGED <<runtimeVars, entries>>

ProposalSource(c, payload, k) ==
    /\ \E n \in Node(Def(Workflow)) : execute_source(c, Workflow, n, payload, k, <<"source_executed">>)
    /\ UNCHANGED entries

RecordSource(c) == SourceRecorded(c) /\ UNCHANGED entries

\* POST /nodes/validator/execute.
Validate(card, d, k) ==
    /\ \E n \in Node(Def(Workflow)) : execute_validator(Workflow, n, card, d, k)
    /\ UNCHANGED <<entries, call>>

\* POST /cards/{card_id}/validate: the decision and the validator's name are
\* taken as they come.
ValidateCard(card, v, d, k) ==
    /\ d.accepted # None
    /\ validate_card(card, v, d.accepted, d.exit, k)
    /\ UNCHANGED <<entries, call>>

Move(card, bucket) == move_card(card, bucket) /\ UNCHANGED <<entries, call>>

PublicationSink(c, card, external, k) ==
    /\ \E n \in Node(Def(Workflow)) :
          execute_sink(c, Workflow, n, card, external, k,
                       <<"history", "register", "search", "sink_executed">>)
    /\ UNCHANGED entries

\* _ensure_registry_publication_history; a call it refuses can only Abort.
CheckHistory(c) ==
    /\ At(c, "history")
    /\ ensure_registry_publication_history(call[c].card)
    /\ Continue(c, Rest(c))
    /\ UNCHANGED <<runtimeVars, entries>>

\* self.runtime.register_patch_panel(candidate), and a mutant without it.
SkipRegistration(c) ==
    /\ At(c, "register")
    /\ Continue(c, Rest(c))
    /\ UNCHANGED <<runtimeVars, entries>>

Register(c) ==
    /\ At(c, "register")
    /\ register_patch_panel(Subject(c))
    /\ Continue(c, Rest(c))
    /\ UNCHANGED entries

\* next((entry for entry in self.registry.search(...) if ...), None); the
\* rows come in no stated order.
Search(c) ==
    /\ At(c, "search")
    /\ \/ /\ SearchVersion(Subject(c)) = {}
          /\ Continue(c, <<"publish">> \o Rest(c))
       \/ \E found \in SearchVersion(Subject(c)) :
             Proceed(c, Rest(c), Reference(c, found), None)
    /\ UNCHANGED <<runtimeVars, entries>>

Publish(c) ==
    /\ At(c, "publish")
    /\ registry_register(MkEntry(Subject(c), "published", Origin(c), call[c].card))
    /\ Proceed(c, Rest(c), Reference(c, Len(entries')), None)
    /\ UNCHANGED runtimeVars

RecordSink(c) == SinkRecorded(c) /\ UNCHANGED entries

-----------------------------------------------------------------------------
(* The /registry routes.                                                    *)

\* POST /registry/patchpanels: runtime first, then the entry.
RegisterEntry(c, p, status) ==
    /\ IsIdle(c)
    /\ register_patch_panel(p)
    /\ call' = [call EXCEPT ![c] = MkCall(<<"index">>, None, 0, NoKey,
                                          MkEntry(p, status, "api", 0))]
    /\ UNCHANGED entries

Index(c) ==
    /\ At(c, "index")
    /\ registry_register(call[c].data)
    /\ Continue(c, Rest(c))
    /\ UNCHANGED runtimeVars

\* PATCH /registry/patchpanels/{entry_id}
EditEntry(c, i, status) ==
    /\ IsIdle(c)
    /\ Editable(i)
    /\ call' = [call EXCEPT ![c] = MkCall(<<"write">>, None, 0, NoKey,
                                          [entry |-> i,
                                           row |-> [entries[i] EXCEPT !.status = status]])]
    /\ UNCHANGED <<runtimeVars, entries>>

WriteEntry(c) ==
    /\ At(c, "write")
    /\ write_entry(call[c].data.entry, call[c].data.row)
    /\ Continue(c, Rest(c))
    /\ UNCHANGED runtimeVars

Archive(i) == registry_archive(i) /\ UNCHANGED <<runtimeVars, call>>

Supersede(i) == registry_supersede(i) /\ UNCHANGED <<runtimeVars, call>>

End(c) == Abort(c) /\ UNCHANGED <<runtimeVars, entries>>

-----------------------------------------------------------------------------
Init ==
    /\ registered = {}
    /\ cards = << >>
    /\ history = << >>
    /\ keys = << >>
    /\ entries = << >>
    /\ call = [c \in Client |-> Idle]

Next ==
    \/ \E c \in Client :
          \/ Bootstrap(c)
          \/ \E payload \in Payload, k \in Key : ProposalSource(c, payload, k)
          \/ RecordSource(c)
          \/ \E card \in DOMAIN cards, external \in External, k \in Key :
                PublicationSink(c, card, external, k)
          \/ CheckHistory(c) \/ Register(c) \/ Search(c) \/ Publish(c) \/ RecordSink(c)
          \/ \E p \in Candidate, status \in EntryStatus : RegisterEntry(c, p, status)
          \/ Index(c)
          \/ \E i \in DOMAIN entries, status \in EntryStatus : EditEntry(c, i, status)
          \/ WriteEntry(c)
          \/ End(c)
    \/ \E card \in DOMAIN cards :
          \/ \E d \in Decision, k \in Key : Validate(card, d, k)
          \/ \E d \in Decision, v \in Reviewer, k \in Key : ValidateCard(card, v, d, k)
          \/ \E bucket \in MoveTo : Move(card, bucket)
    \/ \E i \in DOMAIN entries : Archive(i) \/ Supersede(i)

Spec == Init /\ [][Next]_vars

-----------------------------------------------------------------------------
(* Properties.                                                              *)

Step == {"source_executed", "history", "register", "search", "publish", "sink_executed",
         "index", "write"}

\* What each variable holds; a request under way names a card or an entry
\* that exists.
TypeOK ==
    /\ registered \subseteq Candidate \union Payload \union {Workflow}
    /\ \A i \in DOMAIN cards :
          /\ cards[i].panel = Workflow
          /\ cards[i].payload \in Payload
          /\ cards[i].bucket \in DOMAIN Def(Workflow).buckets
    /\ DOMAIN history = DOMAIN cards
    /\ \A k \in DOMAIN keys : keys[k].card \in DOMAIN cards
    /\ \A i \in DOMAIN entries : entries[i].status \in Status
    /\ \A c \in Client : Elements(call[c].todo) \subseteq Step

\* Whatever is in the index can be run: the version of every entry, however
\* it came to be there and whatever request was cut short, is one that
\* passed the topology validator and is registered with the runtime.
IndexedIsRegistered ==
    \A i \in DOMAIN entries :
        \E p \in registered : SameVersion(p, entries[i].panel) /\ p \in ValidPanels

\* A sink publishes only the candidate of a card whose history holds both
\* the accepted topology validation and the governance approval.
PublishedWithApproval ==
    \A i \in DOMAIN entries : entries[i].origin = "sink" =>
        LET card == entries[i].card IN
        /\ cards[card].payload = entries[i].panel
        /\ Approved(card, "topological_validator", "topology_valid")
        /\ Approved(card, "governance_reviewer", "proposal_approved")

\* Retries, repeated sink executions and repeated bootstraps index a version
\* once, also after its entry was archived or superseded.
OneEntryPerVersion ==
    \A i, j \in DOMAIN entries :
        /\ i # j
        /\ "api" \notin {entries[i].origin, entries[j].origin}
        => ~SameVersion(entries[i].panel, entries[j].panel)

\* The evidence of a publication is true: the entry that a sink_executed
\* event of a card names, unless the client gave a reference of its own, is
\* there and is of the version the card proposed.
SinkEvidenceNamesEntry ==
    \A card \in DOMAIN cards : \A e \in Events(card) :
        e.type = "sink_executed" /\ e.ref \notin External =>
            /\ e.ref \in DOMAIN entries
            /\ SameVersion(entries[e.ref].panel, cards[card].payload)
=============================================================================
