---------------------------- MODULE CardRuntime ----------------------------
(***************************************************************************)
(* The Card runtime as runtime/memory.py implements it: Patch Panels,       *)
(* Cards, leases, the evidence trail, stored artifacts and the idempotency  *)
(* records, with one action for every operation of the CardRuntime          *)
(* protocol.  Every operation runs to completion before the next one; an    *)
(* operation that raises leaves the state as it was, so it is no step.      *)
(*                                                                         *)
(* Cards and leases are numbered in creation order, which is the iteration  *)
(* order of the dicts that hold them.  The clock is a variable: `now` only  *)
(* grows, and several operations may read the same instant.                 *)
(***************************************************************************)
EXTENDS PatchPanel, Integers

CONSTANTS
    Panels,        \* the panels a client may try to register
    Bucket,        \* every bucket id the panels mention
    NodeId,        \* every node id
    Pipe,          \* every pipe name a client may use
    RefLists,      \* the artifact reference lists a worker may submit
    ArtifactId,    \* the ids in those lists
    LeaseSeconds,  \* requested lease durations; the API accepts any integer
    Key,           \* idempotency keys; None is the call without one
    MaxCards, MaxLeases, MaxEvents, MaxTime  \* bounds

VARIABLES
    panels,        \* _patch_panels: registered id -> panel
    cards,         \* _cards: sequence of [workflow_version, bucket]
    leases,        \* _leases: sequence of [card, node, pipe, expires, released]
    events,        \* _events: card -> its history
    artifacts,     \* _artifacts: id -> [card, event]
    idempotency,   \* _idempotency: key -> the value it answers
    now,           \* datetime.now(UTC)
    answers        \* history variable: every answer given to a keyed request

vars == <<panels, cards, leases, events, artifacts, idempotency, now, answers>>

-----------------------------------------------------------------------------
PanelId == { p.id : p \in Panels }
WorkflowVersion == { workflow_version(p) : p \in Panels }

ASSUME PanelsAssumption ==
    \A p \in Panels :
        /\ Len(p.nodes) \in Nat
        /\ DOMAIN p.nodes = 1..Len(p.nodes)
        /\ node_ids(p) \subseteq NodeId
        /\ DOMAIN p.buckets \subseteq Bucket
        /\ \A pipe \in DOMAIN p.pipe_bindings :
              /\ p.pipe_bindings[pipe].bucket \in Bucket
              /\ p.pipe_bindings[pipe].node \in NodeId \union {None}
ASSUME NoneAssumption == None \notin Bucket \union NodeId \union Pipe \union Key
ASSUME RefsAssumption ==
    \A refs \in RefLists : { r.id : r \in Elements(refs) } \subseteq ArtifactId
ASSUME SecondsAssumption == LeaseSeconds \subseteq Int
ASSUME BoundsAssumption == {MaxCards, MaxLeases, MaxEvents, MaxTime} \subseteq Nat

Card == [workflow_version : WorkflowVersion, bucket : Bucket]
Lease == [card : Nat, node : NodeId, pipe : Pipe, expires : Int, released : BOOLEAN]

EventType == {"card_created", "card_claimed", "artifact_submitted", "lease_renewed",
              "lease_released", "lease_expired", "card_validated", "card_moved", "recorded"}

\* What the properties tell apart of a CardEvent: its type, the lease its
\* payload names (0 for none), and the buckets it names (None for none).
Event == [type : EventType, lease : Nat, from : Bucket \union {None}, to : Bucket \union {None}]

EndEvent == {"artifact_submitted", "lease_released", "lease_expired"}

\* What an operation returns, as _typed tells results apart.
CardResult(c) == [type |-> "Card", card |-> c, value |-> cards'[c]]
LeaseResult(l) == [type |-> "Lease", lease |-> l, value |-> leases'[l]]
EventResult(c) == [type |-> "CardEvent", of |-> c, event |-> Len(events'[c])]
ArtifactsResult(c) == [type |-> "artifacts", of |-> c, event |-> Len(events'[c])]

Result == [type : {"Card"}, card : Nat, value : Card]
          \union [type : {"Lease"}, lease : Nat, value : Lease]
          \union [type : {"CardEvent", "artifacts"}, of : Nat, event : Nat]

ResultType == [create_card |-> "Card", move_card |-> "Card",
               claim_card |-> "Lease", renew_lease |-> "Lease", release_lease |-> "Lease",
               validate_card |-> "CardEvent", record_event |-> "CardEvent",
               submit_artifact |-> "artifacts"]

Operation == DOMAIN ResultType

-----------------------------------------------------------------------------
(* Helpers.                                                                 *)

ActiveLease(l) == ~leases[l].released /\ leases[l].expires > now

\* ensure_active_lease, with two mutants that drop one of its tests each.
ensure_unreleased(l) == ~leases[l].released

ensure_unexpired(l) == leases[l].expires > now

ensure_active_lease(l) ==
    /\ ~leases[l].released
    /\ ~(leases[l].expires <= now)

\* lease.model_copy(update={"released_at": ...}); the mutant forgets it.
keep_lease(l) == UNCHANGED leases

end_lease(l) == leases' = [leases EXCEPT ![l].released = TRUE]

LeasesOf(c) == { l \in DOMAIN leases : leases[l].card = c }

\* Mutant: only a release ends a lease, the expiry is not compared with now.
has_unreleased_lease(c) == \E l \in LeasesOf(c) : ~leases[l].released

has_active_lease(c) == \E l \in LeasesOf(c) : ActiveLease(l)

panel_for_card(c) == panels[rsplit_panel_id(cards[c].workflow_version)]

PanelRegistered(c) == rsplit_panel_id(cards[c].workflow_version) \in DOMAIN panels

MkEvent(type, lease, from, to) == [type |-> type, lease |-> lease, from |-> from, to |-> to]

CanRecord(c) == Len(events[c]) < MaxEvents

record(c, e) == events' = [events EXCEPT ![c] = Append(@, e)]

\* _get_idempotent found nothing for the key of this call.
Fresh(k) == k = None \/ k \notin DOMAIN idempotency

\* _store_idempotent, with two mutants: one stores nothing, the other stores
\* the answer of an unkeyed call too.
store_nothing(k, result) == UNCHANGED idempotency

store_any_key(k, result) ==
    idempotency' = [key \in DOMAIN idempotency \union {k} |->
                      IF key = k THEN result ELSE idempotency[key]]

store_idempotent(k, result) ==
    idempotency' = IF k = None THEN idempotency
                   ELSE [key \in DOMAIN idempotency \union {k} |->
                           IF key = k THEN result ELSE idempotency[key]]

\* The end of every operation: its result is stored under the key, if there
\* is one, and answered.  `on` is what the request is about.
Answer(k, op, on, result) ==
    /\ store_idempotent(k, result)
    /\ answers' = IF k = None THEN answers
                  ELSE answers \union {[key |-> k, op |-> op, on |-> on, result |-> result]}

\* Mutant: the cards of every version of every panel count.
ClaimableAnyVersion(p, bucket) ==
    { c \in DOMAIN cards : cards[c].bucket = bucket /\ ~has_active_lease(c) }

\* The claimable cards of a panel in a bucket, oldest first by number.
Claimable(p, bucket) ==
    { c \in DOMAIN cards : /\ cards[c].workflow_version = workflow_version(p)
                           /\ cards[c].bucket = bucket
                           /\ ~has_active_lease(c) }

\* _claim_target: the registered panels that bind the pipe as an input and,
\* of those, the ones with a card to claim.
Matches(pipe) == { id \in DOMAIN panels : IsBound(panels[id], pipe, "input") }

WithCards(pipe) ==
    { id \in Matches(pipe) : Claimable(panels[id], pipe_bucket(panels[id], pipe)) # {} }

\* It answers a card only when exactly one panel has one: with none the
\* operation raises NotFoundError, with several ConflictError, and a match
\* whose pipe no node declares raises NotFoundError whatever the others hold.
claim_target(pipe, id) ==
    /\ WithCards(pipe) = {id}
    /\ \A m \in Matches(pipe) : HasNode(panels[m], pipe, "input")

-----------------------------------------------------------------------------
Init ==
    /\ panels = << >>
    /\ cards = << >>
    /\ leases = << >>
    /\ events = << >>
    /\ artifacts = << >>
    /\ idempotency = << >>
    /\ now = 0
    /\ answers = {}

\* validate_patch_panel raises for the others.
ValidPanels == { p \in Panels : validate(p) }

register_patch_panel(p) ==
    /\ p \in ValidPanels
    /\ panels' = [id \in DOMAIN panels \union {p.id} |-> IF id = p.id THEN p ELSE panels[id]]
    /\ UNCHANGED <<cards, leases, events, artifacts, idempotency, now, answers>>

create_card(id, k) ==
    /\ Fresh(k)
    /\ Len(cards) < MaxCards
    /\ id \in DOMAIN panels
    /\ HasInitialBucket(panels[id])
    /\ LET bucket == resolve_initial_bucket(panels[id]) IN
       /\ cards' = Append(cards, [workflow_version |-> workflow_version(panels[id]),
                                  bucket |-> bucket])
       /\ events' = Append(events, <<MkEvent("card_created", 0, None, bucket)>>)
    /\ Answer(k, "create_card", <<"panel", id>>, CardResult(Len(cards')))
    /\ UNCHANGED <<panels, leases, artifacts, now>>

claim_card(pipe, seconds, k) ==
    /\ Fresh(k)
    /\ Len(leases) < MaxLeases
    /\ \E id \in DOMAIN panels :
       /\ claim_target(pipe, id)
       /\ LET c == Least(Claimable(panels[id], pipe_bucket(panels[id], pipe))) IN
          /\ CanRecord(c)
          /\ leases' = Append(leases, [card |-> c,
                                       node |-> pipe_node(panels[id], pipe, "input"),
                                       pipe |-> pipe,
                                       expires |-> now + seconds,
                                       released |-> FALSE])
          /\ record(c, MkEvent("card_claimed", Len(leases'), None, None))
    /\ Answer(k, "claim_card", <<"pipe", pipe>>, LeaseResult(Len(leases')))
    /\ UNCHANGED <<panels, cards, artifacts, now>>

submit_artifact(l, pipe, refs, k) ==
    LET c == leases[l].card
        p == panel_for_card(c)
    IN /\ Fresh(k)
       /\ ensure_active_lease(l)
       /\ PanelRegistered(c)
       /\ Resolvable(p, pipe, "output")
       /\ ensure_artifact_refs_belong_to_card(c, refs)
       /\ ensure_artifacts_accepted(p, pipe_bucket(p, pipe), refs)
       /\ pipe_node(p, pipe, "output") = leases[l].node
       /\ CanRecord(c)
       /\ cards' = [cards EXCEPT ![c].bucket = pipe_bucket(p, pipe)]
       /\ end_lease(l)
       /\ record(c, MkEvent("artifact_submitted", l, None, pipe_bucket(p, pipe)))
       /\ LET ids == { r.id : r \in Elements(refs) } IN
          artifacts' = [a \in DOMAIN artifacts \union ids |->
                          IF a \in ids THEN [card |-> c, event |-> Len(events[c]) + 1]
                          ELSE artifacts[a]]
       /\ Answer(k, "submit_artifact", <<"lease", l>>, ArtifactsResult(c))
       /\ UNCHANGED <<panels, now>>

renew_lease(l, seconds, k) ==
    LET c == leases[l].card IN
    /\ Fresh(k)
    /\ ensure_active_lease(l)
    /\ CanRecord(c)
    /\ leases' = [leases EXCEPT ![l].expires = now + seconds]
    /\ record(c, MkEvent("lease_renewed", l, None, None))
    /\ Answer(k, "renew_lease", <<"lease", l>>, LeaseResult(l))
    /\ UNCHANGED <<panels, cards, artifacts, now>>

\* An expired lease may still be released: there is no expiry check.
release_lease(l, k) ==
    LET c == leases[l].card IN
    /\ Fresh(k)
    /\ ~leases[l].released
    /\ CanRecord(c)
    /\ end_lease(l)
    /\ record(c, MkEvent("lease_released", l, None, None))
    /\ Answer(k, "release_lease", <<"lease", l>>, LeaseResult(l))
    /\ UNCHANGED <<panels, cards, artifacts, now>>

\* Releasing a lease that has ended answers it and stores no key.
release_ended_lease(l, k) ==
    /\ Fresh(k)
    /\ k # None
    /\ leases[l].released
    /\ answers' = answers \union {[key |-> k, op |-> "release_lease", on |-> <<"lease", l>>,
                                   result |-> [type |-> "Lease", lease |-> l,
                                               value |-> leases[l]]]}
    /\ UNCHANGED <<panels, cards, leases, events, artifacts, idempotency, now>>

\* The leases one sweep of expire_leases ends, and the events it adds to the
\* history of a card: one per lease, in the order of the leases.
Overdue == { l \in DOMAIN leases : ~leases[l].released /\ leases[l].expires <= now }

Rank(l, S) == Cardinality({ m \in S : m <= l })

Nth(i, S) == CHOOSE l \in S : Rank(l, S) = i

ExpiryEvents(c) ==
    LET due == { l \in Overdue : leases[l].card = c }
    IN [i \in 1..Cardinality(due) |-> MkEvent("lease_expired", Nth(i, due), None, None)]

expire_leases ==
    /\ Overdue # {}
    /\ \A c \in DOMAIN cards : Len(events[c] \o ExpiryEvents(c)) <= MaxEvents
    /\ leases' = [l \in DOMAIN leases |->
                    [leases[l] EXCEPT !.released = @ \/ l \in Overdue]]
    /\ events' = [c \in DOMAIN cards |-> events[c] \o ExpiryEvents(c)]
    /\ UNCHANGED <<panels, cards, artifacts, idempotency, now, answers>>

\* The event of a validation; the mutant omits where it sent the card.
validated_nowhere(bucket) == MkEvent("card_validated", 0, None, None)

validated(bucket) == MkEvent("card_validated", 0, None, bucket)

\* Neither the lease nor the bucket of the card is looked at.
validate_card(c, pipe, k) ==
    /\ Fresh(k)
    /\ CanRecord(c)
    /\ \/ /\ pipe = None
          /\ record(c, validated(None))
          /\ UNCHANGED cards
       \/ /\ pipe # None
          /\ PanelRegistered(c)
          /\ LET p == panel_for_card(c) IN
             /\ Resolvable(p, pipe, "output")
             /\ cards' = [cards EXCEPT ![c].bucket = pipe_bucket(p, pipe)]
             /\ record(c, validated(pipe_bucket(p, pipe)))
    /\ Answer(k, "validate_card", <<"card", c>>, EventResult(c))
    /\ UNCHANGED <<panels, leases, artifacts, now>>

move_card(c, bucket, k) ==
    /\ Fresh(k)
    /\ PanelRegistered(c)
    /\ bucket \in DOMAIN panel_for_card(c).buckets
    /\ CanRecord(c)
    /\ cards' = [cards EXCEPT ![c].bucket = bucket]
    /\ record(c, MkEvent("card_moved", 0, cards[c].bucket, bucket))
    /\ Answer(k, "move_card", <<"card", c>>, CardResult(c))
    /\ UNCHANGED <<panels, leases, artifacts, now>>

record_event(c, k) ==
    /\ Fresh(k)
    /\ CanRecord(c)
    /\ record(c, MkEvent("recorded", 0, None, None))
    /\ Answer(k, "record_event", <<"card", c>>, EventResult(c))
    /\ UNCHANGED <<panels, cards, leases, artifacts, now>>

\* A keyed request whose key is known: the stored value is answered if it has
\* the type the operation returns (_typed), whatever the request was about.
Replay(k, op, on) ==
    /\ k \in DOMAIN idempotency
    /\ idempotency[k].type = ResultType[op]
    /\ answers' = answers \union {[key |-> k, op |-> op, on |-> on, result |-> idempotency[k]]}
    /\ UNCHANGED <<panels, cards, leases, events, artifacts, idempotency, now>>

\* The subjects of the requests that can be made.
Subject(op) ==
    CASE op = "create_card" -> { <<"panel", id>> : id \in PanelId }
      [] op = "claim_card" -> { <<"pipe", pipe>> : pipe \in Pipe }
      [] op \in {"submit_artifact", "renew_lease", "release_lease"} ->
            { <<"lease", l>> : l \in DOMAIN leases }
      [] op \in {"validate_card", "move_card", "record_event"} ->
            { <<"card", c>> : c \in DOMAIN cards }

Tick ==
    /\ now < MaxTime
    /\ now' = now + 1
    /\ UNCHANGED <<panels, cards, leases, events, artifacts, idempotency, answers>>

OnPanel ==
    \/ \E p \in Panels : register_patch_panel(p)
    \/ \E id \in PanelId, k \in Key \union {None} : create_card(id, k)

OnLease ==
    \/ \E pipe \in Pipe, s \in LeaseSeconds, k \in Key \union {None} : claim_card(pipe, s, k)
    \/ \E l \in DOMAIN leases, pipe \in Pipe, refs \in RefLists, k \in Key \union {None} :
          submit_artifact(l, pipe, refs, k)
    \/ \E l \in DOMAIN leases, s \in LeaseSeconds, k \in Key \union {None} : renew_lease(l, s, k)
    \/ \E l \in DOMAIN leases, k \in Key \union {None} : release_lease(l, k)
    \/ \E l \in DOMAIN leases, k \in Key : release_ended_lease(l, k)
    \/ expire_leases

OnCard ==
    \/ \E c \in DOMAIN cards, pipe \in Pipe \union {None}, k \in Key \union {None} :
          validate_card(c, pipe, k)
    \/ \E c \in DOMAIN cards, b \in Bucket, k \in Key \union {None} : move_card(c, b, k)
    \/ \E c \in DOMAIN cards, k \in Key \union {None} : record_event(c, k)

Replays == \E k \in Key, op \in Operation : \E on \in Subject(op) : Replay(k, op, on)

Next == OnPanel \/ OnLease \/ OnCard \/ Replays \/ Tick

Spec == Init /\ [][Next]_vars
-----------------------------------------------------------------------------
(* Properties.                                                              *)

\* Type correctness of the runtime's dicts, with the references between them:
\* every lease names an existing card, every card has a history, every stored
\* artifact belongs to a card.
PanelsOK ==
    /\ DOMAIN panels \subseteq PanelId
    /\ \A id \in DOMAIN panels : panels[id] \in Panels

CardsOK ==
    /\ cards \in Seq(Card)
    /\ events \in Seq(Seq(Event))
    /\ Len(events) = Len(cards)

LeasesOK ==
    /\ leases \in Seq(Lease)
    /\ \A l \in DOMAIN leases : leases[l].card \in DOMAIN cards

ArtifactsOK ==
    /\ DOMAIN artifacts \subseteq ArtifactId
    /\ \A a \in DOMAIN artifacts : artifacts[a].card \in DOMAIN cards

AnswersOK ==
    /\ DOMAIN idempotency \subseteq Key
    /\ \A k \in DOMAIN idempotency : idempotency[k] \in Result
    /\ \A a \in answers : a.key \in Key /\ a.op \in Operation /\ a.result \in Result

TypeOK == PanelsOK /\ CardsOK /\ LeasesOK /\ ArtifactsOK /\ AnswersOK /\ now \in Nat

\* At no instant do two leases of one card both count as active, whatever
\* mixture of claims, renewals, expiries, moves and re-registrations led
\* there: claim_card looks for an active lease before it adds one, and
\* renew_lease extends only a lease that is still active.
ExclusiveLease ==
    \A l, m \in DOMAIN leases :
        ActiveLease(l) /\ ActiveLease(m) /\ leases[l].card = leases[m].card => l = m

\* The last bucket a history names is where the card is, and each card_moved
\* event departs from the bucket named before it: every operation that writes
\* current_bucket also records where it put the card, so the location can be
\* replayed from the evidence trail.
Located(c) == { i \in DOMAIN events[c] : events[c][i].to # None }

LocationIsReplayable ==
    \A c \in DOMAIN cards :
        /\ \E i \in Located(c) : /\ \A j \in Located(c) : j <= i
                                 /\ events[c][i].to = cards[c].bucket
        /\ \A i, j \in Located(c) :
              /\ events[c][j].type = "card_moved"
              /\ i < j
              /\ \A m \in Located(c) : m <= i \/ j <= m
              => events[c][j].from = events[c][i].to

\* A history tells the whole life of each lease on its card: one claim, one
\* end (submission, release or expiry) exactly when the lease is released,
\* and renewals only in between.  A second submission, a renewal after the
\* end or an expiry of a submitted lease would break it.
Says(l, types) ==
    { i \in DOMAIN events[leases[l].card] :
        /\ events[leases[l].card][i].lease = l
        /\ events[leases[l].card][i].type \in types }

LeaseEvidence ==
    \A l \in DOMAIN leases :
        \E i \in Says(l, {"card_claimed"}) :
            /\ Says(l, {"card_claimed"}) = {i}
            /\ \A j \in Says(l, {"lease_renewed"} \union EndEvent) : i < j
            /\ IF leases[l].released
               THEN \E e \in Says(l, EndEvent) :
                       /\ Says(l, EndEvent) = {e}
                       /\ \A j \in Says(l, {"lease_renewed"}) : j < e
               ELSE Says(l, EndEvent) = {}

\* A stored artifact points at an artifact_submitted event in the history of
\* the card that the submitted reference names as its own.
ArtifactEvidence ==
    \A a \in DOMAIN artifacts :
        /\ artifacts[a].event \in DOMAIN events[artifacts[a].card]
        /\ events[artifacts[a].card][artifacts[a].event].type = "artifact_submitted"
        /\ \E refs \in RefLists : \E r \in Elements(refs) :
              r.id = a /\ r.card_id = artifacts[a].card

\* A client that keeps a key for one request gets the same answer each time
\* it repeats that request, however the card or the lease has changed since:
\* no repetition takes effect twice.
RepeatedRequestsAgree ==
    \A a, b \in answers :
        /\ a.key = b.key
        /\ \A other \in answers : other.key = a.key => other.op = a.op /\ other.on = a.on
        => a.result = b.result

\* A lease that has ended never changes again: it is not renewed, revived or
\* ended a second time.
EndedLeaseIsFinal ==
    [][\A l \in DOMAIN leases : leases[l].released => leases'[l] = leases[l]]_vars

\* The operations on leases are the ones LeaseService allows: a claim grants a
\* lease on a card nobody holds, a renewal extends one that still counts, and
\* submission, release and expiry end leases once.
LeaseView == [l \in DOMAIN leases |-> [card |-> leases[l].card,
                                       expires |-> leases[l].expires,
                                       released |-> leases[l].released]]

Expiry == { t + s : t \in 0..MaxTime, s \in LeaseSeconds }

Service == INSTANCE LeaseService WITH
    Card <- 1..MaxCards, Expiry <- Expiry, leases <- LeaseView, now <- now

ImplementsLeaseService == Service!Spec

\* A worker is only ever handed a card that the card's own panel version had
\* brought to the worker's input: when it was claimed, the card was in the
\* bucket which that version binds to the claimed pipe, under that pipe's node.
ClaimedFromOwnInput ==
    \A l \in DOMAIN leases : \E p \in Panels :
        LET c == leases[l].card IN
        /\ workflow_version(p) = cards[c].workflow_version
        /\ Resolvable(p, leases[l].pipe, "input")
        /\ leases[l].node = pipe_node(p, leases[l].pipe, "input")
        /\ \E i \in Located(c), j \in Says(l, {"card_claimed"}) :
              /\ i < j
              /\ \A m \in Located(c) : m <= i \/ j < m
              /\ events[c][i].to = pipe_bucket(p, leases[l].pipe)

\* A card whose lease has ended or run out, and that nobody has moved since
\* the claim, can be claimed again from the same pipe, whether or not
\* expire_leases has swept the lease.
ReclaimableAfterLease ==
    \A l \in DOMAIN leases :
        LET c == leases[l].card IN
        /\ \A m \in DOMAIN leases : leases[m].card = c => ~ActiveLease(m)
        /\ \A i \in Located(c), j \in Says(l, {"card_claimed"}) : i < j
        => \E id \in DOMAIN panels :
              /\ claim_target(leases[l].pipe, id)
              /\ c \in Claimable(panels[id], pipe_bucket(panels[id], leases[l].pipe))

\* What README.md says of a Patch Panel: it governs all movement of its
\* cards, so a card is always in a bucket of the panel version it was
\* created under.
BucketOfOwnVersion ==
    \A c \in DOMAIN cards : \E p \in Panels :
        /\ workflow_version(p) = cards[c].workflow_version
        /\ cards[c].bucket \in DOMAIN p.buckets
=============================================================================
