-------------------------- MODULE PostgresRuntime --------------------------
(***************************************************************************)
(* The durable Card runtime (runtime/postgres.py): every operation is a     *)
(* transaction of several SQL statements, and the statements of concurrent  *)
(* sessions interleave under READ COMMITTED, Postgres's default.            *)
(*                                                                         *)
(* A transaction is a list of statements still to run (Program).  Its       *)
(* writes stay in its own record `tx` and reach the tables with commit; an  *)
(* exception, a crash or a lost connection drops them.  What the sessions   *)
(* see of each other before that are locks:                                 *)
(*                                                                         *)
(*   claim      SELECT ... FOR UPDATE on a card row, excludes every other;  *)
(*   route      UPDATE of a card row, excludes claim and route;             *)
(*   share      the key share a row that refers to a card takes on it,      *)
(*              excludes claim;                                             *)
(*   exits      UPDATE of card_locations rows;                              *)
(*   rows       UPDATE of leases rows;                                      *)
(*                                                                         *)
(* and unique keys: an insert waits for an uncommitted row of the same key. *)
(* A statement sees the rows committed when it starts; a row it has to wait *)
(* for is looked at again, and only that row.  Statement and wait are       *)
(* therefore two actions where that matters: select_card / lock_card and    *)
(* select_locations / exit_locations.  Postgres itself is external.         *)
(***************************************************************************)
EXTENDS PatchPanel, Integers

CONSTANTS
    Panels,        \* the panels a client may register
    Bucket,        \* the buckets a client may move cards to
    Pipe,          \* the pipes a client may name
    RefLists,      \* artifact reference lists; RefIds gives their ids
    LeaseSeconds,  \* requested lease durations
    Key,           \* idempotency keys
    Session,       \* concurrent database sessions
    MaxRequests, MaxTime  \* bounds

VARIABLES
    panels,        \* rows of patch_panels and workflow_versions
    cards,         \* sequence of [workflow_version, bucket]
    locations,     \* card_locations: sequence of [card, bucket, active]
    leases,        \* sequence of [card, node, expires, released]
    events,        \* card_events: set of [n (occurred_at), card, type, lease, from, to]
    artifacts,     \* ids of the rows of artifacts
    idempotency,   \* idempotency_records: key -> the commit that stored it
    tx,            \* the transaction of each session
    serial,        \* how many transactions have committed
    requests,      \* how many were begun
    now            \* datetime.now(UTC)

ASSUME BoundsAssumption == MaxRequests \in Nat /\ MaxTime \in Nat

ASSUME KeyAssumption == None \notin Key

tables == <<panels, cards, locations, leases, events, artifacts, idempotency, serial>>
vars == <<tables, tx, requests, now>>

-----------------------------------------------------------------------------
(* Transactions.                                                            *)

NoTx == [op |-> None, todo |-> << >>, key |-> None, card |-> 0, lease |-> 0, pipe |-> None,
         refs |-> << >>, seconds |-> 0, version |-> None, node |-> None,
         from |-> None, to |-> None, seen |-> {}, expires |-> 0, stamp |-> 0,
         claim |-> {}, route |-> {}, share |-> {}, exits |-> {}, rows |-> {}]

\* Mutant: claim_card stores its key before it takes the card.
key_before_lock == <<"select_card", "store_idempotency", "lock_card", "commit">>

claim_statements == <<"select_card", "lock_card", "store_idempotency", "commit">>

\* _move_card_row.
move_card_row == <<"select_locations", "exit_locations", "place_card">>

Program ==
    [create_card |-> <<"store_idempotency", "commit">>,
     claim_card |-> claim_statements,
     submit_artifact |-> <<"read_lease">> \o move_card_row
                         \o <<"update_lease", "store_idempotency", "commit">>,
     renew_lease |-> <<"read_lease", "update_lease", "store_idempotency", "commit">>,
     release_lease |-> <<"read_lease", "update_lease", "store_idempotency", "commit">>,
     expire_leases |-> <<"select_overdue", "update_overdue", "commit">>,
     move_card |-> <<"read_card">> \o move_card_row \o <<"store_idempotency", "commit">>,
     validate_card |-> <<"read_card", "refer_to_card", "store_idempotency", "commit">>,
     validate_and_move |-> <<"read_card", "refer_to_card">> \o move_card_row
                           \o <<"store_idempotency", "commit">>,
     record_event |-> <<"read_card", "refer_to_card", "store_idempotency", "commit">>]

Idle(s) == tx[s] = NoTx

at(s, statement) == tx[s].todo # << >> /\ Head(tx[s].todo) = statement

\* The statement has run and left the transaction t.
ran(s, t) ==
    /\ tx' = [tx EXCEPT ![s] = [t EXCEPT !.todo = Tail(@)]]
    /\ UNCHANGED <<tables, requests, now>>

\* occurred_at of an event made now: later than those of all events made so far,
\* committed or not.
occurred_at ==
    LET made == { e.n : e \in events } \union { tx[r].stamp : r \in Session }
    IN  1 + CHOOSE m \in made : \A n \in made : n <= m

\* A statement that writes; the event of the transaction is made after it.
wrote(s, t) == ran(s, [t EXCEPT !.stamp = occurred_at])

\* An exception or an early return: nothing of the transaction remains.
rollback(s) ==
    /\ tx' = [tx EXCEPT ![s] = NoTx]
    /\ UNCHANGED <<tables, requests, now>>

Others(s) == Session \ {s}

ActiveLease(l) == ~leases[l].released /\ leases[l].expires > now

ActiveLocations(c) == { i \in DOMAIN locations : locations[i].card = c /\ locations[i].active }

RefIds(refs) == { r.id : r \in Elements(refs) }

\* _get_patch_panel_for_card: the version string is split at its first colon.
PanelsOf(c) ==
    { p \in panels : /\ p.id = <<Head(cards[c].workflow_version)>>
                     /\ p.version = Tail(cards[c].workflow_version) }

-----------------------------------------------------------------------------
Init ==
    /\ panels = {}
    /\ cards = << >>
    /\ locations = << >>
    /\ leases = << >>
    /\ events = {}
    /\ artifacts = {}
    /\ idempotency = << >>
    /\ tx = [s \in Session |-> NoTx]
    /\ serial = 0
    /\ requests = 0
    /\ now = 0

\* A panel or version that is there already is left as it is.
register_patch_panel(p) ==
    /\ validate(p)
    /\ panels' = IF \E q \in panels : q.id = p.id /\ q.version = p.version
                 THEN panels ELSE panels \union {p}
    /\ UNCHANGED <<cards, locations, leases, events, artifacts, idempotency, tx, serial,
                   requests, now>>

\* The beginning of every operation: its key has no record.  (A key that has
\* one answers what it refers to, and changes nothing.)
begin(s, op, k, t) ==
    /\ Idle(s)
    /\ requests < MaxRequests
    /\ k \notin DOMAIN idempotency
    /\ tx' = [tx EXCEPT ![s] = [t EXCEPT !.op = op, !.key = k, !.todo = Program[op]]]
    /\ requests' = requests + 1
    /\ UNCHANGED <<tables, now>>

\* Any version of the panel may be the first row: all are active.
create_card(s, k) ==
    \E p \in panels :
        /\ HasInitialBucket(p)
        /\ begin(s, "create_card", k, [NoTx EXCEPT !.stamp = occurred_at,
                                                   !.version = workflow_version(p),
                                                   !.to = resolve_initial_bucket(p)])

\* _single_patch_panel raises unless there is one panel, in one version.
single_patch_panel(p) == panels = {p}

claim_card(s, pipe, seconds, k) ==
    \E p \in panels :
        /\ single_patch_panel(p)
        /\ Resolvable(p, pipe, "input")
        /\ begin(s, "claim_card", k, [NoTx EXCEPT !.from = pipe_bucket(p, pipe),
                                                  !.node = pipe_node(p, pipe, "input"),
                                                  !.seconds = seconds])

submit_artifact(s, l, pipe, refs, k) ==
    begin(s, "submit_artifact", k,
          [NoTx EXCEPT !.lease = l, !.card = leases[l].card, !.pipe = pipe, !.refs = refs])

renew_lease(s, l, seconds, k) ==
    begin(s, "renew_lease", k,
          [NoTx EXCEPT !.lease = l, !.card = leases[l].card, !.seconds = seconds])

release_lease(s, l, k) ==
    begin(s, "release_lease", k, [NoTx EXCEPT !.lease = l, !.card = leases[l].card])

\* The clock is read before the transaction.
expire_leases(s) == begin(s, "expire_leases", None, [NoTx EXCEPT !.expires = now])

move_card(s, c, bucket, k) ==
    begin(s, "move_card", k, [NoTx EXCEPT !.card = c, !.to = bucket])

validate_card(s, c, pipe, k) ==
    begin(s, IF pipe = None THEN "validate_card" ELSE "validate_and_move", k,
          [NoTx EXCEPT !.card = c, !.pipe = pipe])

record_event(s, c, k) == begin(s, "record_event", k, [NoTx EXCEPT !.card = c])

-----------------------------------------------------------------------------
(* Statements that read.                                                    *)

\* _get_lease and the checks that follow it; a release of an ended lease
\* returns here.
MayContinue(s) ==
    LET t == tx[s] IN
    CASE t.op = "release_lease" -> ~leases[t.lease].released
      [] t.op = "renew_lease" -> ActiveLease(t.lease)
      [] t.op = "submit_artifact" ->
            /\ ActiveLease(t.lease)
            /\ \E p \in PanelsOf(t.card) :
                  /\ Resolvable(p, t.pipe, "output")
                  /\ ensure_artifact_refs_belong_to_card(t.card, t.refs)
                  /\ ensure_artifacts_accepted(p, pipe_bucket(p, t.pipe), t.refs)
                  /\ pipe_node(p, t.pipe, "output") = leases[t.lease].node

Destination(s) ==
    IF tx[s].pipe = None THEN tx[s].to
    ELSE pipe_bucket(CHOOSE p \in PanelsOf(tx[s].card) : TRUE, tx[s].pipe)

read_lease(s) ==
    /\ at(s, "read_lease")
    /\ IF MayContinue(s)
       THEN ran(s, [tx[s] EXCEPT !.to = Destination(s), !.expires = now + tx[s].seconds])
       ELSE rollback(s)

\* _get_card and the checks on the destination.
MayMove(s) ==
    LET t == tx[s] IN
    CASE t.op = "move_card" -> \E p \in PanelsOf(t.card) : t.to \in DOMAIN p.buckets
      [] t.op = "validate_and_move" -> \E p \in PanelsOf(t.card) : Resolvable(p, t.pipe, "output")
      [] OTHER -> TRUE

read_card(s) ==
    /\ at(s, "read_card")
    /\ IF MayMove(s)
       THEN ran(s, [tx[s] EXCEPT !.from = cards[tx[s].card].bucket, !.to = Destination(s)])
       ELSE rollback(s)

\* The rows the SELECT of claim_card starts from ...
select_card(s) ==
    /\ at(s, "select_card")
    /\ ran(s, [tx[s] EXCEPT !.seen =
                 { c \in DOMAIN cards :
                     /\ cards[c].bucket = tx[s].from
                     /\ ~\E l \in DOMAIN leases : leases[l].card = c /\ ActiveLease(l) }])

\* ... and FOR UPDATE: one of them that is still in the bucket is locked, there
\* is no ORDER BY.  One that is not stays locked, too.  The leases are not looked
\* at again.  Nothing left raises NotFoundError.
lock_card(s) ==
    /\ at(s, "lock_card")
    /\ IF tx[s].seen = {} THEN rollback(s)
       ELSE \E c \in tx[s].seen :
            /\ \A r \in Others(s) : c \notin tx[r].claim \union tx[r].route \union tx[r].share
            /\ IF cards[c].bucket = tx[s].from
               THEN wrote(s, [tx[s] EXCEPT !.card = c, !.claim = @ \union {c}, !.seen = {},
                                         !.expires = now + tx[s].seconds])
               ELSE /\ tx' = [tx EXCEPT ![s] =
                                    [tx[s] EXCEPT !.seen = @ \ {c}, !.claim = @ \union {c}]]
                    /\ UNCHANGED <<tables, requests, now>>

select_overdue(s) ==
    /\ at(s, "select_overdue")
    /\ ran(s, [tx[s] EXCEPT !.seen =
                 { l \in DOMAIN leases :
                     ~leases[l].released /\ leases[l].expires <= tx[s].expires }])

\* UPDATE card_locations: the active rows when the statement starts ...
select_locations(s) ==
    /\ at(s, "select_locations")
    /\ ran(s, [tx[s] EXCEPT !.seen = ActiveLocations(tx[s].card)])

-----------------------------------------------------------------------------
(* Statements that write.                                                   *)

\* ... of which the ones still active are exited, once nobody else has them.
exit_locations(s) ==
    /\ at(s, "exit_locations")
    /\ \A r \in Others(s) : tx[r].exits \intersect tx[s].seen = {}
    /\ ran(s, [tx[s] EXCEPT !.exits = tx[s].seen \intersect ActiveLocations(tx[s].card),
                            !.seen = {}])

\* Mutant: the row of the card is not locked.
place_unlocked(s) == at(s, "place_card") /\ wrote(s, [tx[s] EXCEPT !.route = {tx[s].card}])

\* INSERT of the new location and UPDATE of the card.
place_card(s) ==
    /\ at(s, "place_card")
    /\ \A r \in Others(s) : tx[s].card \notin tx[r].claim \union tx[r].route
    /\ wrote(s, [tx[s] EXCEPT !.route = {tx[s].card}])

\* INSERT of a row that refers to the card: an event or a validation result.
refer_to_card(s) ==
    /\ at(s, "refer_to_card")
    /\ \A r \in Others(s) : tx[s].card \notin tx[r].claim
    /\ wrote(s, [tx[s] EXCEPT !.share = {tx[s].card}])

\* UPDATE of a lease row, by id alone, and INSERT of the event about it.
FreeLease(s, l) ==
    \A r \in Others(s) : l \notin tx[r].rows /\ leases[l].card \notin tx[r].claim

update_lease(s) ==
    /\ at(s, "update_lease")
    /\ FreeLease(s, tx[s].lease)
    /\ wrote(s, [tx[s] EXCEPT !.rows = {tx[s].lease}, !.share = {tx[s].card}])

\* The loop of expire_leases, one lease at a time in the order of the table.
update_overdue(s) ==
    /\ at(s, "update_overdue")
    /\ IF tx[s].seen = {} THEN ran(s, tx[s])
       ELSE LET l == Least(tx[s].seen) IN
            /\ FreeLease(s, l)
            /\ tx' = [tx EXCEPT ![s] =
                         [tx[s] EXCEPT !.seen = @ \ {l}, !.rows = @ \union {l},
                                       !.share = @ \union {leases[l].card},
                                       !.stamp = occurred_at]]
            /\ UNCHANGED <<tables, requests, now>>

\* The rows with unique keys: artifacts and the idempotency record.
UniqueKeys(s) == RefIds(tx[s].refs) \union ({tx[s].key} \ {None})

\* Mutant: a key that is taken is overwritten.
store_over(s) == at(s, "store_idempotency") /\ ran(s, tx[s])

store_idempotency(s) ==
    /\ at(s, "store_idempotency")
    /\ \A r \in Others(s) :
          \/ "store_idempotency" \in Elements(tx[r].todo)
          \/ UniqueKeys(r) \intersect UniqueKeys(s) = {}
    /\ IF UniqueKeys(s) \intersect (artifacts \union DOMAIN idempotency) = {}
       THEN ran(s, tx[s])
       ELSE rollback(s)

-----------------------------------------------------------------------------
(* Commit: what the writes of the transaction make of the tables.           *)

cards_after(s) ==
    CASE tx[s].op = "create_card" ->
            Append(cards, [workflow_version |-> tx[s].version, bucket |-> tx[s].to])
      [] tx[s].route # {} -> [cards EXCEPT ![tx[s].card].bucket = tx[s].to]
      [] OTHER -> cards

\* Mutant: the rows that go with a new card refer to none.
no_subject(s) == tx[s].card

Subject(s) == IF tx[s].op = "create_card" THEN Len(cards) + 1 ELSE tx[s].card

exited(s) ==
    [i \in DOMAIN locations |-> [locations[i] EXCEPT !.active = @ /\ i \notin tx[s].exits]]

\* Mutant: a move exits the old locations and enters no new one.
exited_only(s) ==
    IF tx[s].op = "create_card"
    THEN Append(locations, [card |-> Subject(s), bucket |-> tx[s].to, active |-> TRUE])
    ELSE exited(s)

locations_after(s) ==
    IF tx[s].op = "create_card" \/ tx[s].route # {}
    THEN Append(exited(s), [card |-> Subject(s), bucket |-> tx[s].to, active |-> TRUE])
    ELSE locations

leases_after(s) ==
    CASE tx[s].op = "claim_card" ->
            Append(leases, [card |-> tx[s].card, node |-> tx[s].node,
                            expires |-> tx[s].expires, released |-> FALSE])
      [] tx[s].op = "renew_lease" ->
            [leases EXCEPT ![tx[s].lease].expires = tx[s].expires]
      [] OTHER ->
            [l \in DOMAIN leases |-> [leases[l] EXCEPT !.released = @ \/ l \in tx[s].rows]]

MkEvent(s, type, lease, from, to) ==
    [n |-> tx[s].stamp, card |-> IF lease \in tx[s].rows THEN leases[lease].card ELSE Subject(s),
     type |-> type, lease |-> lease, from |-> from, to |-> to]

new_events(s) ==
    LET t == tx[s] IN
    CASE t.op = "create_card" -> {MkEvent(s, "card_created", 0, None, t.to)}
      [] t.op = "claim_card" -> {MkEvent(s, "card_claimed", Len(leases) + 1, None, None)}
      [] t.op = "submit_artifact" -> {MkEvent(s, "artifact_submitted", t.lease, None, t.to)}
      [] t.op = "renew_lease" -> {MkEvent(s, "lease_renewed", t.lease, None, None)}
      [] t.op = "release_lease" -> {MkEvent(s, "lease_released", t.lease, None, None)}
      [] t.op = "expire_leases" -> { MkEvent(s, "lease_expired", l, None, None) : l \in t.rows }
      [] t.op = "move_card" -> {MkEvent(s, "card_moved", 0, t.from, t.to)}
      [] t.op = "validate_card" -> {MkEvent(s, "card_validated", 0, None, None)}
      [] t.op = "validate_and_move" -> {MkEvent(s, "card_moved", 0, t.from, t.to),
                                        MkEvent(s, "card_validated", 0, None, t.to)}
      [] t.op = "record_event" -> {MkEvent(s, "recorded", 0, None, None)}

commit(s) ==
    /\ at(s, "commit")
    /\ cards' = cards_after(s)
    /\ locations' = locations_after(s)
    /\ leases' = leases_after(s)
    /\ events' = events \union new_events(s)
    /\ artifacts' = artifacts \union RefIds(tx[s].refs)
    /\ idempotency' = [k \in DOMAIN idempotency \union ({tx[s].key} \ {None}) |->
                         IF k = tx[s].key THEN serial + 1 ELSE idempotency[k]]
    /\ serial' = serial + 1
    /\ tx' = [tx EXCEPT ![s] = NoTx]
    /\ UNCHANGED <<panels, requests, now>>

abort(s) == ~Idle(s) /\ rollback(s)

Tick ==
    /\ now < MaxTime
    /\ now' = now + 1
    /\ UNCHANGED <<tables, tx, requests>>

-----------------------------------------------------------------------------
Request(s) ==
    \E k \in Key \union {None} :
        \/ create_card(s, k)
        \/ \E pipe \in Pipe, seconds \in LeaseSeconds : claim_card(s, pipe, seconds, k)
        \/ \E l \in DOMAIN leases :
              \/ \E pipe \in Pipe, refs \in RefLists : submit_artifact(s, l, pipe, refs, k)
              \/ \E seconds \in LeaseSeconds : renew_lease(s, l, seconds, k)
              \/ release_lease(s, l, k)
        \/ \E c \in DOMAIN cards :
              \/ \E bucket \in Bucket : move_card(s, c, bucket, k)
              \/ \E pipe \in Pipe \union {None} : validate_card(s, c, pipe, k)
              \/ record_event(s, c, k)

Statement(s) ==
    \/ read_lease(s) \/ read_card(s) \/ select_card(s) \/ lock_card(s)
    \/ select_overdue(s) \/ update_overdue(s) \/ select_locations(s) \/ exit_locations(s)
    \/ place_card(s) \/ refer_to_card(s) \/ update_lease(s) \/ store_idempotency(s) \/ commit(s)

Next ==
    \/ \E p \in Panels : register_patch_panel(p)
    \/ \E s \in Session : Request(s) \/ expire_leases(s) \/ Statement(s) \/ abort(s)
    \/ Tick

Spec == Init /\ [][Next]_vars

\* A session runs the statements of its transaction unless one has to wait.
Fairness == \A s \in Session : WF_vars(Statement(s))

-----------------------------------------------------------------------------
(* Properties.                                                              *)

\* Types of the tables, with the references the foreign keys keep.
TypeOK ==
    /\ panels \subseteq Panels
    /\ \A c \in DOMAIN cards : \E p \in panels : cards[c].workflow_version = workflow_version(p)
    /\ \A i \in DOMAIN locations : locations[i].card \in DOMAIN cards
    /\ \A l \in DOMAIN leases : leases[l].card \in DOMAIN cards
    /\ \A e \in events : e.card \in DOMAIN cards /\ e.n \in Nat \ {0}
    /\ DOMAIN idempotency \subseteq Key
    /\ requests \in 0..MaxRequests /\ now \in 0..MaxTime

\* No card disappears: whatever moves race, fail half way or are aborted, a
\* card has an active location in the bucket its row names.
NoCardDisappears ==
    \A c \in DOMAIN cards : \E i \in ActiveLocations(c) : locations[i].bucket = cards[c].bucket

\* The last event of card_history that names a bucket names the one the card
\* is in: events are dated before they commit, and it is the row lock of the
\* card that makes the dates of racing moves agree with the moves.
EvidenceEndsAtLocation ==
    \A c \in DOMAIN cards :
        \E e \in events : /\ e.card = c /\ e.to = cards[c].bucket
                          /\ \A f \in events : f.card = c /\ f.to # None => f.n <= e.n

\* A key that was answered keeps its answer: of concurrent requests with one
\* key at most one takes effect.
KeyKeepsItsAnswer ==
    [][\A k \in DOMAIN idempotency :
          k \in DOMAIN idempotency' /\ idempotency'[k] = idempotency[k]]_vars

\* No transactions wait for each other: each of them ends.
EveryTransactionEnds == \A s \in Session : ~Idle(s) ~> Idle(s)

\* What the implementation plan says of leases: one worker at a time.
ExclusiveLease ==
    \A l, m \in DOMAIN leases :
        ActiveLease(l) /\ ActiveLease(m) /\ leases[l].card = leases[m].card => l = m
=============================================================================
