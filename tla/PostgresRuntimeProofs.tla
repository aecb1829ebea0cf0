----------------------- MODULE PostgresRuntimeProofs -----------------------
(***************************************************************************)
(* Proofs about PostgresRuntime for every number of sessions: whatever      *)
(* statements of concurrent transactions interleave, no card disappears,    *)
(* the evidence ends where the card is and a key keeps its answer.          *)
(***************************************************************************)
EXTENDS PostgresRuntime, PatchPanelLemmas

Operation == DOMAIN Program

\* The operations that move a card, and those that name a lease.
Mover == {"submit_artifact", "move_card", "validate_and_move"}
OnLease == {"submit_artifact", "renew_lease", "release_lease"}

Statements ==
    [create_card |-> {"store_idempotency", "commit"},
     claim_card |-> {"select_card", "lock_card", "store_idempotency", "commit"},
     submit_artifact |-> {"read_lease", "select_locations", "exit_locations", "place_card",
                          "update_lease", "store_idempotency", "commit"},
     renew_lease |-> {"read_lease", "update_lease", "store_idempotency", "commit"},
     release_lease |-> {"read_lease", "update_lease", "store_idempotency", "commit"},
     expire_leases |-> {"select_overdue", "update_overdue", "commit"},
     move_card |-> {"read_card", "select_locations", "exit_locations", "place_card",
                    "store_idempotency", "commit"},
     validate_card |-> {"read_card", "refer_to_card", "store_idempotency", "commit"},
     validate_and_move |-> {"read_card", "refer_to_card", "select_locations", "exit_locations",
                            "place_card", "store_idempotency", "commit"},
     record_event |-> {"read_card", "refer_to_card", "store_idempotency", "commit"}]

CommitsLast(todo) == \A i \in DOMAIN todo : todo[i] = "commit" => i = Len(todo)

\* Every program is a nonempty list of the statements of its request and
\* commits, if at all, with its last one.
LEMMA Programs ==
    ASSUME NEW op \in Operation
    PROVE  /\ IsSequence(Program[op])
           /\ Elements(Program[op]) = Statements[op]
           /\ CommitsLast(Program[op])
           /\ Program[op] # << >>
<1>1. CASE op = "create_card"
  BY <1>1 DEF Program, Statements, IsSequence, Elements, CommitsLast
<1>2. CASE op = "claim_card"
  BY <1>2 DEF Program, Statements, IsSequence, Elements, CommitsLast, claim_statements
<1>3. CASE op = "submit_artifact"
  BY <1>3 DEF Program, Statements, IsSequence, Elements, CommitsLast, move_card_row
<1>4. CASE op = "renew_lease"
  BY <1>4 DEF Program, Statements, IsSequence, Elements, CommitsLast
<1>5. CASE op = "release_lease"
  BY <1>5 DEF Program, Statements, IsSequence, Elements, CommitsLast
<1>6. CASE op = "expire_leases"
  BY <1>6 DEF Program, Statements, IsSequence, Elements, CommitsLast
<1>7. CASE op = "move_card"
  BY <1>7 DEF Program, Statements, IsSequence, Elements, CommitsLast, move_card_row
<1>8. CASE op = "validate_card"
  BY <1>8 DEF Program, Statements, IsSequence, Elements, CommitsLast
<1>9. CASE op = "validate_and_move"
  BY <1>9 DEF Program, Statements, IsSequence, Elements, CommitsLast, move_card_row
<1>10. CASE op = "record_event"
  BY <1>10 DEF Program, Statements, IsSequence, Elements, CommitsLast
<1> QED BY <1>1, <1>2, <1>3, <1>4, <1>5, <1>6, <1>7, <1>8, <1>9, <1>10 DEF Operation, Program

\* Which operations run a statement.
LEMMA StatementFacts ==
    ASSUME NEW op \in Operation
    PROVE  /\ "place_card" \in Statements[op] <=> op \in Mover
           /\ "select_locations" \in Statements[op] <=> op \in Mover
           /\ "exit_locations" \in Statements[op] <=> op \in Mover
           /\ "store_idempotency" \in Statements[op] <=> op # "expire_leases"
           /\ "select_card" \in Statements[op] <=> op = "claim_card"
           /\ "lock_card" \in Statements[op] <=> op = "claim_card"
           /\ "read_lease" \in Statements[op] <=> op \in OnLease
           /\ "update_lease" \in Statements[op] <=> op \in OnLease
           /\ "select_overdue" \in Statements[op] <=> op = "expire_leases"
           /\ "update_overdue" \in Statements[op] <=> op = "expire_leases"
           /\ "read_card" \in Statements[op] =>
                 op \in {"move_card", "validate_card", "validate_and_move", "record_event"}
           /\ "refer_to_card" \in Statements[op] <=>
                 op \in {"validate_card", "validate_and_move", "record_event"}
<1> USE DEF Statements, Mover, OnLease
<1>1. CASE op = "create_card"
  BY <1>1
<1>2. CASE op = "claim_card"
  BY <1>2
<1>3. CASE op = "submit_artifact"
  BY <1>3
<1>4. CASE op = "renew_lease"
  BY <1>4
<1>5. CASE op = "release_lease"
  BY <1>5
<1>6. CASE op = "expire_leases"
  BY <1>6
<1>7. CASE op = "move_card"
  BY <1>7
<1>8. CASE op = "validate_card"
  BY <1>8
<1>9. CASE op = "validate_and_move"
  BY <1>9
<1>10. CASE op = "record_event"
  BY <1>10
<1> QED BY <1>1, <1>2, <1>3, <1>4, <1>5, <1>6, <1>7, <1>8, <1>9, <1>10 DEF Operation, Program

-----------------------------------------------------------------------------
(* The inductive invariant.                                                 *)

\* The rows of the tables are records of their columns.
IsTx(t) ==
    t = [op |-> t.op, todo |-> t.todo, key |-> t.key, card |-> t.card, lease |-> t.lease,
         pipe |-> t.pipe, refs |-> t.refs, seconds |-> t.seconds, version |-> t.version,
         node |-> t.node, from |-> t.from, to |-> t.to, seen |-> t.seen,
         expires |-> t.expires, stamp |-> t.stamp, claim |-> t.claim, route |-> t.route,
         share |-> t.share, exits |-> t.exits, rows |-> t.rows]

IsCard(c) == c = [workflow_version |-> c.workflow_version, bucket |-> c.bucket]

IsLocation(x) == x = [card |-> x.card, bucket |-> x.bucket, active |-> x.active]

IsLease(x) == x = [card |-> x.card, node |-> x.node, expires |-> x.expires,
                   released |-> x.released]

CardTable == IsSequence(cards) /\ \A c \in DOMAIN cards : IsCard(cards[c])

LocationTable == IsSequence(locations) /\ \A i \in DOMAIN locations : IsLocation(locations[i])

LeaseTable == IsSequence(leases) /\ \A l \in DOMAIN leases : IsLease(leases[l])

Active(t) == t.todo # << >>

\* What is left of a transaction is the end of its operation's program.
Running(t) ==
    /\ IsSequence(t.todo)
    /\ CommitsLast(t.todo)
    /\ Active(t) => t.op \in Operation /\ Elements(t.todo) \subseteq Statements[t.op]

\* The rows a transaction names exist.
Named(t) ==
    /\ Active(t) /\ t.op \notin {"create_card", "claim_card", "expire_leases"} =>
          t.card \in DOMAIN cards
    /\ Active(t) /\ t.op \in OnLease =>
          t.lease \in DOMAIN leases /\ leases[t.lease].card = t.card
    /\ Active(t) /\ t.op = "create_card" => \E p \in panels : t.version = workflow_version(p)
    /\ Active(t) /\ t.op = "claim_card" =>
          IF "lock_card" \in Elements(t.todo) THEN t.seen \subseteq DOMAIN cards
          ELSE t.card \in DOMAIN cards
    /\ Active(t) /\ t.op = "expire_leases" => t.seen \subseteq DOMAIN leases
    /\ t.rows \subseteq DOMAIN leases

\* Only a move holds the row of a card as its route and exits locations, all
\* of its own card; past place_card it holds the row.
Routed(t) ==
    /\ t.route # {} => t.op \in Mover /\ t.route = {t.card} /\ t.card \in DOMAIN cards
    /\ t.exits # {} => t.op \in Mover
    /\ \A i \in t.exits : i \in DOMAIN locations /\ locations[i].card = t.card
    /\ Active(t) /\ t.op \in Mover /\ "place_card" \notin Elements(t.todo) => t.route = {t.card}

\* A transaction that will record an event has dated it, and past its
\* update_lease it has the row of its lease.
Stamped(t) ==
    /\ t.stamp \in Nat
    /\ Active(t) /\ t.op = "create_card" => t.stamp > 0
    /\ Active(t) /\ t.op = "claim_card" /\ "lock_card" \notin Elements(t.todo) => t.stamp > 0
    /\ Active(t) /\ t.op \in OnLease /\ "update_lease" \notin Elements(t.todo) =>
          t.stamp > 0 /\ t.rows = {t.lease}
    /\ Active(t) /\ t.op \in {"validate_card", "record_event"}
          /\ "refer_to_card" \notin Elements(t.todo) => t.stamp > 0
    /\ t.route # {} => t.stamp > 0
    /\ t.rows # {} => t.stamp > 0

\* The date of a move that holds its card is later than those of all events
\* that say where the card went.
Latest(t) ==
    t.route # {} => \A e \in events : e.card = t.card /\ e.to # None => e.n <= t.stamp

\* Past store_idempotency nobody has committed the key of the transaction.
PastStore(t) == Active(t) /\ "store_idempotency" \notin Elements(t.todo)

Reserved(t) ==
    /\ t.key \in Key \union {None}
    /\ PastStore(t) /\ t.key # None => t.key \notin DOMAIN idempotency

TxOK(t) ==
    IsTx(t) /\ Running(t) /\ Named(t) /\ Routed(t) /\ Stamped(t) /\ Latest(t) /\ Reserved(t)

\* Nobody else holds the same card as its route, or is past
\* store_idempotency with the same key.
Apart(t, u) ==
    /\ t.route \intersect u.route = {}
    /\ PastStore(t) /\ PastStore(u) /\ t.key = u.key => t.key = None

TxsOK ==
    /\ tx = [s \in Session |-> tx[s]]
    /\ \A s \in Session : TxOK(tx[s])
    /\ \A s \in Session : \A r \in Others(s) : Apart(tx[s], tx[r])

\* Dates have an upper bound, so that there is always a later one.
Dated ==
    \E bound \in Nat : /\ \A e \in events : e.n <= bound
                       /\ \A s \in Session : tx[s].stamp <= bound

Tables == CardTable /\ LocationTable /\ LeaseTable

IInv == TypeOK /\ Tables /\ TxsOK /\ Dated /\ NoCardDisappears /\ EvidenceEndsAtLocation

-----------------------------------------------------------------------------
(* Steps of one transaction before its commit.                              *)

\* A session without a transaction is no danger to anybody.
LEMMA NoTxOK == TxOK(NoTx) /\ \A t : Apart(NoTx, t)
<1>1. IsSequence(<< >>) /\ CommitsLast(<< >>)
  BY DEF IsSequence, CommitsLast, Elements
<1>2. IsTx(NoTx) /\ ~Active(NoTx)
  BY DEF IsTx, NoTx, Active
<1>3. /\ NoTx.todo = << >> /\ NoTx.rows = {} /\ NoTx.route = {} /\ NoTx.exits = {}
      /\ NoTx.stamp = 0 /\ NoTx.key = None
  BY DEF NoTx
<1>4. TxOK(NoTx)
  BY <1>1, <1>2, <1>3
     DEF TxOK, Running, Named, Routed, Stamped, Latest, Reserved, PastStore
<1>5. \A t : Apart(NoTx, t)
  BY <1>2, <1>3 DEF Apart, PastStore
<1> QED BY <1>4, <1>5

\* A step that leaves the tables alone and gives session s the transaction u.
LEMMA TxStep ==
    ASSUME IInv, NEW s \in Session, NEW u, UNCHANGED tables,
           tx' = [tx EXCEPT ![s] = u],
           requests' \in 0..MaxRequests, now' \in 0..MaxTime,
           TxOK(u), \A r \in Others(s) : Apart(u, tx[r])
    PROVE  IInv'
<1> USE DEF tables
<1>1. TypeOK'
  BY DEF IInv, TypeOK
<1>2. Tables'
  BY DEF IInv, Tables, CardTable, LocationTable, LeaseTable
<1>3. NoCardDisappears' /\ EvidenceEndsAtLocation'
  BY DEF IInv, NoCardDisappears, EvidenceEndsAtLocation, ActiveLocations
<1>4. tx' = [r \in Session |-> IF r = s THEN u ELSE tx[r]]
  BY DEF IInv, TxsOK
<1>5. \A r \in Session : TxOK(tx[r])'
  <2> SUFFICES ASSUME NEW r \in Session PROVE TxOK(tx[r])'
    OBVIOUS
  <2>1. PICK t : t = tx'[r]
    OBVIOUS
  <2>2. TxOK(t)
    BY <1>4, <2>1 DEF IInv, TxsOK
  <2> QED BY <2>1, <2>2
          DEF TxOK, Running, Named, Routed, Stamped, Latest, Reserved
<1>6. \A r \in Session : \A q \in Others(r) : Apart(tx'[r], tx'[q])
  <2> SUFFICES ASSUME NEW r \in Session, NEW q \in Others(r) PROVE Apart(tx'[r], tx'[q])
    OBVIOUS
  <2>1. CASE r = s
    BY <1>4, <2>1 DEF Others
  <2>2. CASE q = s
    <3>1. Apart(u, tx[r])
      BY <2>2 DEF Others
    <3> QED BY <1>4, <2>2, <3>1 DEF Others, Apart
  <2>3. CASE r # s /\ q # s
    BY <1>4, <2>3 DEF Others, IInv, TxsOK
  <2> QED BY <2>1, <2>2, <2>3
<1>7. TxsOK'
  BY <1>4, <1>5, <1>6 DEF TxsOK, Others
<1>8. Dated'
  <2>1. PICK bound \in Nat : /\ \A e \in events : e.n <= bound
                             /\ \A r \in Session : tx[r].stamp <= bound
    BY DEF IInv, Dated
  <2>2. u.stamp \in Nat /\ \A e \in events : e.n \in Nat
    BY DEF TxOK, Stamped, IInv, TypeOK
  <2>3. \A r \in Session : tx[r].stamp \in Nat
    BY DEF IInv, TxsOK, TxOK, Stamped
  <2> DEFINE b == bound + u.stamp
  <2>4. b \in Nat /\ (\A e \in events' : e.n <= b) /\ \A r \in Session : tx'[r].stamp <= b
    BY <1>4, <2>1, <2>2, <2>3
  <2> QED BY <2>4 DEF Dated
<1> QED BY <1>1, <1>2, <1>3, <1>7, <1>8 DEF IInv

\* A rollback, by an exception, an early return or a lost connection.
LEMMA RollbackStep ==
    ASSUME IInv, NEW s \in Session, rollback(s)
    PROVE  IInv'
<1>1. requests' \in 0..MaxRequests /\ now' \in 0..MaxTime
  BY DEF IInv, TypeOK, rollback
<1> QED BY <1>1, NoTxOK, TxStep DEF rollback

\* The beginning of an operation that names existing rows.
LEMMA BeginStep ==
    ASSUME IInv, NEW s \in Session, NEW op \in Operation, NEW k \in Key \union {None}, NEW t,
           begin(s, op, k, t),
           IsTx(t), t.rows = {}, t.route = {}, t.exits = {}, t.seen = {}, t.stamp \in Nat,
           op = "expire_leases" => k = None,
           op = "create_card" => t.stamp > 0 /\ \E p \in panels : t.version = workflow_version(p),
           op \notin {"create_card", "claim_card", "expire_leases"} => t.card \in DOMAIN cards,
           op \in OnLease => t.lease \in DOMAIN leases /\ leases[t.lease].card = t.card
    PROVE  IInv'
<1>1. PICK u : u = [t EXCEPT !.op = op, !.key = k, !.todo = Program[op]]
  OBVIOUS
<1>2. /\ IsTx(u) /\ u.op = op /\ u.key = k /\ u.todo = Program[op] /\ u.card = t.card
      /\ u.lease = t.lease /\ u.version = t.version /\ u.rows = {} /\ u.route = {}
      /\ u.exits = {} /\ u.seen = {} /\ u.stamp = t.stamp
  BY <1>1 DEF IsTx
<1>3. /\ IsSequence(u.todo) /\ Elements(u.todo) = Statements[op] /\ CommitsLast(u.todo)
      /\ Active(u)
  BY <1>2, Programs DEF Active
<1>4. Running(u)
  BY <1>2, <1>3 DEF Running
<1>5. Named(u)
  BY <1>2, <1>3, StatementFacts DEF Named
<1>6. Routed(u) /\ Latest(u)
  BY <1>2, <1>3, StatementFacts DEF Routed, Latest
<1>7. Stamped(u)
  BY <1>2, <1>3, StatementFacts DEF Stamped
<1>8. PastStore(u) => k = None
  BY <1>2, <1>3, StatementFacts DEF PastStore
<1>9. TxOK(u)
  BY <1>2, <1>4, <1>5, <1>6, <1>7, <1>8 DEF TxOK, Reserved
<1>10. \A r \in Others(s) : Apart(u, tx[r])
  BY <1>2, <1>8 DEF Apart
<1>11. /\ UNCHANGED tables /\ tx' = [tx EXCEPT ![s] = u]
       /\ requests' \in 0..MaxRequests /\ now' \in 0..MaxTime
  BY <1>1, BoundsAssumption DEF begin, IInv, TypeOK
<1> QED BY <1>9, <1>10, <1>11, TxStep

\* A date given now is later than all dates given before.
LEMMA LaterDate ==
    ASSUME IInv, NEW s \in Session
    PROVE  /\ occurred_at \in Nat \ {0}
           /\ \A e \in events : e.n < occurred_at
           /\ \A r \in Session : tx[r].stamp < occurred_at
<1> DEFINE made == { e.n : e \in events } \union { tx[r].stamp : r \in Session }
<1>1. \A e \in events : e.n \in Nat
  BY DEF IInv, TypeOK
<1>2. \A r \in Session : tx[r].stamp \in Nat
  BY DEF IInv, TxsOK, TxOK, Stamped
<1>3. made \in SUBSET Nat /\ made # {}
  BY <1>1, <1>2
<1>4. PICK bound \in Nat : \A m \in made : m <= bound
  BY DEF IInv, Dated
<1>5. \E m \in made : \A n \in made : n <= m
  <2> HIDE DEF made
  <2> QED BY <1>3, <1>4, GreatestOfBounded
<1> DEFINE last == CHOOSE m \in made : \A n \in made : n <= m
<1>6. last \in made /\ \A n \in made : n <= last
  BY <1>5
<1>7. occurred_at = 1 + last
  BY DEF occurred_at
<1>8. (\A e \in events : e.n \in made) /\ \A r \in Session : tx[r].stamp \in made
  OBVIOUS
<1> HIDE DEF last, made
<1> QED BY <1>3, <1>6, <1>7, <1>8

\* The requests begin transactions.
LEMMA RequestStep ==
    ASSUME IInv, NEW s \in Session, Request(s) \/ expire_leases(s)
    PROVE  IInv'
<1> USE DEF Operation, Program, OnLease
<1>1. IsTx(NoTx)
  BY DEF IsTx, NoTx
<1>2. CASE expire_leases(s)
  <2>1. PICK t : t = [NoTx EXCEPT !.expires = now]
    OBVIOUS
  <2>2. /\ IsTx(t) /\ t.rows = {} /\ t.route = {} /\ t.exits = {} /\ t.seen = {}
        /\ t.stamp \in Nat
    BY <2>1 DEF IsTx, NoTx
  <2>3. begin(s, "expire_leases", None, t)
    BY <1>2, <2>1 DEF expire_leases
  <2> QED BY <2>2, <2>3, BeginStep
<1>3. ASSUME NEW k \in Key \union {None}, create_card(s, k) PROVE IInv'
  <2>1. PICK p \in panels :
           begin(s, "create_card", k, [NoTx EXCEPT !.stamp = occurred_at,
                                                   !.version = workflow_version(p),
                                                   !.to = resolve_initial_bucket(p)])
    BY <1>3 DEF create_card
  <2>2. PICK t : t = [NoTx EXCEPT !.stamp = occurred_at, !.version = workflow_version(p),
                                  !.to = resolve_initial_bucket(p)]
    OBVIOUS
  <2>3. /\ IsTx(t) /\ t.rows = {} /\ t.route = {} /\ t.exits = {} /\ t.seen = {}
        /\ t.stamp = occurred_at /\ t.version = workflow_version(p)
    BY <2>2 DEF IsTx, NoTx
  <2>4. t.stamp \in Nat /\ t.stamp > 0
    BY <2>3, LaterDate
  <2>5. begin(s, "create_card", k, t)
    BY <2>1, <2>2
  <2> QED BY <2>3, <2>4, <2>5, BeginStep
<1>4. ASSUME NEW k \in Key \union {None}, NEW pipe, NEW seconds, claim_card(s, pipe, seconds, k)
      PROVE  IInv'
  <2>1. PICK p \in panels :
           begin(s, "claim_card", k, [NoTx EXCEPT !.from = pipe_bucket(p, pipe),
                                                  !.node = pipe_node(p, pipe, "input"),
                                                  !.seconds = seconds])
    BY <1>4 DEF claim_card
  <2>2. PICK t : t = [NoTx EXCEPT !.from = pipe_bucket(p, pipe),
                                  !.node = pipe_node(p, pipe, "input"), !.seconds = seconds]
    OBVIOUS
  <2>3. /\ IsTx(t) /\ t.rows = {} /\ t.route = {} /\ t.exits = {} /\ t.seen = {}
        /\ t.stamp \in Nat
    BY <2>2 DEF IsTx, NoTx
  <2>4. begin(s, "claim_card", k, t)
    BY <2>1, <2>2
  <2> QED BY <2>3, <2>4, BeginStep
<1>5. ASSUME NEW k \in Key \union {None}, NEW l \in DOMAIN leases, NEW pipe, NEW refs,
             submit_artifact(s, l, pipe, refs, k)
      PROVE  IInv'
  <2>1. PICK t : t = [NoTx EXCEPT !.lease = l, !.card = leases[l].card, !.pipe = pipe,
                                  !.refs = refs]
    OBVIOUS
  <2>2. /\ IsTx(t) /\ t.rows = {} /\ t.route = {} /\ t.exits = {} /\ t.seen = {}
        /\ t.stamp \in Nat /\ t.lease = l /\ t.card = leases[l].card
    BY <2>1 DEF IsTx, NoTx
  <2>3. begin(s, "submit_artifact", k, t) /\ leases[l].card \in DOMAIN cards
    BY <1>5, <2>1 DEF submit_artifact, IInv, TypeOK
  <2> QED BY <2>2, <2>3, BeginStep
<1>6. ASSUME NEW k \in Key \union {None}, NEW l \in DOMAIN leases, NEW seconds,
             renew_lease(s, l, seconds, k)
      PROVE  IInv'
  <2>1. PICK t : t = [NoTx EXCEPT !.lease = l, !.card = leases[l].card, !.seconds = seconds]
    OBVIOUS
  <2>2. /\ IsTx(t) /\ t.rows = {} /\ t.route = {} /\ t.exits = {} /\ t.seen = {}
        /\ t.stamp \in Nat /\ t.lease = l /\ t.card = leases[l].card
    BY <2>1 DEF IsTx, NoTx
  <2>3. begin(s, "renew_lease", k, t) /\ leases[l].card \in DOMAIN cards
    BY <1>6, <2>1 DEF renew_lease, IInv, TypeOK
  <2> QED BY <2>2, <2>3, BeginStep
<1>7. ASSUME NEW k \in Key \union {None}, NEW l \in DOMAIN leases, release_lease(s, l, k)
      PROVE  IInv'
  <2>1. PICK t : t = [NoTx EXCEPT !.lease = l, !.card = leases[l].card]
    OBVIOUS
  <2>2. /\ IsTx(t) /\ t.rows = {} /\ t.route = {} /\ t.exits = {} /\ t.seen = {}
        /\ t.stamp \in Nat /\ t.lease = l /\ t.card = leases[l].card
    BY <2>1 DEF IsTx, NoTx
  <2>3. begin(s, "release_lease", k, t) /\ leases[l].card \in DOMAIN cards
    BY <1>7, <2>1 DEF release_lease, IInv, TypeOK
  <2> QED BY <2>2, <2>3, BeginStep
<1>8. ASSUME NEW k \in Key \union {None}, NEW c \in DOMAIN cards, NEW bucket,
             move_card(s, c, bucket, k)
      PROVE  IInv'
  <2>1. PICK t : t = [NoTx EXCEPT !.card = c, !.to = bucket]
    OBVIOUS
  <2>2. /\ IsTx(t) /\ t.rows = {} /\ t.route = {} /\ t.exits = {} /\ t.seen = {}
        /\ t.stamp \in Nat /\ t.card = c
    BY <2>1 DEF IsTx, NoTx
  <2>3. begin(s, "move_card", k, t)
    BY <1>8, <2>1 DEF move_card
  <2> QED BY <2>2, <2>3, BeginStep
<1>9. ASSUME NEW k \in Key \union {None}, NEW c \in DOMAIN cards, NEW pipe,
             validate_card(s, c, pipe, k)
      PROVE  IInv'
  <2>1. PICK t : t = [NoTx EXCEPT !.card = c, !.pipe = pipe]
    OBVIOUS
  <2>2. /\ IsTx(t) /\ t.rows = {} /\ t.route = {} /\ t.exits = {} /\ t.seen = {}
        /\ t.stamp \in Nat /\ t.card = c
    BY <2>1 DEF IsTx, NoTx
  <2>3. begin(s, "validate_card", k, t) \/ begin(s, "validate_and_move", k, t)
    BY <1>9, <2>1 DEF validate_card
  <2> QED BY <2>2, <2>3, BeginStep
<1>10. ASSUME NEW k \in Key \union {None}, NEW c \in DOMAIN cards, record_event(s, c, k)
       PROVE  IInv'
  <2>1. PICK t : t = [NoTx EXCEPT !.card = c]
    OBVIOUS
  <2>2. /\ IsTx(t) /\ t.rows = {} /\ t.route = {} /\ t.exits = {} /\ t.seen = {}
        /\ t.stamp \in Nat /\ t.card = c
    BY <2>1 DEF IsTx, NoTx
  <2>3. begin(s, "record_event", k, t)
    BY <1>10, <2>1 DEF record_event
  <2> QED BY <2>2, <2>3, BeginStep
<1> QED BY <1>2, <1>3, <1>4, <1>5, <1>6, <1>7, <1>8, <1>9, <1>10 DEF Request

\* After a statement has run, the others of its program are left.
LEMMA Advance ==
    ASSUME IInv, NEW s \in Session, NEW o, o = tx[s], NEW statement, at(s, statement), NEW u,
           u.todo = Tail(o.todo), u.op = o.op
    PROVE  /\ TxOK(o)
           /\ Active(o)
           /\ o.op \in Operation
           /\ statement \in Statements[o.op] /\ statement \in Elements(o.todo)
           /\ Elements(u.todo) \subseteq Elements(o.todo)
           /\ \A x \in Elements(o.todo) : x = statement \/ x \in Elements(u.todo)
           /\ Active(u) => Elements(u.todo) \subseteq Statements[o.op]
           /\ Running(u)
<1>1. TxOK(o) /\ Active(o) /\ Head(o.todo) = statement
  BY DEF IInv, TxsOK, at, Active
<1>2. Running(o)
  BY <1>1 DEF TxOK
<1>3. /\ IsSequence(u.todo)
      /\ Elements(o.todo) = {statement} \union Elements(u.todo)
      /\ Len(u.todo) = Len(o.todo) - 1 /\ Len(o.todo) \in Nat
      /\ DOMAIN o.todo = 1..Len(o.todo) /\ DOMAIN u.todo = 1..(Len(o.todo) - 1)
      /\ \A i \in 1..(Len(o.todo) - 1) : u.todo[i] = o.todo[i + 1]
  BY <1>1, <1>2, TailElements DEF Running, Active
<1>4. CommitsLast(u.todo)
  BY <1>2, <1>3 DEF Running, CommitsLast
<1> QED BY <1>1, <1>2, <1>3, <1>4 DEF Running

\* The session's tx after ran(s, t), for a transaction t that is a record.
LEMMA RanStep ==
    ASSUME IInv, NEW s \in Session, NEW t, ran(s, t), NEW u, u = [t EXCEPT !.todo = Tail(@)],
           TxOK(u), \A r \in Others(s) : Apart(u, tx[r])
    PROVE  IInv'
<1>1. requests' \in 0..MaxRequests /\ now' \in 0..MaxTime
  BY DEF IInv, TypeOK, ran
<1> QED BY <1>1, TxStep DEF ran

\* The statements that only read: they leave what others see of the
\* transaction alone.
LEMMA ReadStep ==
    ASSUME IInv, NEW s \in Session, NEW o, o = tx[s], NEW t, ran(s, t),
           NEW statement \in {"read_lease", "read_card", "select_card", "select_overdue",
                              "select_locations", "update_overdue"},
           at(s, statement),
           IsTx(t), t.op = o.op, t.todo = o.todo, t.key = o.key, t.card = o.card,
           t.lease = o.lease, t.version = o.version, t.rows = o.rows, t.route = o.route,
           t.exits = o.exits, t.stamp = o.stamp,
           o.op = "claim_card" => t.seen \subseteq DOMAIN cards,
           o.op = "expire_leases" => t.seen \subseteq DOMAIN leases
    PROVE  IInv'
<1>1. PICK u : u = [t EXCEPT !.todo = Tail(@)]
  OBVIOUS
<1>2. /\ IsTx(u) /\ u.op = o.op /\ u.todo = Tail(o.todo) /\ u.key = o.key /\ u.card = o.card
      /\ u.lease = o.lease /\ u.version = o.version /\ u.rows = o.rows /\ u.route = o.route
      /\ u.exits = o.exits /\ u.stamp = o.stamp /\ u.seen = t.seen
  BY <1>1 DEF IsTx
<1>3. /\ TxOK(o) /\ Active(o) /\ o.op \in Operation /\ statement \in Statements[o.op]
      /\ Elements(u.todo) \subseteq Elements(o.todo)
      /\ \A x \in Elements(o.todo) : x = statement \/ x \in Elements(u.todo)
      /\ Running(u)
  <2>1. u.todo = Tail(o.todo) /\ u.op = o.op
    BY <1>2
  <2> QED BY <2>1, Advance
<1>4. (Active(u) => Active(o)) /\ Elements(u.todo) \subseteq Elements(o.todo)
  BY <1>3
<1>5. Named(u)
  BY <1>2, <1>3, <1>4, StatementFacts DEF TxOK, Named
<1>6. Routed(u) /\ Latest(u)
  BY <1>2, <1>3, <1>4, StatementFacts DEF TxOK, Routed, Latest
<1>7. Stamped(u)
  BY <1>2, <1>3, <1>4, StatementFacts DEF TxOK, Stamped
<1>8. PastStore(u) => PastStore(o)
  BY <1>2, <1>3, <1>4 DEF PastStore
<1>9. TxOK(u)
  BY <1>2, <1>3, <1>5, <1>6, <1>7, <1>8 DEF TxOK, Reserved
<1>10. \A r \in Others(s) : Apart(u, tx[r])
  <2>1. \A r \in Others(s) : Apart(o, tx[r])
    BY DEF IInv, TxsOK
  <2> QED BY <1>2, <1>8, <2>1 DEF Apart
<1> QED BY <1>1, <1>9, <1>10, RanStep

\* The reads of a lease or a card, and the SELECTs.
LEMMA ReadsStep ==
    ASSUME IInv, NEW s \in Session,
           read_lease(s) \/ read_card(s) \/ select_card(s) \/ select_overdue(s)
              \/ select_locations(s)
    PROVE  IInv'
<1>1. PICK o : o = tx[s]
  OBVIOUS
<1>2. IsTx(o) /\ Named(o) /\ Running(o)
  BY <1>1 DEF IInv, TxsOK, TxOK
<1>3. CASE rollback(s)
  BY <1>3, RollbackStep
<1>4. ASSUME at(s, "read_lease"),
             ran(s, [tx[s] EXCEPT !.to = Destination(s), !.expires = now + tx[s].seconds])
      PROVE  IInv'
  <2>1. PICK t : t = [o EXCEPT !.to = Destination(s), !.expires = now + tx[s].seconds]
    OBVIOUS
  <2>2. /\ IsTx(t) /\ t.op = o.op /\ t.todo = o.todo /\ t.key = o.key /\ t.card = o.card
        /\ t.lease = o.lease /\ t.version = o.version /\ t.rows = o.rows /\ t.route = o.route
        /\ t.exits = o.exits /\ t.stamp = o.stamp
    BY <1>2, <2>1 DEF IsTx
  <2>3. ran(s, t) /\ o.op \in OnLease
    <3>1. "read_lease" \in Elements(o.todo) /\ Active(o)
      BY <1>1, <1>2, <1>4, TailElements DEF at, Running, Active
    <3> QED BY <1>1, <1>2, <1>4, <2>1, <3>1, StatementFacts DEF Running
  <2> QED BY <1>1, <1>4, <2>2, <2>3, ReadStep DEF OnLease
<1>5. ASSUME at(s, "read_card"),
             ran(s, [tx[s] EXCEPT !.from = cards[tx[s].card].bucket, !.to = Destination(s)])
      PROVE  IInv'
  <2>1. PICK t : t = [o EXCEPT !.from = cards[tx[s].card].bucket, !.to = Destination(s)]
    OBVIOUS
  <2>2. /\ IsTx(t) /\ t.op = o.op /\ t.todo = o.todo /\ t.key = o.key /\ t.card = o.card
        /\ t.lease = o.lease /\ t.version = o.version /\ t.rows = o.rows /\ t.route = o.route
        /\ t.exits = o.exits /\ t.stamp = o.stamp
    BY <1>2, <2>1 DEF IsTx
  <2>3. /\ ran(s, t)
        /\ o.op \in {"move_card", "validate_card", "validate_and_move", "record_event"}
    <3>1. "read_card" \in Elements(o.todo) /\ Active(o)
      BY <1>1, <1>2, <1>5, TailElements DEF at, Running, Active
    <3> QED BY <1>1, <1>2, <1>5, <2>1, <3>1, StatementFacts DEF Running
  <2> QED BY <1>1, <1>5, <2>2, <2>3, ReadStep
<1>6. ASSUME NEW statement \in {"select_card", "select_overdue", "select_locations"},
             at(s, statement), NEW S, ran(s, [tx[s] EXCEPT !.seen = S]),
             statement = "select_card" => S \subseteq DOMAIN cards,
             statement = "select_overdue" => S \subseteq DOMAIN leases
      PROVE  IInv'
  <2>1. PICK t : t = [o EXCEPT !.seen = S]
    OBVIOUS
  <2>2. /\ IsTx(t) /\ t.op = o.op /\ t.todo = o.todo /\ t.key = o.key /\ t.card = o.card
        /\ t.lease = o.lease /\ t.version = o.version /\ t.rows = o.rows /\ t.route = o.route
        /\ t.exits = o.exits /\ t.stamp = o.stamp /\ t.seen = S
    BY <1>2, <2>1 DEF IsTx
  <2>3. ran(s, t)
    BY <1>1, <1>6, <2>1
  <2>4. /\ o.op = "claim_card" => S \subseteq DOMAIN cards
        /\ o.op = "expire_leases" => S \subseteq DOMAIN leases
    <3>1. statement \in Elements(o.todo) /\ Active(o)
      BY <1>1, <1>2, <1>6, TailElements DEF at, Running, Active
    <3> QED BY <1>2, <1>6, <3>1, StatementFacts DEF Running, Mover
  <2> QED BY <1>1, <1>6, <2>2, <2>3, <2>4, ReadStep
<1>7. CASE select_card(s)
  BY <1>6, <1>7 DEF select_card
<1>8. CASE select_overdue(s)
  BY <1>6, <1>8 DEF select_overdue
<1>9. CASE select_locations(s)
  BY <1>6, <1>9 DEF select_locations
<1> QED BY <1>3, <1>4, <1>5, <1>7, <1>8, <1>9 DEF read_lease, read_card

\* UPDATE card_locations: the rows that are exited are those of the card.
LEMMA ExitStep ==
    ASSUME IInv, NEW s \in Session, exit_locations(s)
    PROVE  IInv'
<1>1. PICK o : o = tx[s]
  OBVIOUS
<1>2. IsTx(o)
  BY <1>1 DEF IInv, TxsOK, TxOK
<1>3. PICK t : t = [o EXCEPT !.exits = tx[s].seen \intersect ActiveLocations(tx[s].card),
                             !.seen = {}]
  OBVIOUS
<1>4. IsTx(t) /\ ran(s, t)
  BY <1>1, <1>2, <1>3 DEF IsTx, exit_locations
<1>5. PICK u : u = [t EXCEPT !.todo = Tail(@)]
  OBVIOUS
<1>6. /\ IsTx(u) /\ u.op = o.op /\ u.todo = Tail(o.todo) /\ u.key = o.key /\ u.card = o.card
      /\ u.lease = o.lease /\ u.version = o.version /\ u.rows = o.rows /\ u.route = o.route
      /\ u.stamp = o.stamp /\ u.exits \subseteq ActiveLocations(o.card)
  BY <1>1, <1>2, <1>3, <1>5 DEF IsTx
<1>7. /\ TxOK(o) /\ Active(o) /\ o.op \in Operation /\ "exit_locations" \in Statements[o.op]
      /\ Elements(u.todo) \subseteq Elements(o.todo)
      /\ \A x \in Elements(o.todo) : x = "exit_locations" \/ x \in Elements(u.todo)
      /\ Running(u)
  <2>1. at(s, "exit_locations")
    BY DEF exit_locations
  <2>2. u.todo = Tail(o.todo) /\ u.op = o.op
    BY <1>6
  <2> QED BY <1>1, <2>1, <2>2, Advance
<1>8. o.op \in Mover
  BY <1>7, StatementFacts
<1>9. Named(u)
  BY <1>6, <1>7, <1>8 DEF TxOK, Named, Mover
<1>10. Routed(u) /\ Latest(u)
  BY <1>6, <1>7, <1>8 DEF TxOK, Routed, Latest, ActiveLocations
<1>11. Stamped(u)
  BY <1>6, <1>7, <1>8 DEF TxOK, Stamped, Mover
<1>12. PastStore(u) => PastStore(o)
  BY <1>6, <1>7 DEF PastStore
<1>13. TxOK(u)
  BY <1>6, <1>7, <1>9, <1>10, <1>11, <1>12 DEF TxOK, Reserved
<1>14. \A r \in Others(s) : Apart(u, tx[r])
  <2>1. \A r \in Others(s) : Apart(o, tx[r])
    BY <1>1 DEF IInv, TxsOK
  <2> QED BY <1>6, <1>12, <2>1 DEF Apart
<1> QED BY <1>4, <1>5, <1>13, <1>14, RanStep

\* UPDATE of the card: only one transaction at a time holds it, and its date is
\* later than those of all moves before.
LEMMA PlaceStep ==
    ASSUME IInv, NEW s \in Session, place_card(s)
    PROVE  IInv'
<1>1. PICK o : o = tx[s]
  OBVIOUS
<1>2. IsTx(o) /\ occurred_at \in Nat \ {0}
  BY <1>1, LaterDate DEF IInv, TxsOK, TxOK
<1>3. PICK t : t = [[o EXCEPT !.route = {tx[s].card}] EXCEPT !.stamp = occurred_at]
  OBVIOUS
<1>4. IsTx(t) /\ ran(s, t)
  BY <1>1, <1>2, <1>3 DEF IsTx, place_card, wrote
<1>5. PICK u : u = [t EXCEPT !.todo = Tail(@)]
  OBVIOUS
<1>6. /\ IsTx(u) /\ u.op = o.op /\ u.todo = Tail(o.todo) /\ u.key = o.key /\ u.lease = o.lease
      /\ u.version = o.version /\ u.exits = o.exits /\ u.stamp = occurred_at
      /\ u.card = o.card /\ u.seen = o.seen /\ u.rows = o.rows
      /\ u.route = {o.card}
  BY <1>1, <1>2, <1>3, <1>5 DEF IsTx
<1>7. /\ TxOK(o) /\ Active(o) /\ o.op \in Operation /\ "place_card" \in Statements[o.op]
      /\ Elements(u.todo) \subseteq Elements(o.todo)
      /\ \A x \in Elements(o.todo) : x = "place_card" \/ x \in Elements(u.todo)
      /\ Running(u)
  <2>1. at(s, "place_card")
    BY DEF place_card
  <2>2. u.todo = Tail(o.todo) /\ u.op = o.op
    BY <1>6
  <2> QED BY <1>1, <2>1, <2>2, Advance
<1>8. o.op \in Mover
  BY <1>7, StatementFacts
<1>9. Named(u)
  BY <1>6, <1>7, <1>8 DEF TxOK, Named, Mover
<1>10. Routed(u) /\ Latest(u)
  <2>1. o.card \in DOMAIN cards
    BY <1>7, <1>8 DEF TxOK, Named, Mover
  <2>2. \A e \in events : e.n \in Nat /\ e.n < occurred_at
    BY LaterDate DEF IInv, TypeOK
  <2> QED BY <1>2, <1>6, <1>7, <1>8, <2>1, <2>2 DEF TxOK, Routed, Latest
<1>11. Stamped(u)
  BY <1>2, <1>6, <1>7, <1>8 DEF TxOK, Stamped, Mover, OnLease
<1>12. PastStore(u) => PastStore(o)
  BY <1>6, <1>7 DEF PastStore
<1>13. TxOK(u)
  BY <1>6, <1>7, <1>9, <1>10, <1>11, <1>12 DEF TxOK, Reserved
<1>14. \A r \in Others(s) : Apart(u, tx[r])
  <2> SUFFICES ASSUME NEW r \in Others(s) PROVE Apart(u, tx[r])
    OBVIOUS
  <2>1. Apart(o, tx[r]) /\ o.card \notin tx[r].route
    BY <1>1 DEF IInv, TxsOK, place_card
  <2>2. u.route \intersect tx[r].route = {}
    BY <1>6, <2>1
  <2> QED BY <1>6, <1>12, <2>1, <2>2 DEF Apart
<1> QED BY <1>4, <1>5, <1>13, <1>14, RanStep

\* INSERT of an event or a validation result of the card.
LEMMA ReferStep ==
    ASSUME IInv, NEW s \in Session, refer_to_card(s)
    PROVE  IInv'
<1>1. PICK o : o = tx[s]
  OBVIOUS
<1>2. IsTx(o) /\ occurred_at \in Nat \ {0}
  BY <1>1, LaterDate DEF IInv, TxsOK, TxOK
<1>3. PICK t : t = [[o EXCEPT !.share = {tx[s].card}] EXCEPT !.stamp = occurred_at]
  OBVIOUS
<1>4. IsTx(t) /\ ran(s, t)
  BY <1>1, <1>2, <1>3 DEF IsTx, refer_to_card, wrote
<1>5. PICK u : u = [t EXCEPT !.todo = Tail(@)]
  OBVIOUS
<1>6. /\ IsTx(u) /\ u.op = o.op /\ u.todo = Tail(o.todo) /\ u.key = o.key /\ u.lease = o.lease
      /\ u.version = o.version /\ u.exits = o.exits /\ u.stamp = occurred_at
      /\ u.card = o.card /\ u.seen = o.seen /\ u.rows = o.rows
      /\ u.route = o.route
  BY <1>1, <1>2, <1>3, <1>5 DEF IsTx
<1>7. /\ TxOK(o) /\ Active(o) /\ o.op \in Operation /\ "refer_to_card" \in Statements[o.op]
      /\ Elements(u.todo) \subseteq Elements(o.todo)
      /\ \A x \in Elements(o.todo) : x = "refer_to_card" \/ x \in Elements(u.todo)
      /\ Running(u)
  <2>1. at(s, "refer_to_card")
    BY DEF refer_to_card
  <2>2. u.todo = Tail(o.todo) /\ u.op = o.op
    BY <1>6
  <2> QED BY <1>1, <2>1, <2>2, Advance
<1>8. o.op \in {"validate_card", "validate_and_move", "record_event"}
  BY <1>7, StatementFacts
<1>9. Named(u)
  BY <1>6, <1>7, <1>8 DEF TxOK, Named, OnLease
<1>10. Routed(u) /\ Latest(u)
  <2>1. \A e \in events : e.n \in Nat /\ e.n < occurred_at
    BY LaterDate DEF IInv, TypeOK
  <2> QED BY <1>2, <1>6, <1>7, <1>8, <2>1 DEF TxOK, Routed, Latest
<1>11. Stamped(u)
  BY <1>2, <1>6, <1>7, <1>8 DEF TxOK, Stamped, OnLease
<1>12. PastStore(u) => PastStore(o)
  BY <1>6, <1>7 DEF PastStore
<1>13. TxOK(u)
  BY <1>6, <1>7, <1>9, <1>10, <1>11, <1>12 DEF TxOK, Reserved
<1>14. \A r \in Others(s) : Apart(u, tx[r])
  <2>1. \A r \in Others(s) : Apart(o, tx[r])
    BY <1>1 DEF IInv, TxsOK
  <2> QED BY <1>6, <1>12, <2>1 DEF Apart
<1> QED BY <1>4, <1>5, <1>13, <1>14, RanStep

\* UPDATE of the row of a lease.
LEMMA UpdateLeaseStep ==
    ASSUME IInv, NEW s \in Session, update_lease(s)
    PROVE  IInv'
<1>1. PICK o : o = tx[s]
  OBVIOUS
<1>2. IsTx(o) /\ occurred_at \in Nat \ {0}
  BY <1>1, LaterDate DEF IInv, TxsOK, TxOK
<1>3. PICK t : t = [[o EXCEPT !.rows = {tx[s].lease}, !.share = {tx[s].card}] EXCEPT !.stamp = occurred_at]
  OBVIOUS
<1>4. IsTx(t) /\ ran(s, t)
  BY <1>1, <1>2, <1>3 DEF IsTx, update_lease, wrote
<1>5. PICK u : u = [t EXCEPT !.todo = Tail(@)]
  OBVIOUS
<1>6. /\ IsTx(u) /\ u.op = o.op /\ u.todo = Tail(o.todo) /\ u.key = o.key /\ u.lease = o.lease
      /\ u.version = o.version /\ u.exits = o.exits /\ u.stamp = occurred_at
      /\ u.card = o.card /\ u.seen = o.seen /\ u.route = o.route
      /\ u.rows = {o.lease}
  BY <1>1, <1>2, <1>3, <1>5 DEF IsTx
<1>7. /\ TxOK(o) /\ Active(o) /\ o.op \in Operation /\ "update_lease" \in Statements[o.op]
      /\ Elements(u.todo) \subseteq Elements(o.todo)
      /\ \A x \in Elements(o.todo) : x = "update_lease" \/ x \in Elements(u.todo)
      /\ Running(u)
  <2>1. at(s, "update_lease")
    BY DEF update_lease
  <2>2. u.todo = Tail(o.todo) /\ u.op = o.op
    BY <1>6
  <2> QED BY <1>1, <2>1, <2>2, Advance
<1>8. o.op \in OnLease
  BY <1>7, StatementFacts
<1>9. Named(u)
  BY <1>6, <1>7, <1>8 DEF TxOK, Named, OnLease
<1>10. Routed(u) /\ Latest(u)
  <2>1. \A e \in events : e.n \in Nat /\ e.n < occurred_at
    BY LaterDate DEF IInv, TypeOK
  <2> QED BY <1>2, <1>6, <1>7, <1>8, <2>1 DEF TxOK, Routed, Latest
<1>11. Stamped(u)
  BY <1>2, <1>6, <1>7, <1>8 DEF TxOK, Stamped, OnLease
<1>12. PastStore(u) => PastStore(o)
  BY <1>6, <1>7 DEF PastStore
<1>13. TxOK(u)
  BY <1>6, <1>7, <1>9, <1>10, <1>11, <1>12 DEF TxOK, Reserved
<1>14. \A r \in Others(s) : Apart(u, tx[r])
  <2>1. \A r \in Others(s) : Apart(o, tx[r])
    BY <1>1 DEF IInv, TxsOK
  <2> QED BY <1>6, <1>12, <2>1 DEF Apart
<1> QED BY <1>4, <1>5, <1>13, <1>14, RanStep

\* A transaction that changes nothing but its seen, rows and share, and dates an event.
LEMMA SameStep ==
    ASSUME IInv, NEW s \in Session, NEW o, o = tx[s], NEW u, UNCHANGED <<tables, requests, now>>,
           tx' = [tx EXCEPT ![s] = u],
           IsTx(u), u.op = o.op, u.todo = o.todo, u.key = o.key, u.card = o.card,
           u.lease = o.lease, u.version = o.version, u.route = o.route, u.exits = o.exits,
           Active(o), u.seen \subseteq o.seen,
           \/ u.stamp = o.stamp /\ u.rows = o.rows
           \/ /\ u.stamp \in Nat \ {0}
              /\ o.op = "expire_leases" /\ u.rows \subseteq DOMAIN leases
    PROVE  IInv'
<1>1. TxOK(o)
  BY DEF IInv, TxsOK
<1>2. Running(u)
  BY <1>1 DEF TxOK, Running, Active
<1>3. Named(u)
  BY <1>1 DEF TxOK, Named, Active
<1>4. o.op = "expire_leases" => o.route = {}
  BY <1>1 DEF TxOK, Routed, Mover
<1>5. Routed(u) /\ Latest(u)
  BY <1>1, <1>4 DEF TxOK, Routed, Latest, Active
<1>6. Stamped(u)
  BY <1>1, <1>4 DEF TxOK, Stamped, Active, OnLease
<1>7. PastStore(u) => PastStore(o)
  BY DEF PastStore, Active
<1>8. TxOK(u)
  BY <1>1, <1>2, <1>3, <1>5, <1>6, <1>7 DEF TxOK, Reserved
<1>9. \A r \in Others(s) : Apart(u, tx[r])
  <2>1. \A r \in Others(s) : Apart(o, tx[r])
    BY DEF IInv, TxsOK
  <2> QED BY <1>7, <2>1 DEF Apart
<1>10. requests' \in 0..MaxRequests /\ now' \in 0..MaxTime
  BY DEF IInv, TypeOK
<1> QED BY <1>8, <1>9, <1>10, TxStep

\* FOR UPDATE: a card that was selected is locked, or left because it has moved.
LEMMA LockCardStep ==
    ASSUME IInv, NEW s \in Session, lock_card(s)
    PROVE  IInv'
<1>1. PICK o : o = tx[s]
  OBVIOUS
<1>2. IsTx(o) /\ occurred_at \in Nat \ {0} /\ Named(o) /\ Running(o) /\ Active(o)
  BY <1>1, LaterDate DEF IInv, TxsOK, TxOK, lock_card, at, Active
<1>3. CASE o.seen = {}
  BY <1>1, <1>3, RollbackStep DEF lock_card
<1>4. ASSUME NEW c \in o.seen, 
             wrote(s, [tx[s] EXCEPT !.card = c, !.claim = @ \union {c}, !.seen = {},
                                    !.expires = now + tx[s].seconds])
      PROVE  IInv'
  <2>3. PICK t : t = [[o EXCEPT !.card = c, !.claim = @ \union {c}, !.seen = {},
                               !.expires = now + tx[s].seconds] EXCEPT !.stamp = occurred_at]
    OBVIOUS
  <2>4. IsTx(t) /\ ran(s, t)
    BY <1>1, <1>2, <1>4, <2>3 DEF IsTx, wrote
  <2>5. PICK u : u = [t EXCEPT !.todo = Tail(@)]
    OBVIOUS
  <2>6. /\ IsTx(u) /\ u.op = o.op /\ u.todo = Tail(o.todo) /\ u.key = o.key /\ u.lease = o.lease
        /\ u.version = o.version /\ u.exits = o.exits /\ u.stamp = occurred_at
        /\ u.card = c /\ u.seen = {} /\ u.rows = o.rows /\ u.route = o.route
    BY <1>1, <1>2, <2>3, <2>5 DEF IsTx
  <2>7. /\ TxOK(o) /\ o.op \in Operation /\ "lock_card" \in Statements[o.op]
        /\ "lock_card" \in Elements(o.todo)
        /\ Elements(u.todo) \subseteq Elements(o.todo)
        /\ \A x \in Elements(o.todo) : x = "lock_card" \/ x \in Elements(u.todo)
        /\ Running(u)
    <3>1. at(s, "lock_card")
      BY DEF lock_card
    <3>2. u.todo = Tail(o.todo) /\ u.op = o.op
      BY <2>6
    <3> QED BY <1>1, <3>1, <3>2, Advance
  <2>8. o.op = "claim_card"
    BY <2>7, StatementFacts
  <2>9. c \in DOMAIN cards /\ o.route = {} /\ o.exits = {}
    BY <1>2, <1>4, <2>7, <2>8 DEF TxOK, Named, Routed, Mover
  <2>10. Named(u)
    BY <1>2, <2>6, <2>7, <2>8, <2>9 DEF TxOK, Named, OnLease
  <2>11. Routed(u) /\ Latest(u)
    BY <2>6, <2>8, <2>9 DEF Routed, Latest, Mover
  <2>12. Stamped(u)
    BY <1>2, <2>6, <2>7, <2>8 DEF TxOK, Stamped, OnLease
  <2>13. PastStore(u) => PastStore(o)
    BY <1>2, <2>6, <2>7 DEF PastStore
  <2>14. TxOK(u)
    BY <2>6, <2>7, <2>10, <2>11, <2>12, <2>13 DEF TxOK, Reserved
  <2>15. \A r \in Others(s) : Apart(u, tx[r])
    <3>1. \A r \in Others(s) : Apart(o, tx[r])
      BY <1>1 DEF IInv, TxsOK
    <3> QED BY <2>6, <2>13, <3>1 DEF Apart
  <2> QED BY <2>4, <2>5, <2>14, <2>15, RanStep
<1>5. ASSUME NEW c \in o.seen,
             tx' = [tx EXCEPT ![s] =
                          [tx[s] EXCEPT !.seen = @ \ {c}, !.claim = @ \union {c}]],
             UNCHANGED <<tables, requests, now>>
      PROVE  IInv'
  <2>1. PICK u : u = [o EXCEPT !.seen = @ \ {c}, !.claim = @ \union {c}]
    OBVIOUS
  <2>2. /\ IsTx(u) /\ u.op = o.op /\ u.todo = o.todo /\ u.key = o.key /\ u.lease = o.lease
        /\ u.version = o.version /\ u.exits = o.exits /\ u.stamp = o.stamp
        /\ u.card = o.card /\ u.seen = o.seen \ {c} /\ u.rows = o.rows /\ u.route = o.route
    BY <1>2, <2>1 DEF IsTx
  <2>3. tx' = [tx EXCEPT ![s] = u]
    BY <1>1, <1>5, <2>1
  <2> QED BY <1>1, <1>2, <1>5, <2>2, <2>3, SameStep
<1> QED BY <1>1, <1>3, <1>4, <1>5 DEF lock_card

\* The loop of expire_leases.
LEMMA UpdateOverdueStep ==
    ASSUME IInv, NEW s \in Session, update_overdue(s)
    PROVE  IInv'
<1>1. PICK o : o = tx[s]
  OBVIOUS
<1>2. /\ IsTx(o) /\ occurred_at \in Nat \ {0} /\ Named(o) /\ Running(o) /\ Active(o)
      /\ at(s, "update_overdue")
  BY <1>1, LaterDate DEF IInv, TxsOK, TxOK, update_overdue, at, Active
<1>3. o.op = "expire_leases"
  <2>1. "update_overdue" \in Elements(o.todo)
    BY <1>1, <1>2, TailElements DEF at, Running, Active
  <2> QED BY <1>2, <2>1, StatementFacts DEF Running
<1>4. o.seen \subseteq DOMAIN leases /\ o.rows \subseteq DOMAIN leases
  BY <1>2, <1>3 DEF Named
<1>5. CASE o.seen = {}
  <2>1. ran(s, o)
    BY <1>1, <1>5 DEF update_overdue
  <2> QED BY <1>1, <1>2, <1>3, <1>4, <2>1, ReadStep
<1>6. CASE o.seen # {}
  <2>1. PICK l : l = Least(o.seen)
    OBVIOUS
  <2>2. l \in DOMAIN leases
    <3>1. DOMAIN leases \subseteq Nat
      BY DEF IInv, Tables, LeaseTable, IsSequence
    <3> QED BY <1>4, <1>6, <2>1, <3>1, LeastOfNaturals
  <2>4. PICK u : u = [o EXCEPT !.seen = @ \ {l}, !.rows = @ \union {l},
                               !.share = @ \union {leases[l].card}, !.stamp = occurred_at]
    OBVIOUS
  <2>5. /\ IsTx(u) /\ u.op = o.op /\ u.todo = o.todo /\ u.key = o.key /\ u.lease = o.lease
        /\ u.version = o.version /\ u.exits = o.exits /\ u.stamp = occurred_at
        /\ u.card = o.card /\ u.seen = o.seen \ {l} /\ u.rows = o.rows \union {l}
        /\ u.route = o.route
    BY <1>2, <2>4 DEF IsTx
  <2>6. tx' = [tx EXCEPT ![s] = u] /\ UNCHANGED <<tables, requests, now>>
    BY <1>1, <1>6, <2>1, <2>4 DEF update_overdue
  <2>7. u.rows \subseteq DOMAIN leases /\ u.seen \subseteq o.seen
    BY <1>4, <2>2, <2>5
  <2> QED BY <1>1, <1>2, <1>3, <2>5, <2>6, <2>7, SameStep
<1> QED BY <1>5, <1>6

\* The INSERT of the idempotency record: the key is taken by nobody.
LEMMA StoreStep ==
    ASSUME IInv, NEW s \in Session, store_idempotency(s)
    PROVE  IInv'
<1>1. PICK o : o = tx[s]
  OBVIOUS
<1>2. IsTx(o)
  BY <1>1 DEF IInv, TxsOK, TxOK
<1>3. CASE rollback(s)
  BY <1>3, RollbackStep
<1>4. CASE /\ UniqueKeys(s) \intersect (artifacts \union DOMAIN idempotency) = {}
           /\ ran(s, o)
  <2>5. PICK u : u = [o EXCEPT !.todo = Tail(@)]
    OBVIOUS
  <2>6. /\ IsTx(u) /\ u.op = o.op /\ u.todo = Tail(o.todo) /\ u.key = o.key /\ u.lease = o.lease
        /\ u.version = o.version /\ u.exits = o.exits /\ u.stamp = o.stamp
        /\ u.card = o.card /\ u.seen = o.seen /\ u.rows = o.rows /\ u.route = o.route
    BY <1>2, <2>5 DEF IsTx
  <2>7. /\ TxOK(o) /\ o.op \in Operation /\ "store_idempotency" \in Statements[o.op]
        /\ Active(o)
        /\ Elements(u.todo) \subseteq Elements(o.todo)
        /\ \A x \in Elements(o.todo) : x = "store_idempotency" \/ x \in Elements(u.todo)
        /\ Running(u)
    <3>1. at(s, "store_idempotency")
      BY DEF store_idempotency
    <3>2. u.todo = Tail(o.todo) /\ u.op = o.op
      BY <2>6
    <3> QED BY <1>1, <3>1, <3>2, Advance
  <2>8. o.op # "expire_leases"
    BY <2>7, StatementFacts
  <2>9. o.key # None => o.key \in UniqueKeys(s) /\ o.key \notin DOMAIN idempotency
    BY <1>1, <1>4 DEF UniqueKeys
  <2>10. Named(u)
    BY <2>6, <2>7, <2>8 DEF TxOK, Named
  <2>11. Routed(u) /\ Latest(u)
    BY <2>6, <2>7 DEF TxOK, Routed, Latest
  <2>12. Stamped(u)
    BY <2>6, <2>7 DEF TxOK, Stamped
  <2>13. TxOK(u)
    BY <2>6, <2>7, <2>9, <2>10, <2>11, <2>12 DEF TxOK, Reserved
  <2>14. \A r \in Others(s) : Apart(u, tx[r])
    <3> SUFFICES ASSUME NEW r \in Others(s) PROVE Apart(u, tx[r])
      OBVIOUS
    <3>1. Apart(o, tx[r])
      BY <1>1 DEF IInv, TxsOK
    <3>2. ASSUME PastStore(tx[r]), tx[r].key = o.key PROVE o.key = None
      <4>1. UniqueKeys(r) \intersect UniqueKeys(s) = {}
        BY <3>2 DEF store_idempotency, PastStore
      <4>2. o.key # None => o.key \in UniqueKeys(r)
        BY <3>2 DEF UniqueKeys
      <4> QED BY <2>9, <4>1, <4>2
    <3> QED BY <2>6, <3>1, <3>2 DEF Apart
  <2> QED BY <1>4, <2>5, <2>13, <2>14, RanStep
<1> QED BY <1>1, <1>3, <1>4 DEF store_idempotency

-----------------------------------------------------------------------------
(* The commit.                                                              *)

\* All statements of a transaction that commits have run.
LEMMA Committing ==
    ASSUME IInv, NEW s \in Session, NEW o, o = tx[s], at(s, "commit")
    PROVE  /\ TxOK(o) /\ Active(o) /\ o.op \in Operation
           /\ Elements(o.todo) = {"commit"}
           /\ PastStore(o)
           /\ o.op \in Mover =>
                 o.route = {o.card} /\ o.card \in DOMAIN cards /\ o.stamp \in Nat \ {0}
           /\ o.op \notin Mover => o.route = {} /\ o.exits = {}
           /\ o.op \in OnLease => o.rows = {o.lease} /\ o.stamp \in Nat \ {0}
           /\ o.op \notin {"create_card", "expire_leases"} => o.card \in DOMAIN cards
           /\ o.op # "expire_leases" => o.stamp \in Nat \ {0}
           /\ o.rows # {} => o.stamp \in Nat \ {0}
<1>1. TxOK(o) /\ Active(o) /\ Running(o)
  BY DEF IInv, TxsOK, TxOK, at, Active
<1>2. Elements(o.todo) = {"commit"}
  <2>1. /\ Head(o.todo) = "commit" /\ Len(o.todo) \in Nat \ {0} /\ DOMAIN o.todo = 1..Len(o.todo)
        /\ o.todo[1] = "commit"
    BY <1>1 DEF at, Running, Active, IsSequence
  <2>2. Len(o.todo) = 1
    <3>1. 1 \in DOMAIN o.todo
      BY <2>1
    <3>2. CommitsLast(o.todo)
      BY <1>1 DEF Running
    <3> QED BY <2>1, <3>1, <3>2, Zenon DEF CommitsLast
  <2> QED BY <2>1, <2>2 DEF Elements
<1>3. o.op \in Operation
  BY <1>1 DEF Running
<1>4. PastStore(o)
  BY <1>1, <1>2 DEF PastStore
<1>5. o.op \in Mover => o.route = {o.card} /\ o.card \in DOMAIN cards /\ o.stamp \in Nat \ {0}
  BY <1>1, <1>2 DEF TxOK, Routed, Stamped
<1>6. o.op \notin Mover => o.route = {} /\ o.exits = {}
  BY <1>1 DEF TxOK, Routed
<1>7. o.op \in OnLease => o.rows = {o.lease} /\ o.stamp \in Nat \ {0}
  BY <1>1, <1>2 DEF TxOK, Stamped
<1>8. o.op \notin {"create_card", "expire_leases"} => o.card \in DOMAIN cards
  BY <1>1, <1>2 DEF TxOK, Named
<1>9. o.op # "expire_leases" => o.stamp \in Nat \ {0}
  <2>1. o.op \in Mover \union OnLease \union
                 {"create_card", "claim_card", "expire_leases", "validate_card", "record_event"}
    BY <1>3 DEF Operation, Program, Mover, OnLease
  <2> QED BY <1>1, <1>2, <1>5, <1>7, <2>1 DEF TxOK, Stamped
<1>10. o.rows # {} => o.stamp \in Nat \ {0}
  BY <1>1 DEF TxOK, Stamped
<1> QED BY <1>1, <1>2, <1>3, <1>4, <1>5, <1>6, <1>7, <1>8, <1>9, <1>10

\* The cards: no row goes, and only the route of the transaction is changed.
LEMMA CommitCards ==
    ASSUME IInv, NEW s \in Session, NEW o, o = tx[s], commit(s)
    PROVE  /\ CardTable'
           /\ DOMAIN cards \subseteq DOMAIN cards'
           /\ \A c \in DOMAIN cards : cards'[c].workflow_version = cards[c].workflow_version
           /\ \A c \in DOMAIN cards : c \notin o.route => cards'[c] = cards[c]
           /\ \A c \in DOMAIN cards : c \in o.route => cards'[c].bucket = o.to
           /\ o.op # "create_card" =>
                 DOMAIN cards' = DOMAIN cards /\ Subject(s) = o.card
           /\ o.op = "create_card" =>
                 /\ DOMAIN cards' = DOMAIN cards \union {Subject(s)}
                 /\ Subject(s) \notin DOMAIN cards
                 /\ cards'[Subject(s)].workflow_version = o.version
                 /\ cards'[Subject(s)].bucket = o.to
<1>1. cards' = cards_after(s) /\ CardTable
  BY DEF commit, IInv, Tables
<1>2. /\ o.op \in Mover => o.route = {o.card} /\ o.card \in DOMAIN cards
      /\ o.op \notin Mover => o.route = {}
  BY Committing DEF commit
<1>3. CASE o.op = "create_card"
  <2>1. PICK e : e = [workflow_version |-> o.version, bucket |-> o.to]
    OBVIOUS
  <2>2. IsCard(e) /\ e.workflow_version = o.version /\ e.bucket = o.to
    BY <2>1 DEF IsCard
  <2>3. cards' = Append(cards, e) /\ Subject(s) = Len(cards) + 1 /\ o.route = {}
    BY <1>1, <1>2, <1>3, <2>1 DEF cards_after, Subject, Mover
  <2>4. /\ IsSequence(cards') /\ DOMAIN cards' = DOMAIN cards \union {Subject(s)}
        /\ Subject(s) \notin DOMAIN cards /\ cards'[Subject(s)] = e
        /\ \A c \in DOMAIN cards : cards'[c] = cards[c]
    BY <1>1, <2>3, SequenceAppend DEF CardTable
  <2> QED BY <1>1, <1>3, <2>2, <2>3, <2>4 DEF CardTable
<1>4. CASE o.op # "create_card" /\ o.route # {}
  <2>1. PICK e : e = [cards[o.card] EXCEPT !.bucket = o.to]
    OBVIOUS
  <2>2. o.card \in DOMAIN cards /\ o.route = {o.card} /\ Subject(s) = o.card
    BY <1>2, <1>4 DEF Subject
  <2>3. IsCard(e) /\ e.workflow_version = cards[o.card].workflow_version /\ e.bucket = o.to
    BY <1>1, <2>1, <2>2 DEF IsCard, CardTable
  <2>4. cards = [c \in DOMAIN cards |-> cards[c]]
    BY <1>1 DEF CardTable, IsSequence
  <2>5. cards' = [c \in DOMAIN cards |-> IF c = o.card THEN e ELSE cards[c]]
    BY <1>1, <1>4, <2>1, <2>4 DEF cards_after
  <2>6. IsSequence(cards') /\ DOMAIN cards' = DOMAIN cards
    BY <1>1, <2>5, SequenceMap DEF CardTable
  <2> QED BY <1>1, <1>4, <2>2, <2>3, <2>5, <2>6 DEF CardTable
<1>5. CASE o.op # "create_card" /\ o.route = {}
  <2>1. cards' = cards /\ Subject(s) = o.card
    BY <1>1, <1>5 DEF cards_after, Subject
  <2> QED BY <1>1, <1>5, <2>1 DEF CardTable
<1> QED BY <1>3, <1>4, <1>5

\* The locations: none goes, those the transaction exits become inactive, and
\* a card that is made or moved gets a new one.
LEMMA CommitLocations ==
    ASSUME IInv, NEW s \in Session, NEW o, o = tx[s], commit(s)
    PROVE  /\ LocationTable'
           /\ DOMAIN locations \subseteq DOMAIN locations'
           /\ \A i \in DOMAIN locations : /\ locations'[i].card = locations[i].card
                                          /\ locations'[i].bucket = locations[i].bucket
                                          /\ locations[i].active /\ i \notin o.exits =>
                                                locations'[i].active
           /\ \A i \in DOMAIN locations' :
                 i \in DOMAIN locations \/ locations'[i].card = Subject(s)
           /\ o.op = "create_card" \/ o.route # {} =>
                 \E i \in DOMAIN locations' : /\ locations'[i].card = Subject(s)
                                              /\ locations'[i].bucket = o.to
                                              /\ locations'[i].active
           /\ o.op # "create_card" /\ o.route = {} => DOMAIN locations' = DOMAIN locations
<1>1. locations' = locations_after(s) /\ LocationTable
  BY DEF commit, IInv, Tables
<1>2. CASE ~(o.op = "create_card" \/ o.route # {})
  <2>1. locations' = locations
    BY <1>1, <1>2 DEF locations_after
  <2> QED BY <1>1, <1>2, <2>1 DEF LocationTable
<1>3. CASE o.op = "create_card" \/ o.route # {}
  <2>1. PICK x : x = exited(s)
    OBVIOUS
  <2>2. PICK e : e = [card |-> Subject(s), bucket |-> o.to, active |-> TRUE]
    OBVIOUS
  <2>3. IsLocation(e) /\ e.card = Subject(s) /\ e.bucket = o.to /\ e.active = TRUE
    BY <2>2 DEF IsLocation
  <2>4. x = [i \in DOMAIN locations |->
               [locations[i] EXCEPT !.active = locations[i].active /\ i \notin tx[s].exits]]
    BY <2>1 DEF exited
  <2>5. \A i \in DOMAIN locations :
           /\ IsLocation(x[i]) /\ x[i].card = locations[i].card
           /\ x[i].bucket = locations[i].bucket
           /\ locations[i].active /\ i \notin o.exits => x[i].active
    <3> SUFFICES ASSUME NEW i \in DOMAIN locations
                 PROVE  /\ IsLocation(x[i]) /\ x[i].card = locations[i].card
                        /\ x[i].bucket = locations[i].bucket
                        /\ locations[i].active /\ i \notin o.exits => x[i].active
      OBVIOUS
    <3>1. PICK y : y = locations[i]
      OBVIOUS
    <3>2. PICK a : a = (y.active /\ i \notin o.exits)
      OBVIOUS
    <3>3. x[i] = [y EXCEPT !.active = a]
      BY <2>4, <3>1, <3>2
    <3>4. y = [card |-> y.card, bucket |-> y.bucket, active |-> y.active]
      BY <1>1, <3>1 DEF LocationTable, IsLocation
    <3>5. x[i].card = y.card /\ x[i].bucket = y.bucket /\ x[i].active = a /\ IsLocation(x[i])
      BY <3>3, <3>4 DEF IsLocation
    <3> QED BY <3>1, <3>2, <3>5
  <2>6. DOMAIN x = DOMAIN locations /\ IsSequence(x)
    BY <1>1, <2>4, SequenceMap DEF LocationTable
  <2>7. locations' = Append(x, e)
    BY <1>1, <1>3, <2>1, <2>2 DEF locations_after
  <2>8. /\ IsSequence(locations') /\ DOMAIN locations' = DOMAIN x \union {Len(x) + 1}
        /\ locations'[Len(x) + 1] = e
        /\ \A i \in DOMAIN x : locations'[i] = x[i]
    BY <2>6, <2>7, SequenceAppend
  <2>9. \A i \in DOMAIN locations' : IsLocation(locations'[i])
    BY <2>3, <2>5, <2>6, <2>8
  <2> QED BY <1>3, <2>3, <2>5, <2>6, <2>8, <2>9 DEF LocationTable
<1> QED BY <1>2, <1>3

\* The leases: none goes or changes its card; a claim makes one for its card.
LEMMA CommitLeases ==
    ASSUME IInv, NEW s \in Session, NEW o, o = tx[s], commit(s)
    PROVE  /\ LeaseTable'
           /\ DOMAIN leases \subseteq DOMAIN leases'
           /\ \A l \in DOMAIN leases : leases'[l].card = leases[l].card
           /\ \A l \in DOMAIN leases' : l \in DOMAIN leases \/ leases'[l].card = o.card
           /\ o.op # "claim_card" => DOMAIN leases' = DOMAIN leases
<1>1. leases' = leases_after(s) /\ LeaseTable
  BY DEF commit, IInv, Tables
<1>2. leases = [l \in DOMAIN leases |-> leases[l]]
  BY <1>1 DEF LeaseTable, IsSequence
<1>3. CASE o.op = "claim_card"
  <2>1. PICK e : e = [card |-> o.card, node |-> o.node, expires |-> o.expires,
                      released |-> FALSE]
    OBVIOUS
  <2>2. IsLease(e) /\ e.card = o.card
    BY <2>1 DEF IsLease
  <2>3. leases' = Append(leases, e)
    BY <1>1, <1>3, <2>1 DEF leases_after
  <2>4. /\ IsSequence(leases') /\ DOMAIN leases' = DOMAIN leases \union {Len(leases) + 1}
        /\ leases'[Len(leases) + 1] = e
        /\ \A l \in DOMAIN leases : leases'[l] = leases[l]
    BY <1>1, <2>3, SequenceAppend DEF LeaseTable
  <2> QED BY <1>1, <1>3, <2>2, <2>4 DEF LeaseTable
<1>4. CASE o.op = "renew_lease"
  <2>1. PICK e : e = [leases[o.lease] EXCEPT !.expires = o.expires]
    OBVIOUS
  <2>2. o.lease \in DOMAIN leases
    BY <1>4, Committing DEF commit, TxOK, Named, OnLease
  <2>3. PICK y : y = leases[o.lease]
    OBVIOUS
  <2>4. y = [card |-> y.card, node |-> y.node, expires |-> y.expires, released |-> y.released]
    BY <1>1, <2>2, <2>3 DEF LeaseTable, IsLease
  <2>5. IsLease(e) /\ e.card = leases[o.lease].card
    BY <2>1, <2>3, <2>4 DEF IsLease
  <2>6. leases' = [l \in DOMAIN leases |-> IF l = o.lease THEN e ELSE leases[l]]
    BY <1>1, <1>2, <1>4, <2>1 DEF leases_after
  <2>7. IsSequence(leases') /\ DOMAIN leases' = DOMAIN leases
    BY <1>1, <2>6, SequenceMap DEF LeaseTable
  <2> QED BY <1>1, <1>4, <2>2, <2>5, <2>6, <2>7 DEF LeaseTable
<1>5. CASE o.op \notin {"claim_card", "renew_lease"}
  <2>1. leases' = [l \in DOMAIN leases |->
                     [leases[l] EXCEPT !.released = leases[l].released \/ l \in tx[s].rows]]
    BY <1>1, <1>5 DEF leases_after
  <2>2. \A l \in DOMAIN leases : IsLease(leases'[l]) /\ leases'[l].card = leases[l].card
    <3> SUFFICES ASSUME NEW l \in DOMAIN leases
                 PROVE  IsLease(leases'[l]) /\ leases'[l].card = leases[l].card
      OBVIOUS
    <3>1. PICK y : y = leases[l]
      OBVIOUS
    <3>2. PICK a : a = (y.released \/ l \in o.rows)
      OBVIOUS
    <3>3. leases'[l] = [y EXCEPT !.released = a]
      BY <2>1, <3>1, <3>2
    <3>4. y = [card |-> y.card, node |-> y.node, expires |-> y.expires, released |-> y.released]
      BY <1>1, <3>1 DEF LeaseTable, IsLease
    <3>5. leases'[l].card = y.card /\ IsLease(leases'[l])
      BY <3>3, <3>4 DEF IsLease
    <3> QED BY <3>1, <3>5
  <2>3. IsSequence(leases') /\ DOMAIN leases' = DOMAIN leases
    BY <1>1, <2>1, SequenceMap DEF LeaseTable
  <2> QED BY <1>5, <2>2, <2>3 DEF LeaseTable
<1> QED BY <1>3, <1>4, <1>5

\* An event is about the subject of the transaction, or about the card of a
\* lease whose row the transaction holds.
LEMMA EventFields ==
    ASSUME NEW s, NEW type, NEW lease, NEW from, NEW to, NEW e,
           e = MkEvent(s, type, lease, from, to)
    PROVE  /\ e.n = tx[s].stamp /\ e.to = to
           /\ lease \in tx[s].rows => e.card = leases[lease].card
           /\ lease \notin tx[s].rows => e.card = Subject(s)
BY DEF MkEvent

\* The evidence of a commit: dated when it was made, about cards that exist,
\* and what says where a card went is about the subject of the transaction,
\* which it has made or holds.
LEMMA CommitEvents ==
    ASSUME IInv, NEW s \in Session, NEW o, o = tx[s], commit(s)
    PROVE  /\ \A e \in new_events(s) :
                 /\ e.n = o.stamp /\ e.n \in Nat \ {0}
                 /\ e.card \in DOMAIN cards \union {Subject(s)}
                 /\ o.op = "expire_leases" => e.card \in DOMAIN cards
                 /\ e.to # None => /\ e.card = Subject(s)
                                   /\ o.op = "create_card" \/ Subject(s) \in o.route
           /\ o.op = "create_card" \/ o.route # {} =>
                 \E e \in new_events(s) : e.card = Subject(s) /\ e.to = o.to
<1>1. /\ TxOK(o) /\ Active(o) /\ o.op \in Operation
      /\ o.op \in Mover => o.route = {o.card} /\ o.card \in DOMAIN cards
      /\ o.op \notin Mover => o.route = {}
      /\ o.op \in OnLease => o.rows = {o.lease} /\ o.stamp \in Nat \ {0}
      /\ o.op # "expire_leases" => o.stamp \in Nat \ {0}
      /\ o.rows # {} => o.stamp \in Nat \ {0}
  BY Committing DEF commit
<1>2. o.rows \subseteq DOMAIN leases /\ \A l \in DOMAIN leases : leases[l].card \in DOMAIN cards
  BY <1>1 DEF TxOK, Named, IInv, TypeOK
<1>3. 0 \notin o.rows /\ Len(leases) + 1 \notin o.rows
  BY <1>2 DEF IInv, Tables, LeaseTable, IsSequence
<1>4. o.op \in OnLease => leases[o.lease].card = o.card
  BY <1>1 DEF TxOK, Named
<1>5. o.op # "create_card" => Subject(s) = o.card
  BY DEF Subject
<1>6. CASE o.op = "create_card"
  <2>1. PICK e : e = MkEvent(s, "card_created", 0, None, o.to)
    OBVIOUS
  <2>2. new_events(s) = {e}
    BY <1>6, <2>1 DEF new_events
  <2>3. e.n = o.stamp /\ e.to = o.to /\ e.card = Subject(s)
    BY <1>3, <2>1, EventFields
  <2> QED BY <1>1, <1>6, <2>2, <2>3
<1>7. CASE o.op = "claim_card"
  <2>1. PICK e : e = MkEvent(s, "card_claimed", Len(leases) + 1, None, None)
    OBVIOUS
  <2>2. new_events(s) = {e}
    BY <1>7, <2>1 DEF new_events
  <2>3. e.n = o.stamp /\ e.to = None /\ e.card = Subject(s)
    BY <1>3, <2>1, EventFields
  <2> QED BY <1>1, <1>7, <2>2, <2>3 DEF Mover
<1>8. CASE o.op = "submit_artifact"
  <2>1. PICK e : e = MkEvent(s, "artifact_submitted", o.lease, None, o.to)
    OBVIOUS
  <2>2. new_events(s) = {e}
    BY <1>8, <2>1 DEF new_events
  <2>3. e.n = o.stamp /\ e.to = o.to /\ e.card = Subject(s)
    BY <1>1, <1>4, <1>5, <1>8, <2>1, EventFields DEF OnLease
  <2> QED BY <1>1, <1>5, <1>8, <2>2, <2>3 DEF Mover
<1>9. CASE o.op \in {"renew_lease", "release_lease"}
  <2>1. PICK type : type = IF o.op = "renew_lease" THEN "lease_renewed" ELSE "lease_released"
    OBVIOUS
  <2>2. PICK e : e = MkEvent(s, type, o.lease, None, None)
    OBVIOUS
  <2>3. new_events(s) = {e}
    BY <1>9, <2>1, <2>2 DEF new_events
  <2>4. e.n = o.stamp /\ e.to = None /\ e.card = Subject(s)
    BY <1>1, <1>4, <1>5, <1>9, <2>2, EventFields DEF OnLease
  <2> QED BY <1>1, <1>9, <2>3, <2>4 DEF Mover
<1>10. CASE o.op = "expire_leases"
  <2>1. new_events(s) = { MkEvent(s, "lease_expired", l, None, None) : l \in o.rows }
    BY <1>10 DEF new_events
  <2>2. ASSUME NEW e \in new_events(s)
        PROVE  /\ e.n = o.stamp /\ e.n \in Nat \ {0} /\ e.card \in DOMAIN cards /\ e.to = None
    <3>1. PICK l \in o.rows : e = MkEvent(s, "lease_expired", l, None, None)
      BY <2>1, <2>2
    <3>2. e.n = o.stamp /\ e.to = None /\ e.card = leases[l].card
      BY <3>1, EventFields
    <3> QED BY <1>1, <1>2, <3>2
  <2> QED BY <1>1, <1>10, <2>2 DEF Mover
<1>11. CASE o.op = "move_card"
  <2>1. PICK e : e = MkEvent(s, "card_moved", 0, o.from, o.to)
    OBVIOUS
  <2>2. new_events(s) = {e}
    BY <1>11, <2>1 DEF new_events
  <2>3. e.n = o.stamp /\ e.to = o.to /\ e.card = Subject(s)
    BY <1>3, <2>1, EventFields
  <2> QED BY <1>1, <1>5, <1>11, <2>2, <2>3 DEF Mover
<1>12. CASE o.op \in {"validate_card", "record_event"}
  <2>1. PICK type : type = IF o.op = "validate_card" THEN "card_validated" ELSE "recorded"
    OBVIOUS
  <2>2. PICK e : e = MkEvent(s, type, 0, None, None)
    OBVIOUS
  <2>3. new_events(s) = {e}
    BY <1>12, <2>1, <2>2 DEF new_events
  <2>4. e.n = o.stamp /\ e.to = None /\ e.card = Subject(s)
    BY <1>3, <2>2, EventFields
  <2> QED BY <1>1, <1>12, <2>3, <2>4 DEF Mover
<1>13. CASE o.op = "validate_and_move"
  <2>1. PICK e : e = MkEvent(s, "card_moved", 0, o.from, o.to)
    OBVIOUS
  <2>2. PICK f : f = MkEvent(s, "card_validated", 0, None, o.to)
    OBVIOUS
  <2>3. new_events(s) = {e, f}
    BY <1>13, <2>1, <2>2 DEF new_events
  <2>4. /\ e.n = o.stamp /\ e.to = o.to /\ e.card = Subject(s)
        /\ f.n = o.stamp /\ f.to = o.to /\ f.card = Subject(s)
    BY <1>3, <2>1, <2>2, EventFields
  <2> QED BY <1>1, <1>5, <1>13, <2>3, <2>4 DEF Mover
<1> QED BY <1>1, <1>6, <1>7, <1>8, <1>9, <1>10, <1>11, <1>12, <1>13 DEF Operation, Program

\* A key that has a record keeps it, and a commit adds none but its own.
LEMMA CommitKeys ==
    ASSUME IInv, NEW s \in Session, NEW o, o = tx[s], commit(s)
    PROVE  /\ \A k \in DOMAIN idempotency :
                 k \in DOMAIN idempotency' /\ idempotency'[k] = idempotency[k]
           /\ DOMAIN idempotency' \subseteq Key
           /\ \A k \in DOMAIN idempotency' : k \in DOMAIN idempotency \/ k = o.key
<1>1. TxOK(o) /\ PastStore(o)
  BY Committing DEF commit
<1>2. o.key \in Key \union {None} /\ (o.key # None => o.key \notin DOMAIN idempotency)
  BY <1>1 DEF TxOK, Reserved
<1>3. idempotency' = [k \in DOMAIN idempotency \union ({o.key} \ {None}) |->
                        IF k = o.key THEN serial + 1 ELSE idempotency[k]]
  BY DEF commit
<1>4. DOMAIN idempotency \subseteq Key
  BY DEF IInv, TypeOK
<1> QED BY <1>2, <1>3, <1>4, KeyAssumption

\* After the commit the row of every card has its location and its evidence.
LEMMA CommitTables ==
    ASSUME IInv, NEW s \in Session, NEW o, o = tx[s], commit(s)
    PROVE  TypeOK' /\ NoCardDisappears' /\ EvidenceEndsAtLocation'
<1>1. /\ TxOK(o) /\ Active(o) /\ o.op \in Operation
      /\ o.op \in Mover => o.route = {o.card} /\ o.card \in DOMAIN cards
      /\ o.op \notin Mover => o.route = {} /\ o.exits = {}
      /\ o.op \notin {"create_card", "expire_leases"} => o.card \in DOMAIN cards
  BY Committing DEF commit
<1>2. /\ DOMAIN cards \subseteq DOMAIN cards'
      /\ \A c \in DOMAIN cards : cards'[c].workflow_version = cards[c].workflow_version
      /\ \A c \in DOMAIN cards : c \notin o.route => cards'[c] = cards[c]
      /\ \A c \in DOMAIN cards : c \in o.route => cards'[c].bucket = o.to
      /\ o.op # "create_card" => DOMAIN cards' = DOMAIN cards /\ Subject(s) = o.card
      /\ o.op = "create_card" => /\ DOMAIN cards' = DOMAIN cards \union {Subject(s)}
                                 /\ Subject(s) \notin DOMAIN cards
                                 /\ cards'[Subject(s)].workflow_version = o.version
                                 /\ cards'[Subject(s)].bucket = o.to
  BY CommitCards
<1>3. o.op # "expire_leases" => Subject(s) \in DOMAIN cards'
  BY <1>1, <1>2
<1>4. \A c \in DOMAIN cards' : \/ c \in DOMAIN cards /\ c \notin o.route
                               \/ c = Subject(s) /\ cards'[c].bucket = o.to
                                     /\ (o.op = "create_card" \/ o.route # {})
  <2>1. CASE o.op = "create_card"
    BY <1>1, <1>2, <2>1 DEF Mover
  <2>2. CASE o.op # "create_card"
    BY <1>1, <1>2, <2>2
  <2> QED BY <2>1, <2>2
<1>5. TypeOK'
  <2>1. panels' = panels /\ requests' = requests /\ now' = now
    BY DEF commit
  <2>2. \A c \in DOMAIN cards' :
           \E p \in panels : cards'[c].workflow_version = workflow_version(p)
    <3>1. o.op = "create_card" => \E p \in panels : o.version = workflow_version(p)
      BY <1>1 DEF TxOK, Named
    <3> QED BY <1>2, <3>1 DEF IInv, TypeOK
  <2>3. \A i \in DOMAIN locations' : locations'[i].card \in DOMAIN cards'
    <3>1. /\ \A i \in DOMAIN locations : locations'[i].card = locations[i].card
          /\ \A i \in DOMAIN locations' : i \in DOMAIN locations \/ locations'[i].card = Subject(s)
          /\ o.op # "create_card" /\ o.route = {} => DOMAIN locations' = DOMAIN locations
      BY CommitLocations
    <3>2. \A i \in DOMAIN locations : locations[i].card \in DOMAIN cards
      BY DEF IInv, TypeOK
    <3>3. o.op = "expire_leases" => o.route = {}
      BY <1>1 DEF Mover
    <3> QED BY <1>2, <1>3, <3>1, <3>2, <3>3
  <2>4. \A l \in DOMAIN leases' : leases'[l].card \in DOMAIN cards'
    <3>1. /\ \A l \in DOMAIN leases : leases'[l].card = leases[l].card
          /\ \A l \in DOMAIN leases' : l \in DOMAIN leases \/ leases'[l].card = o.card
          /\ o.op # "claim_card" => DOMAIN leases' = DOMAIN leases
      BY CommitLeases
    <3>2. \A l \in DOMAIN leases : leases[l].card \in DOMAIN cards
      BY DEF IInv, TypeOK
    <3> QED BY <1>1, <1>2, <3>1, <3>2
  <2>5. \A e \in events' : e.card \in DOMAIN cards' /\ e.n \in Nat \ {0}
    <3>1. events' = events \union new_events(s)
      BY DEF commit
    <3>2. \A e \in events : e.card \in DOMAIN cards /\ e.n \in Nat \ {0}
      BY DEF IInv, TypeOK
    <3>3. \A e \in new_events(s) : /\ e.n \in Nat \ {0}
                                   /\ e.card \in DOMAIN cards \union {Subject(s)}
                                   /\ o.op = "expire_leases" => e.card \in DOMAIN cards
      BY CommitEvents
    <3> QED BY <1>2, <1>3, <3>1, <3>2, <3>3
  <2>6. DOMAIN idempotency' \subseteq Key
    BY CommitKeys
  <2>7. panels \subseteq Panels /\ requests \in 0..MaxRequests /\ now \in 0..MaxTime
    BY DEF IInv, TypeOK
  <2> QED BY <2>1, <2>2, <2>3, <2>4, <2>5, <2>6, <2>7 DEF TypeOK
<1>6. NoCardDisappears'
  <2> SUFFICES ASSUME NEW c \in DOMAIN cards'
               PROVE  \E i \in DOMAIN locations' : /\ locations'[i].card = c
                                                   /\ locations'[i].active
                                                   /\ locations'[i].bucket = cards'[c].bucket
    BY DEF NoCardDisappears, ActiveLocations
  <2>1. CASE c \in DOMAIN cards /\ c \notin o.route
    <3>1. PICK i \in DOMAIN locations : /\ locations[i].card = c /\ locations[i].active
                                        /\ locations[i].bucket = cards[c].bucket
      BY <2>1 DEF IInv, NoCardDisappears, ActiveLocations
    <3>2. i \notin o.exits
      BY <1>1, <2>1, <3>1 DEF TxOK, Routed
    <3>3. /\ i \in DOMAIN locations' /\ locations'[i].card = c /\ locations'[i].active
          /\ locations'[i].bucket = cards[c].bucket
      BY <3>1, <3>2, CommitLocations
    <3> QED BY <1>2, <2>1, <3>3
  <2>2. CASE /\ c = Subject(s) /\ cards'[c].bucket = o.to
             /\ o.op = "create_card" \/ o.route # {}
    BY <2>2, CommitLocations
  <2> QED BY <1>4, <2>1, <2>2
<1>7. EvidenceEndsAtLocation'
  <2>1. events' = events \union new_events(s)
    BY DEF commit
  <2>2. \A e \in new_events(s) :
           /\ e.n = o.stamp /\ e.n \in Nat \ {0}
           /\ e.to # None => /\ e.card = Subject(s)
                             /\ o.op = "create_card" \/ Subject(s) \in o.route
    BY CommitEvents
  <2> SUFFICES ASSUME NEW c \in DOMAIN cards'
               PROVE  \E e \in events' : /\ e.card = c /\ e.to = cards'[c].bucket
                                         /\ \A f \in events' : f.card = c /\ f.to # None => f.n <= e.n
    BY DEF EvidenceEndsAtLocation
  <2>3. CASE c \in DOMAIN cards /\ c \notin o.route
    <3>1. PICK e \in events : /\ e.card = c /\ e.to = cards[c].bucket
                              /\ \A f \in events : f.card = c /\ f.to # None => f.n <= e.n
      BY <2>3 DEF IInv, EvidenceEndsAtLocation
    <3>2. ASSUME NEW f \in events', f.card = c, f.to # None PROVE f.n <= e.n
      <4>1. f \notin new_events(s)
        BY <1>2, <2>2, <2>3, <3>2
      <4> QED BY <2>1, <3>1, <3>2, <4>1
    <3> QED BY <1>2, <2>1, <2>3, <3>1, <3>2
  <2>4. CASE /\ c = Subject(s) /\ cards'[c].bucket = o.to
             /\ o.op = "create_card" \/ o.route # {}
    <3>1. PICK e \in new_events(s) : e.card = c /\ e.to = o.to
      BY <2>4, CommitEvents
    <3>2. ASSUME NEW f \in events', f.card = c, f.to # None PROVE f.n <= e.n
      <4>1. CASE f \in new_events(s)
        BY <2>2, <3>1, <4>1
      <4>2. CASE f \in events
        <5>1. f.card \in DOMAIN cards
          BY <4>2 DEF IInv, TypeOK
        <5>2. o.route # {} /\ c = o.card
          BY <1>2, <2>4, <3>2, <5>1
        <5>3. f.n <= o.stamp
          BY <1>1, <3>2, <4>2, <5>2 DEF TxOK, Latest
        <5> QED BY <2>2, <3>1, <5>3
      <4> QED BY <2>1, <4>1, <4>2
    <3> QED BY <2>1, <2>4, <3>1, <3>2
  <2> QED BY <1>4, <2>3, <2>4
<1> QED BY <1>5, <1>6, <1>7

\* What the others have done so far stays right: their rows exist, the card
\* they hold has no later evidence, and their key is still free.
LEMMA CommitOthers ==
    ASSUME IInv, NEW s \in Session, NEW o, o = tx[s], commit(s), NEW r \in Others(s),
           NEW t, t = tx[r]
    PROVE  TxOK(t)'
<1>1. TxOK(t) /\ Apart(o, t)
  BY DEF IInv, TxsOK, Others
<1>2. /\ DOMAIN cards \subseteq DOMAIN cards'
      /\ o.op = "create_card" => Subject(s) \notin DOMAIN cards
  BY CommitCards
<1>3. /\ DOMAIN leases \subseteq DOMAIN leases'
      /\ \A l \in DOMAIN leases : leases'[l].card = leases[l].card
  BY CommitLeases
<1>4. /\ DOMAIN locations \subseteq DOMAIN locations'
      /\ \A i \in DOMAIN locations : locations'[i].card = locations[i].card
  BY CommitLocations
<1>5. panels' = panels
  BY DEF commit
<1>6. IsTx(t) /\ Running(t) /\ Stamped(t)
  BY <1>1 DEF TxOK
<1>7. Named(t)'
  <2>1. Named(t)
    BY <1>1 DEF TxOK
  <2> QED BY <1>2, <1>3, <1>5, <2>1 DEF Named
<1>8. Routed(t)'
  <2>1. Routed(t)
    BY <1>1 DEF TxOK
  <2> QED BY <1>2, <1>4, <2>1 DEF Routed
<1>9. Latest(t)'
  <2> SUFFICES ASSUME t.route # {}, NEW e \in events', e.card = t.card, e.to # None
               PROVE  e.n <= t.stamp
    BY DEF Latest
  <2>1. t.route = {t.card} /\ t.card \in DOMAIN cards
    BY <1>1 DEF TxOK, Routed
  <2>2. e \notin new_events(s)
    <3>1. \A f \in new_events(s) :
             f.to # None => /\ f.card = Subject(s)
                            /\ o.op = "create_card" \/ Subject(s) \in o.route
      BY CommitEvents
    <3> QED BY <1>1, <1>2, <2>1, <3>1 DEF Apart
  <2>3. e \in events
    BY <2>2 DEF commit
  <2> QED BY <1>1, <2>3 DEF TxOK, Latest
<1>10. Reserved(t)'
  <2>1. t.key \in Key \union {None} /\ (PastStore(t) /\ t.key # None => t.key \notin DOMAIN idempotency)
    BY <1>1 DEF TxOK, Reserved
  <2>2. \A k \in DOMAIN idempotency' : k \in DOMAIN idempotency \/ k = o.key
    BY CommitKeys
  <2>3. PastStore(o)
    BY Committing DEF commit
  <2>4. PastStore(t) /\ t.key # None => t.key # o.key
    BY <1>1, <2>3 DEF Apart
  <2> QED BY <2>1, <2>2, <2>4 DEF Reserved
<1> QED BY <1>6, <1>7, <1>8, <1>9, <1>10 DEF TxOK

\* A commit keeps the invariant: what it makes visible joins tables that no
\* other open transaction has changed under it.
LEMMA CommitStep ==
    ASSUME IInv, NEW s \in Session, commit(s)
    PROVE  IInv'
<1>1. PICK o : o = tx[s]
  OBVIOUS
<1>2. TypeOK' /\ NoCardDisappears' /\ EvidenceEndsAtLocation'
  BY <1>1, CommitTables
<1>3. Tables'
  BY <1>1, CommitCards, CommitLocations, CommitLeases DEF Tables
<1>4. tx' = [r \in Session |-> IF r = s THEN NoTx ELSE tx[r]]
  BY DEF commit, IInv, TxsOK
<1>5. \A r \in Session : TxOK(tx[r])'
  <2> SUFFICES ASSUME NEW r \in Session PROVE TxOK(tx[r])'
    OBVIOUS
  <2>1. CASE r = s
    <3>1. tx'[r] = NoTx
      BY <1>4, <2>1
    <3>2. TxOK(NoTx)'
      BY NoTxOK, PTL
    <3> QED BY <3>1, <3>2
  <2>2. CASE r # s
    <3>1. PICK t : t = tx[r]
      OBVIOUS
    <3>2. TxOK(t)'
      BY <1>1, <2>2, <3>1, CommitOthers DEF Others
    <3>3. tx'[r] = t
      BY <1>4, <2>2, <3>1
    <3> QED BY <3>2, <3>3
  <2> QED BY <2>1, <2>2
<1>6. \A r \in Session : \A q \in Others(r) : Apart(tx'[r], tx'[q])
  <2> SUFFICES ASSUME NEW r \in Session, NEW q \in Others(r) PROVE Apart(tx'[r], tx'[q])
    OBVIOUS
  <2>1. CASE r = s
    BY <1>4, <2>1, NoTxOK
  <2>2. CASE q = s
    <3>1. Apart(NoTx, tx'[r])
      BY NoTxOK
    <3> QED BY <1>4, <2>2, <3>1 DEF Others, Apart
  <2>3. CASE r # s /\ q # s
    BY <1>4, <2>3 DEF Others, IInv, TxsOK
  <2> QED BY <2>1, <2>2, <2>3
<1>7. TxsOK'
  BY <1>4, <1>5, <1>6 DEF TxsOK, Others
<1>8. Dated'
  <2>1. PICK bound \in Nat : /\ \A e \in events : e.n <= bound
                             /\ \A r \in Session : tx[r].stamp <= bound
    BY DEF IInv, Dated
  <2>2. \A e \in new_events(s) : e.n = o.stamp
    BY <1>1, CommitEvents
  <2>3. \A e \in events' : e.n <= bound
    BY <1>1, <2>1, <2>2 DEF commit
  <2>4. \A r \in Session : tx'[r].stamp <= bound
    BY <1>4, <2>1 DEF NoTx
  <2> QED BY <2>1, <2>3, <2>4 DEF Dated
<1> QED BY <1>2, <1>3, <1>7, <1>8 DEF IInv

-----------------------------------------------------------------------------
(* The specification.                                                       *)

\* Registering a panel adds a row, or changes nothing.
LEMMA RegisterStep ==
    ASSUME IInv, NEW p \in Panels, register_patch_panel(p)
    PROVE  IInv'
<1>1. /\ UNCHANGED <<cards, locations, leases, events, artifacts, idempotency, tx, requests, now>>
      /\ panels \subseteq panels' /\ panels' \subseteq panels \union {p}
  BY DEF register_patch_panel
<1>2. TypeOK'
  BY <1>1 DEF IInv, TypeOK
<1>3. Tables' /\ NoCardDisappears' /\ EvidenceEndsAtLocation' /\ Dated'
  BY <1>1 DEF IInv, Tables, CardTable, LocationTable, LeaseTable, NoCardDisappears,
              EvidenceEndsAtLocation, ActiveLocations, Dated
<1>4. \A s \in Session : TxOK(tx[s])'
  <2> SUFFICES ASSUME NEW s \in Session PROVE TxOK(tx[s])'
    OBVIOUS
  <2>1. PICK t : t = tx[s]
    OBVIOUS
  <2>2. TxOK(t)
    BY <2>1 DEF IInv, TxsOK
  <2> QED BY <1>1, <2>1, <2>2
          DEF TxOK, Running, Named, Routed, Stamped, Latest, Reserved
<1>5. TxsOK'
  BY <1>1, <1>4 DEF IInv, TxsOK
<1> QED BY <1>2, <1>3, <1>5 DEF IInv

\* The passing of time, and steps that change nothing.
LEMMA ClockStep ==
    ASSUME IInv, UNCHANGED <<tables, tx, requests>>, now' \in 0..MaxTime
    PROVE  IInv'
<1> USE DEF tables
<1>1. TypeOK'
  BY DEF IInv, TypeOK
<1>2. Tables' /\ NoCardDisappears' /\ EvidenceEndsAtLocation' /\ Dated'
  BY DEF IInv, Tables, CardTable, LocationTable, LeaseTable, NoCardDisappears,
         EvidenceEndsAtLocation, ActiveLocations, Dated
<1>3. \A s \in Session : TxOK(tx[s])'
  <2> SUFFICES ASSUME NEW s \in Session PROVE TxOK(tx[s])'
    OBVIOUS
  <2>1. PICK t : t = tx[s]
    OBVIOUS
  <2>2. TxOK(t)
    BY <2>1 DEF IInv, TxsOK
  <2> QED BY <2>1, <2>2
          DEF TxOK, Running, Named, Routed, Stamped, Latest, Reserved
<1>4. TxsOK'
  BY <1>3 DEF IInv, TxsOK
<1> QED BY <1>1, <1>2, <1>4 DEF IInv

\* The sweep begins with a read of the clock.
LEMMA ExpireLeasesStep ==
    ASSUME IInv, NEW s \in Session, expire_leases(s)
    PROVE  IInv'
<1>1. PICK t : t = [NoTx EXCEPT !.expires = now]
  OBVIOUS
<1>2. /\ IsTx(t) /\ t.rows = {} /\ t.route = {} /\ t.exits = {} /\ t.seen = {}
      /\ t.stamp \in Nat
  BY <1>1 DEF IsTx, NoTx
<1>3. begin(s, "expire_leases", None, t)
  BY <1>1 DEF expire_leases
<1>4. "expire_leases" \in Operation /\ "expire_leases" \notin OnLease
  BY DEF Operation, Program, OnLease
<1> QED BY <1>2, <1>3, <1>4, BeginStep

\* The empty database satisfies the invariant.
LEMMA InitialStates == Init => IInv
<1> SUFFICES ASSUME Init PROVE IInv
  OBVIOUS
<1>1. TypeOK /\ NoCardDisappears /\ EvidenceEndsAtLocation
  BY BoundsAssumption DEF Init, TypeOK, NoCardDisappears, EvidenceEndsAtLocation
<1>2. IsSequence(<< >>)
  BY DEF IsSequence, Elements
<1>3. Tables
  BY <1>2 DEF Init, Tables, CardTable, LocationTable, LeaseTable
<1>4. TxsOK
  BY NoTxOK DEF Init, TxsOK, Others
<1>5. Dated
  <2>1. (\A e \in events : e.n <= 0) /\ \A s \in Session : tx[s].stamp <= 0
    BY DEF Init, NoTx
  <2> QED BY <2>1 DEF Dated
<1> QED BY <1>1, <1>3, <1>4, <1>5 DEF IInv

\* Every registration, request, statement, commit, rollback and tick keeps it.
LEMMA NextStep == IInv /\ [Next]_vars => IInv'
<1> SUFFICES ASSUME IInv, [Next]_vars PROVE IInv'
  OBVIOUS
<1>1. ASSUME NEW p \in Panels, register_patch_panel(p) PROVE IInv'
  BY <1>1, RegisterStep
<1>2. ASSUME NEW s \in Session, Request(s) PROVE IInv'
  BY <1>2, RequestStep
<1>3. ASSUME NEW s \in Session, expire_leases(s) PROVE IInv'
  BY <1>3, ExpireLeasesStep
<1>4. ASSUME NEW s \in Session, Statement(s) PROVE IInv'
  BY <1>4, ReadsStep, LockCardStep, UpdateOverdueStep, ExitStep, PlaceStep, ReferStep,
     UpdateLeaseStep, StoreStep, CommitStep DEF Statement
<1>5. ASSUME NEW s \in Session, abort(s) PROVE IInv'
  BY <1>5, RollbackStep DEF abort
<1>6. CASE Tick
  <2>1. now' \in 0..MaxTime /\ UNCHANGED <<tables, tx, requests>>
    BY <1>6, BoundsAssumption DEF Tick, IInv, TypeOK
  <2> QED BY <2>1, ClockStep
<1>7. CASE UNCHANGED vars
  <2>1. now' \in 0..MaxTime /\ UNCHANGED <<tables, tx, requests>>
    BY <1>7 DEF vars, IInv, TypeOK
  <2> QED BY <2>1, ClockStep
<1> QED BY <1>1, <1>2, <1>3, <1>4, <1>5, <1>6, <1>7 DEF Next

\* The inductive invariant of the durable runtime, for any number of sessions,
\* panels, keys and rows.
THEOREM Invariant == Spec => []IInv
BY InitialStates, NextStep, PTL DEF Spec

\* The rows of the tables keep their references, whatever transactions
\* interleave: every card is of a registered panel, every location, lease and
\* event of a card, and only keys of requests have a record.
THEOREM TypeCorrect == Spec => []TypeOK
<1>1. IInv => TypeOK
  BY DEF IInv
<1> QED BY <1>1, Invariant, PTL

\* No card disappears, for any number of sessions: the row lock of
\* _move_card_row and the exits of the card's own locations suffice.
THEOREM CardsNeverDisappear == Spec => []NoCardDisappears
<1>1. IInv => NoCardDisappears
  BY DEF IInv
<1> QED BY <1>1, Invariant, PTL

\* The last event that names a bucket names the one the card is in, although
\* events are dated before they commit.
THEOREM EvidenceEnds == Spec => []EvidenceEndsAtLocation
<1>1. IInv => EvidenceEndsAtLocation
  BY DEF IInv
<1> QED BY <1>1, Invariant, PTL

\* Of concurrent requests with one key at most one takes effect: once a key has
\* a record, no step of any session replaces it.
THEOREM KeysKeepTheirAnswer == Spec => KeyKeepsItsAnswer
<1> DEFINE Keeps == \A k \in DOMAIN idempotency :
                       k \in DOMAIN idempotency' /\ idempotency'[k] = idempotency[k]
<1>1. ASSUME IInv, [Next]_vars PROVE Keeps
  <2>1. ASSUME NEW s \in Session, commit(s) PROVE Keeps
    BY <1>1, <2>1, CommitKeys
  <2>2. CASE idempotency' = idempotency
    BY <2>2
  <2>3. (\E s \in Session : commit(s)) \/ idempotency' = idempotency
    <3>1. ASSUME NEW s, ran(s, tx[s]) \/ rollback(s) \/ UNCHANGED tables
          PROVE  idempotency' = idempotency
      BY <3>1 DEF ran, rollback, tables
    <3>2. ASSUME NEW s, NEW t, ran(s, t) \/ wrote(s, t) PROVE idempotency' = idempotency
      BY <3>2 DEF ran, wrote, tables
    <3>3. ASSUME NEW s, NEW op, NEW k, NEW t, begin(s, op, k, t)
          PROVE  idempotency' = idempotency
      BY <3>3 DEF begin, tables
    <3>4. ASSUME NEW s, Request(s) \/ expire_leases(s) PROVE idempotency' = idempotency
      BY <3>3, <3>4, Zenon
         DEF Request, expire_leases, create_card, claim_card, submit_artifact, renew_lease,
             release_lease, move_card, validate_card, record_event
    <3>5. ASSUME NEW s, Statement(s), ~commit(s) PROVE idempotency' = idempotency
      <4>1. CASE read_lease(s) \/ read_card(s) \/ select_card(s) \/ select_overdue(s)
        BY <3>1, <3>2, <4>1, Zenon DEF read_lease, read_card, select_card, select_overdue
      <4>2. CASE lock_card(s)
        BY <3>1, <3>2, <4>2 DEF lock_card, tables
      <4>3. CASE update_overdue(s)
        BY <3>1, <4>3 DEF update_overdue, tables
      <4>4. CASE select_locations(s) \/ exit_locations(s) \/ place_card(s) \/ refer_to_card(s)
                    \/ update_lease(s) \/ store_idempotency(s)
        BY <3>1, <3>2, <4>4, Zenon DEF select_locations, exit_locations, place_card,
                                       refer_to_card, update_lease, store_idempotency
      <4> QED BY <3>5, <4>1, <4>2, <4>3, <4>4 DEF Statement
    <3> QED BY <1>1, <3>1, <3>4, <3>5 DEF Next, vars, tables, register_patch_panel, abort, Tick
  <2> QED BY <2>1, <2>2, <2>3
<1>2. IInv /\ [Next]_vars => [Keeps]_vars
  BY <1>1
<1> QED BY <1>2, Invariant, PTL DEF Spec, KeyKeepsItsAnswer
=============================================================================
