----------------------------- MODULE LeaseStore -----------------------------
(***************************************************************************)
(* PostgresLeaseStore (runtime/sqlalchemy_store.py): leases kept in         *)
(* Postgres, acquired by concurrent sessions.  acquire_lease is a           *)
(* transaction of five statements under READ COMMITTED, one action each:    *)
(*                                                                         *)
(*   begin_acquire     read the idempotency record of the key;              *)
(*   lock_card         SELECT ... FOR UPDATE on the row of the card, which   *)
(*                     waits for the session that holds it;                 *)
(*   check_active      look for an active lease among the committed rows;   *)
(*   insert_lease      insert the lease, visible to nobody else yet;        *)
(*   store_idempotency insert the record of the key, which waits for an     *)
(*                     uncommitted record of the same key;                  *)
(*                                                                         *)
(* then commit.  abort is what an exception, a lost connection or a crash   *)
(* of the client does to the transaction at any point.  Postgres is         *)
(* external; it is modelled by its row locks, its unique keys and the       *)
(* visibility of committed rows.                                            *)
(***************************************************************************)
EXTENDS Integers, Sequences, FiniteSets

CONSTANTS
    None,          \* no key, no session, no card
    Card,          \* the rows of the cards table
    Session,       \* concurrent database sessions
    Key,           \* idempotency keys
    LeaseSeconds,  \* requested durations
    MaxLeases, MaxTime  \* bounds

ASSUME StoreConstants ==
    /\ None \notin Key \union Session \union Card
    /\ LeaseSeconds \subseteq Int
    /\ MaxLeases \in Nat
    /\ MaxTime \in Nat

VARIABLES
    leases,        \* committed rows of the leases table
    idempotency,   \* committed rows of idempotency_records: key -> lease
    lock,          \* the session that holds the lock on a card row
    tx,            \* the open transaction of each session
    now            \* datetime.now(UTC), read by the clients

vars == <<leases, idempotency, lock, tx, now>>

-----------------------------------------------------------------------------
Expiry == { t + s : t \in 0..MaxTime, s \in LeaseSeconds }

Lease == [card : Card, expires : Expiry, released : BOOLEAN]

\* Where a transaction stands: before the statement it is named after.
Stage == {"idle", "lock", "check", "insert", "store", "commit"}

Tx == [stage : Stage, card : Card \union {None}, key : Key \union {None}, expires : Int]

NoTx == [stage |-> "idle", card |-> None, key |-> None, expires |-> 0]

at(s, stage) == tx[s].stage = stage

ActiveLease(l) == ~leases[l].released /\ leases[l].expires > now

\* The end of a transaction gives back its row lock.
unlock(s) == lock' = [c \in Card |-> IF lock[c] = s THEN None ELSE lock[c]]

rollback(s) ==
    /\ tx' = [tx EXCEPT ![s] = NoTx]
    /\ unlock(s)
    /\ UNCHANGED <<leases, idempotency, now>>

advance(s, stage) == tx' = [tx EXCEPT ![s].stage = stage]

-----------------------------------------------------------------------------
Init ==
    /\ leases = << >>
    /\ idempotency = << >>
    /\ lock = [c \in Card |-> None]
    /\ tx = [s \in Session |-> NoTx]
    /\ now = 0

\* The leases there are and the ones that may come of open transactions.
Requested == Len(leases) + Cardinality({ s \in Session : ~at(s, "idle") })

\* A key with a committed record answers its lease: no step.
begin_acquire(s, c, k) ==
    /\ at(s, "idle")
    /\ k \notin DOMAIN idempotency
    /\ Requested < MaxLeases
    /\ tx' = [tx EXCEPT ![s].stage = "lock", ![s].card = c, ![s].key = k]
    /\ UNCHANGED <<leases, idempotency, lock, now>>

\* Mutant: the row is read without FOR UPDATE.
read_card(s) ==
    /\ at(s, "lock")
    /\ advance(s, "check")
    /\ UNCHANGED <<leases, idempotency, lock, now>>

lock_card(s) ==
    /\ at(s, "lock")
    /\ lock[tx[s].card] = None
    /\ lock' = [lock EXCEPT ![tx[s].card] = s]
    /\ advance(s, "check")
    /\ UNCHANGED <<leases, idempotency, now>>

\* Raises ConflictError when the card has an active lease.
check_active(s) ==
    /\ at(s, "check")
    /\ IF \E l \in DOMAIN leases : leases[l].card = tx[s].card /\ ActiveLease(l)
       THEN rollback(s)
       ELSE advance(s, "insert") /\ UNCHANGED <<leases, idempotency, lock, now>>

insert_lease(s, seconds) ==
    /\ at(s, "insert")
    /\ tx' = [tx EXCEPT ![s].expires = now + seconds,
                        ![s].stage = IF tx[s].key = None THEN "commit" ELSE "store"]
    /\ UNCHANGED <<leases, idempotency, lock, now>>

\* Another session has inserted a record of the key and not committed it.
KeyPending(s) == \E r \in Session \ {s} : at(r, "commit") /\ tx[r].key = tx[s].key

\* Mutant: there is no unique key to violate.
store_always(s) ==
    /\ at(s, "store")
    /\ advance(s, "commit")
    /\ UNCHANGED <<leases, idempotency, lock, now>>

\* The unique key raises IntegrityError, and then ConflictError, when a record
\* was committed since begin_acquire.
store_idempotency(s) ==
    /\ at(s, "store")
    /\ ~KeyPending(s)
    /\ IF tx[s].key \in DOMAIN idempotency
       THEN rollback(s)
       ELSE advance(s, "commit") /\ UNCHANGED <<leases, idempotency, lock, now>>

\* The key of the record the transaction inserted, if it did; the mutant
\* inserts one for a request without a key.
any_record(s) == {tx[s].key}

new_record(s) == {tx[s].key} \ {None}

commit(s) ==
    /\ at(s, "commit")
    /\ leases' = Append(leases, [card |-> tx[s].card, expires |-> tx[s].expires,
                                 released |-> FALSE])
    /\ idempotency' = [k \in DOMAIN idempotency \union new_record(s) |->
                         IF k = tx[s].key THEN Len(leases') ELSE idempotency[k]]
    /\ tx' = [tx EXCEPT ![s] = NoTx]
    /\ unlock(s)
    /\ UNCHANGED now

\* Mutant: a failed statement forgets the transaction but not its row lock.
abort_locked(s) ==
    /\ ~at(s, "idle")
    /\ tx' = [tx EXCEPT ![s] = NoTx]
    /\ UNCHANGED <<leases, idempotency, lock, now>>

abort(s) == ~at(s, "idle") /\ rollback(s)

\* A transaction of one UPDATE; a lease that has ended raises NotFoundError.
release_lease(l) ==
    /\ ~leases[l].released
    /\ leases' = [leases EXCEPT ![l].released = TRUE]
    /\ UNCHANGED <<idempotency, lock, tx, now>>

Tick ==
    /\ now < MaxTime
    /\ now' = now + 1
    /\ UNCHANGED <<leases, idempotency, lock, tx>>

Step(s) ==
    \/ check_active(s)
    \/ \E seconds \in LeaseSeconds : insert_lease(s, seconds)
    \/ store_idempotency(s)
    \/ commit(s)

Next ==
    \/ \E s \in Session :
          \/ \E c \in Card, k \in Key \union {None} : begin_acquire(s, c, k)
          \/ lock_card(s)
          \/ Step(s)
          \/ abort(s)
    \/ \E l \in DOMAIN leases : release_lease(l)
    \/ Tick

Spec == Init /\ [][Next]_vars

\* The statements of an open transaction are executed, unless they wait, and
\* Postgres serves those who wait for a row lock or for a key in turn.
FairSpec ==
    /\ Spec
    /\ \A s \in Session : /\ WF_vars(Step(s))
                          /\ SF_vars(lock_card(s))
                          /\ SF_vars(store_idempotency(s))

-----------------------------------------------------------------------------
(* Properties.                                                              *)

\* Types of the tables and of the open transactions.
TypeOK ==
    /\ leases \in Seq(Lease)
    /\ DOMAIN idempotency \subseteq Key
    /\ \A k \in DOMAIN idempotency : idempotency[k] \in DOMAIN leases
    /\ lock \in [Card -> Session \union {None}]
    /\ tx \in [Session -> Tx]
    /\ now \in 0..MaxTime

\* At no instant are two committed leases of a card active, however the
\* statements of the sessions that acquire them interleave.
ExclusiveLease ==
    \A l, m \in DOMAIN leases :
        ActiveLease(l) /\ ActiveLease(m) /\ leases[l].card = leases[m].card => l = m

\* The store does what the protocol promises, with the commit of acquire_lease
\* as the instant at which the lease is granted.
Service == INSTANCE LeaseService

ImplementsLeaseService == Service!Spec

\* A key, once answered, is never answered with another lease: retries of a
\* request, concurrent ones too, acquire one lease at most.
KeyKeepsItsLease ==
    [][\A k \in DOMAIN idempotency :
          k \in DOMAIN idempotency' /\ idempotency'[k] = idempotency[k]]_vars

\* Every acquire_lease returns or raises: no two sessions wait for each other.
EveryAcquireEnds == \A s \in Session : ~at(s, "idle") ~> at(s, "idle")
=============================================================================
