-------------------------- MODULE LeaseStoreProofs --------------------------
(***************************************************************************)
(* Proofs about LeaseStore for every number of sessions, cards and keys:    *)
(* the store implements LeaseService, leases are exclusive, and a key keeps *)
(* the lease it was answered with.                                          *)
(***************************************************************************)
EXTENDS LeaseStore, SequenceTheorems, TLAPS

\* The parts of the inductive invariant that no run checks by name.  A
\* transaction past lock_card holds the row of its card;
Locking ==
    \A s \in Session :
        /\ ~at(s, "idle") => tx[s].card \in Card
        /\ tx[s].stage \in {"check", "insert", "store", "commit"} => lock[tx[s].card] = s

\* past check_active, its card has no active lease, since only a transaction
\* that holds the row could add one;
Cleared ==
    \A s \in Session : tx[s].stage \in {"insert", "store", "commit"} =>
        \A l \in DOMAIN leases : leases[l].card = tx[s].card => ~ActiveLease(l)

\* past insert_lease, it has an expiry to commit;
Planned == \A s \in Session : tx[s].stage \in {"store", "commit"} => tx[s].expires \in Expiry

\* past store_idempotency, nobody else has or can commit its key.
KeyReserved ==
    \A s \in Session :
        /\ at(s, "store") => tx[s].key \in Key
        /\ at(s, "commit") => tx[s].key \notin DOMAIN idempotency
        /\ \A r \in Session \ {s} : at(s, "commit") /\ at(r, "commit") /\ tx[r].key = tx[s].key
                                     => tx[s].key = None

IInv == TypeOK /\ Locking /\ Cleared /\ Planned /\ KeyReserved

-----------------------------------------------------------------------------
\* No transaction is open and no row is locked at the start.
LEMMA InvInit == Init => IInv
<1> SUFFICES ASSUME Init PROVE IInv
  OBVIOUS
<1>1. NoTx \in Tx
  BY DEF NoTx, Tx, Stage
<1>2. \A s \in Session : tx[s].stage = "idle"
  BY DEF Init, NoTx
<1>3. TypeOK
  BY <1>1, StoreConstants DEF Init, TypeOK
<1> QED BY <1>2, <1>3 DEF IInv, Locking, Cleared, Planned, KeyReserved, at

\* The end of a transaction, by rollback or abort, keeps the invariant: it
\* frees the rows of its own session only.
LEMMA InvRollback ==
    ASSUME IInv, NEW s \in Session, rollback(s)
    PROVE  IInv'
<1> USE DEF IInv
<1>1. NoTx \in Tx /\ NoTx.stage = "idle"
  BY DEF NoTx, Tx, Stage
<1>2. /\ tx' = [tx EXCEPT ![s] = NoTx]
      /\ lock' = [c \in Card |-> IF lock[c] = s THEN None ELSE lock[c]]
      /\ leases' = leases /\ idempotency' = idempotency /\ now' = now
  BY DEF rollback, unlock
<1> HIDE DEF NoTx
<1>3. TypeOK'
  BY <1>1, <1>2 DEF TypeOK
<1>4. tx'[s].stage = "idle" /\ \A r \in Session \ {s} : tx'[r] = tx[r]
  BY <1>1, <1>2 DEF TypeOK
<1>5. Locking'
  BY <1>2, <1>4 DEF Locking, at
<1>6. Cleared'
  BY <1>2, <1>4 DEF Cleared, ActiveLease
<1>7. Planned' /\ KeyReserved'
  BY <1>2, <1>4 DEF Planned, KeyReserved, at
<1> QED BY <1>3, <1>5, <1>6, <1>7

\* begin_acquire opens a transaction that claims nothing yet.
LEMMA InvBegin ==
    ASSUME IInv, NEW s \in Session, NEW c \in Card, NEW k \in Key \union {None},
           begin_acquire(s, c, k)
    PROVE  IInv'
<1> USE DEF IInv
<1> DEFINE new == [tx[s] EXCEPT !.stage = "lock", !.card = c, !.key = k]
<1>1. tx[s] \in Tx
  BY DEF TypeOK
<1>2. new \in Tx /\ new.stage = "lock" /\ new.card = c
  BY <1>1 DEF Tx, Stage
<1>3. tx' = [tx EXCEPT ![s] = new] /\ UNCHANGED <<leases, idempotency, lock, now>>
  BY DEF begin_acquire
<1> HIDE DEF new
<1>4. tx'[s] = new /\ \A r \in Session \ {s} : tx'[r] = tx[r]
  BY <1>3 DEF TypeOK
<1>5. TypeOK'
  BY <1>2, <1>3 DEF TypeOK
<1>6. Locking'
  BY <1>2, <1>3, <1>4 DEF Locking, at
<1>7. Cleared'
  BY <1>2, <1>3, <1>4 DEF Cleared, ActiveLease
<1>8. Planned' /\ KeyReserved'
  BY <1>2, <1>3, <1>4 DEF Planned, KeyReserved, at
<1> QED BY <1>5, <1>6, <1>7, <1>8

\* What advance does to the transactions.
LEMMA Advanced ==
    ASSUME TypeOK, NEW s \in Session, NEW stage \in Stage, advance(s, stage)
    PROVE  /\ tx' \in [Session -> Tx]
           /\ tx'[s] = [tx[s] EXCEPT !.stage = stage]
           /\ tx'[s].stage = stage
           /\ tx'[s].card = tx[s].card /\ tx'[s].key = tx[s].key
           /\ tx'[s].expires = tx[s].expires
           /\ \A r \in Session \ {s} : tx'[r] = tx[r]
<1> DEFINE new == [tx[s] EXCEPT !.stage = stage]
<1>1. tx[s] \in Tx
  BY DEF TypeOK
<1>2. new \in Tx /\ new.stage = stage /\ new.card = tx[s].card
      /\ new.key = tx[s].key /\ new.expires = tx[s].expires
  BY <1>1 DEF Tx
<1>3. tx' = [tx EXCEPT ![s] = new]
  BY DEF advance
<1>4. tx'[s] = new
  BY <1>3 DEF TypeOK
<1> HIDE DEF new
<1>5. tx' \in [Session -> Tx] /\ \A r \in Session \ {s} : tx'[r] = tx[r]
  BY <1>2, <1>3 DEF TypeOK
<1> QED BY <1>2, <1>4, <1>5 DEF new

\* lock_card takes a row that nobody holds.
LEMMA InvLock ==
    ASSUME IInv, NEW s \in Session, lock_card(s)
    PROVE  IInv'
<1> USE DEF IInv
<1>1. /\ tx[s].stage = "lock" /\ tx[s].card \in Card /\ lock[tx[s].card] = None
      /\ lock' = [lock EXCEPT ![tx[s].card] = s]
      /\ advance(s, "check")
      /\ UNCHANGED <<leases, idempotency, now>>
  BY DEF lock_card, at, Locking
<1>2. /\ tx' \in [Session -> Tx] /\ tx'[s].stage = "check" /\ tx'[s].card = tx[s].card
      /\ \A r \in Session \ {s} : tx'[r] = tx[r]
  BY <1>1, Advanced DEF Stage
<1>3. lock' \in [Card -> Session \union {None}] /\ lock'[tx[s].card] = s
      /\ \A c \in Card : c # tx[s].card => lock'[c] = lock[c]
  BY <1>1 DEF TypeOK
<1>4. TypeOK'
  BY <1>1, <1>2, <1>3 DEF TypeOK
<1>5. Locking'
  BY <1>1, <1>2, <1>3, StoreConstants DEF Locking, at
<1>6. Cleared'
  BY <1>1, <1>2 DEF Cleared, ActiveLease
<1>7. Planned' /\ KeyReserved'
  BY <1>1, <1>2 DEF Planned, KeyReserved, at
<1> QED BY <1>4, <1>5, <1>6, <1>7

\* check_active passes only a transaction whose card has no active lease.
LEMMA InvCheck ==
    ASSUME IInv, NEW s \in Session, check_active(s)
    PROVE  IInv'
<1> USE DEF IInv
<1>1. CASE rollback(s)
  BY <1>1, InvRollback
<1>2. CASE ~rollback(s)
  <2>1. /\ tx[s].stage = "check"
        /\ \A l \in DOMAIN leases : leases[l].card = tx[s].card => ~ActiveLease(l)
        /\ advance(s, "insert")
        /\ UNCHANGED <<leases, idempotency, lock, now>>
    BY <1>2 DEF check_active, at
  <2>2. /\ tx' \in [Session -> Tx] /\ tx'[s].stage = "insert" /\ tx'[s].card = tx[s].card
        /\ \A r \in Session \ {s} : tx'[r] = tx[r]
    BY <2>1, Advanced DEF Stage
  <2>3. TypeOK'
    BY <2>1, <2>2 DEF TypeOK
  <2>4. Locking'
    BY <2>1, <2>2 DEF Locking, at
  <2>5. Cleared'
    BY <2>1, <2>2 DEF Cleared, ActiveLease
  <2>6. Planned' /\ KeyReserved'
    BY <2>1, <2>2 DEF Planned, KeyReserved, at
  <2> QED BY <2>3, <2>4, <2>5, <2>6
<1> QED BY <1>1, <1>2

\* insert_lease decides the expiry of the lease.
LEMMA InvInsert ==
    ASSUME IInv, NEW s \in Session, NEW seconds \in LeaseSeconds, insert_lease(s, seconds)
    PROVE  IInv'
<1> USE DEF IInv
<1> DEFINE stage == IF tx[s].key = None THEN "commit" ELSE "store"
           new == [tx[s] EXCEPT !.expires = now + seconds, !.stage = stage]
<1>1. tx[s] \in Tx /\ now + seconds \in Int /\ tx[s].stage = "insert"
  BY StoreConstants DEF TypeOK, insert_lease, at
<1>2. now + seconds \in Expiry
  BY DEF Expiry, TypeOK
<1>3. new \in Tx /\ new.stage = stage /\ new.card = tx[s].card
      /\ new.key = tx[s].key /\ new.expires = now + seconds
  BY <1>1 DEF Tx, Stage
<1>4. tx' = [tx EXCEPT ![s] = new] /\ UNCHANGED <<leases, idempotency, lock, now>>
  BY DEF insert_lease
<1> HIDE DEF new
<1>5. tx' \in [Session -> Tx] /\ tx'[s] = new /\ \A r \in Session \ {s} : tx'[r] = tx[r]
  BY <1>3, <1>4 DEF TypeOK
<1>6. TypeOK'
  BY <1>4, <1>5 DEF TypeOK
<1>7. Locking'
  BY <1>1, <1>3, <1>4, <1>5 DEF Locking, at
<1>8. Cleared'
  BY <1>1, <1>3, <1>4, <1>5 DEF Cleared, ActiveLease
<1>9. Planned'
  BY <1>2, <1>3, <1>4, <1>5 DEF Planned
<1>10. KeyReserved'
  <2>1. tx[s].key \in Key \union {None}
    BY <1>1 DEF Tx
  <2>2. None \notin DOMAIN idempotency
    BY StoreConstants DEF TypeOK
  <2> QED BY <1>3, <1>4, <1>5, <2>1, <2>2 DEF KeyReserved, at
<1> QED BY <1>6, <1>7, <1>8, <1>9, <1>10

\* store_idempotency passes only one transaction per key.
LEMMA InvStore ==
    ASSUME IInv, NEW s \in Session, store_idempotency(s)
    PROVE  IInv'
<1> USE DEF IInv
<1>1. CASE rollback(s)
  BY <1>1, InvRollback
<1>2. CASE ~rollback(s)
  <2>1. /\ tx[s].stage = "store"
        /\ ~KeyPending(s)
        /\ tx[s].key \notin DOMAIN idempotency
        /\ advance(s, "commit")
        /\ UNCHANGED <<leases, idempotency, lock, now>>
    BY <1>2 DEF store_idempotency, at
  <2>2. /\ tx' \in [Session -> Tx] /\ tx'[s].stage = "commit" /\ tx'[s].card = tx[s].card
        /\ tx'[s].key = tx[s].key /\ tx'[s].expires = tx[s].expires
        /\ \A r \in Session \ {s} : tx'[r] = tx[r]
    BY <2>1, Advanced DEF Stage
  <2>3. TypeOK'
    BY <2>1, <2>2 DEF TypeOK
  <2>4. Locking'
    BY <2>1, <2>2 DEF Locking, at
  <2>5. Cleared'
    BY <2>1, <2>2 DEF Cleared, ActiveLease
  <2>6. Planned'
    BY <2>1, <2>2 DEF Planned
  <2>7. KeyReserved'
    BY <2>1, <2>2 DEF KeyReserved, KeyPending, at
  <2> QED BY <2>3, <2>4, <2>5, <2>6, <2>7
<1> QED BY <1>1, <1>2

\* What commit does: the lease becomes the last row, and its session, which
\* held the row of the card, gives it back.
LEMMA Committed ==
    ASSUME IInv, NEW s \in Session, commit(s)
    PROVE  /\ tx[s].stage = "commit" /\ tx[s].card \in Card /\ lock[tx[s].card] = s
           /\ leases \in Seq(Lease) /\ leases' \in Seq(Lease)
           /\ Len(leases) \in Nat /\ Len(leases') = Len(leases) + 1
           /\ leases' = Append(leases, [card |-> tx[s].card, expires |-> tx[s].expires,
                                        released |-> FALSE])
           /\ DOMAIN leases' = DOMAIN leases \union {Len(leases')}
           /\ Len(leases') \notin DOMAIN leases
           /\ leases'[Len(leases')].card = tx[s].card
           /\ \A l \in DOMAIN leases : leases'[l] = leases[l]
<1> USE DEF IInv
<1> DEFINE new == [card |-> tx[s].card, expires |-> tx[s].expires, released |-> FALSE]
<1>1. tx[s].stage = "commit" /\ tx[s].card \in Card /\ lock[tx[s].card] = s
      /\ tx[s].expires \in Expiry
  BY DEF commit, at, Locking, Planned
<1>2. new \in Lease /\ new.card = tx[s].card
  BY <1>1 DEF Lease
<1>3. leases' = Append(leases, new) /\ leases \in Seq(Lease)
  BY DEF commit, TypeOK
<1> HIDE DEF new
<1>4. /\ leases' \in Seq(Lease) /\ Len(leases) \in Nat /\ Len(leases') = Len(leases) + 1
      /\ DOMAIN leases' = DOMAIN leases \union {Len(leases')}
      /\ Len(leases') \notin DOMAIN leases
      /\ leases'[Len(leases')] = new
      /\ \A l \in DOMAIN leases : leases'[l] = leases[l]
  BY <1>2, <1>3
<1> QED BY <1>1, <1>2, <1>3, <1>4 DEF new

\* commit keeps the invariant: the only transactions past check_active on the
\* card would hold its row.
LEMMA InvCommit ==
    ASSUME IInv, NEW s \in Session, commit(s)
    PROVE  IInv'
<1> USE DEF IInv
<1>1. NoTx \in Tx /\ NoTx.stage = "idle"
  BY DEF NoTx, Tx, Stage
<1>2. /\ tx' = [tx EXCEPT ![s] = NoTx]
      /\ lock' = [c \in Card |-> IF lock[c] = s THEN None ELSE lock[c]]
      /\ idempotency' = [k \in DOMAIN idempotency \union new_record(s) |->
                           IF k = tx[s].key THEN Len(leases') ELSE idempotency[k]]
      /\ now' = now
  BY DEF commit, unlock
<1> HIDE DEF NoTx
<1>3. tx' \in [Session -> Tx] /\ tx'[s].stage = "idle" /\ \A r \in Session \ {s} : tx'[r] = tx[r]
  BY <1>1, <1>2 DEF TypeOK
<1>4. TypeOK'
  <2>1. new_record(s) \subseteq Key
    BY DEF new_record, TypeOK, Tx
  <2>2. \A k \in DOMAIN idempotency' : idempotency'[k] \in DOMAIN leases'
    BY <1>2, Committed DEF TypeOK, new_record
  <2>3. lock' \in [Card -> Session \union {None}]
    BY <1>2 DEF TypeOK
  <2> QED BY <1>2, <1>3, <2>1, <2>2, <2>3, Committed DEF TypeOK
<1>5. Locking'
  BY <1>2, <1>3 DEF Locking, at
<1>6. Cleared'
  <2> SUFFICES ASSUME NEW r \in Session, tx'[r].stage \in {"insert", "store", "commit"},
                      NEW l \in DOMAIN leases', leases'[l].card = tx'[r].card
               PROVE  ~ActiveLease(l)'
    BY DEF Cleared
  <2>1. r # s /\ tx'[r] = tx[r]
    BY <1>3
  <2>2. lock[tx[r].card] = r
    BY <2>1 DEF Locking
  <2>3. tx[r].card # tx[s].card
    BY <2>1, <2>2, Committed
  <2>4. l \in DOMAIN leases /\ leases'[l] = leases[l]
    BY <2>1, <2>3, Committed
  <2>5. ~ActiveLease(l)
    BY <2>1, <2>4 DEF Cleared
  <2> QED BY <1>2, <2>4, <2>5 DEF ActiveLease
<1>7. Planned'
  BY <1>3 DEF Planned
<1>8. KeyReserved'
  <2>1. \A r \in Session \ {s} : at(r, "commit") => tx[r].key \notin new_record(s)
    BY Committed DEF KeyReserved, at, new_record
  <2> QED BY <1>2, <1>3, <2>1 DEF KeyReserved, at
<1> QED BY <1>4, <1>5, <1>6, <1>7, <1>8

\* release_lease ends a lease that has not ended; nothing becomes active.
LEMMA InvRelease ==
    ASSUME IInv, NEW l \in DOMAIN leases, release_lease(l)
    PROVE  IInv'
<1> USE DEF IInv
<1> DEFINE new == [leases[l] EXCEPT !.released = TRUE]
<1>1. leases[l] \in Lease /\ leases \in Seq(Lease)
  BY DEF TypeOK
<1>2. new \in Lease /\ new.card = leases[l].card /\ new.released
  BY <1>1 DEF Lease
<1>3. leases' = [leases EXCEPT ![l] = new] /\ UNCHANGED <<idempotency, lock, tx, now>>
  BY DEF release_lease
<1> HIDE DEF new
<1>4. leases' \in Seq(Lease) /\ DOMAIN leases' = DOMAIN leases
  BY <1>1, <1>2, <1>3, ExceptSeq
<1>5. \A m \in DOMAIN leases : leases'[m].card = leases[m].card /\ (ActiveLease(m)' => ActiveLease(m))
  BY <1>1, <1>2, <1>3 DEF ActiveLease
<1>6. TypeOK'
  BY <1>3, <1>4 DEF TypeOK
<1>7. Cleared'
  BY <1>3, <1>4, <1>5 DEF Cleared
<1>8. Locking' /\ Planned' /\ KeyReserved'
  BY <1>3 DEF Locking, Planned, KeyReserved, at
<1> QED BY <1>6, <1>7, <1>8

\* The expiries of committed leases are integers.
LEMMA ExpiresInt ==
    ASSUME TypeOK, NEW l \in DOMAIN leases
    PROVE  leases[l].expires \in Int
<1>1. Expiry \subseteq Int
  BY StoreConstants DEF Expiry
<1>2. leases[l] \in Lease
  BY DEF TypeOK
<1>3. leases[l].expires \in Expiry
  BY <1>2 DEF Lease
<1> QED BY <1>1, <1>3

\* The passing of time ends leases and begins none.
LEMMA InvTick == IInv /\ Tick => IInv'
<1> SUFFICES ASSUME IInv, Tick PROVE IInv'
  OBVIOUS
<1> USE DEF IInv
<1>1. now \in Nat /\ now' = now + 1 /\ now' \in 0..MaxTime
      /\ UNCHANGED <<leases, idempotency, lock, tx>>
  BY StoreConstants DEF Tick, TypeOK
<1>2. \A l \in DOMAIN leases : ActiveLease(l)' => ActiveLease(l)
  <2>1. \A l \in DOMAIN leases : leases[l].expires \in Int
    BY ExpiresInt
  <2> QED BY <1>1, <2>1 DEF ActiveLease
<1>3. TypeOK'
  BY <1>1 DEF TypeOK
<1>4. Cleared'
  BY <1>1, <1>2 DEF Cleared
<1>5. Locking' /\ Planned' /\ KeyReserved'
  BY <1>1 DEF Locking, Planned, KeyReserved, at
<1> QED BY <1>3, <1>4, <1>5

\* The invariant is inductive.
LEMMA InvStep == IInv /\ [Next]_vars => IInv'
<1> SUFFICES ASSUME IInv, [Next]_vars PROVE IInv'
  OBVIOUS
<1>1. ASSUME NEW s \in Session, abort(s) PROVE IInv'
  BY <1>1, InvRollback DEF abort
<1>2. CASE UNCHANGED vars
  BY <1>2 DEF vars, IInv, TypeOK, Locking, Cleared, Planned, KeyReserved, ActiveLease, at
<1> QED BY <1>1, <1>2, InvBegin, InvLock, InvCheck, InvInsert, InvStore, InvCommit, InvRelease,
          InvTick DEF Next, Step

\* For all constants: the tables, locks and transactions stay well typed.
THEOREM TypeCorrect == Spec => []TypeOK
<1>1. IInv => TypeOK
  BY DEF IInv
<1> QED BY <1>1, InvInit, InvStep, PTL DEF Spec

-----------------------------------------------------------------------------
\* Apart from commits, releases and the clock, no step changes the leases.
LEMMA QuietStep ==
    ASSUME IInv, [Next]_vars,
           ~(\E s \in Session : commit(s)), ~(\E l \in DOMAIN leases : release_lease(l)), ~Tick
    PROVE  leases' = leases /\ now' = now /\ idempotency' = idempotency
<1>1. ASSUME NEW s \in Session, rollback(s)
      PROVE  leases' = leases /\ now' = now /\ idempotency' = idempotency
  BY <1>1 DEF rollback
<1> QED BY <1>1 DEF Next, Step, vars, begin_acquire, lock_card, check_active, insert_lease,
                    store_idempotency, abort

\* The commit of a transaction is the instant its lease is acquired.
LEMMA CommitRefines ==
    ASSUME IInv, NEW s \in Session, commit(s)
    PROVE  \E c \in Card, e \in Expiry : Service!Acquire(c, e)
<1>1. tx[s].card \in Card /\ tx[s].expires \in Expiry
  BY Committed DEF IInv, Planned
<1>2. \A l \in DOMAIN leases : leases[l].card = tx[s].card => ~Service!Active(l)
  BY Committed DEF IInv, Cleared, ActiveLease, Service!Active
<1>3. Service!Acquire(tx[s].card, tx[s].expires)
  BY <1>2, Committed DEF Service!Acquire, commit
<1> QED BY <1>1, <1>3

\* A release ends one lease.
LEMMA ReleaseRefines ==
    ASSUME IInv, NEW m \in DOMAIN leases, release_lease(m)
    PROVE  \E L \in SUBSET DOMAIN leases : Service!End(L)
<1>1. \A l \in DOMAIN leases : leases[l] \in Lease
  BY DEF IInv, TypeOK
<1>2. leases' = [l \in DOMAIN leases |-> [leases[l] EXCEPT !.released = @ \/ l \in {m}]]
  BY <1>1 DEF release_lease, Lease
<1>3. Service!End({m})
  BY <1>2 DEF Service!End, release_lease
<1> QED BY <1>3

\* For all constants: however the sessions interleave, abort and crash, what
\* the committed leases do is what LeaseService allows (ImplementsLeaseService).
THEOREM StoreKeepsPromises == Spec => ImplementsLeaseService
<1>1. Init => Service!Init
  BY DEF Init, Service!Init
<1>2. IInv /\ [Next]_vars => [Service!Next]_(Service!vars)
  <2> SUFFICES ASSUME IInv, [Next]_vars PROVE [Service!Next]_(Service!vars)
    OBVIOUS
  <2>1. CASE \E s \in Session : commit(s)
    BY <2>1, CommitRefines DEF Service!Next
  <2>2. CASE \E l \in DOMAIN leases : release_lease(l)
    BY <2>2, ReleaseRefines DEF Service!Next
  <2>3. CASE Tick
    BY <2>3 DEF Tick, Service!Next, Service!Tick
  <2>4. CASE leases' = leases /\ now' = now
    BY <2>4 DEF Service!vars
  <2> QED BY <2>1, <2>2, <2>3, <2>4, QuietStep
<1> QED BY <1>1, <1>2, InvInit, InvStep, PTL
        DEF Spec, ImplementsLeaseService, Service!Spec

\* For all constants: two committed leases of a card are never active at once
\* (ExclusiveLease).
THEOREM StoreIsExclusive == Spec => []ExclusiveLease
<1>1. Init => ExclusiveLease
  BY DEF Init, ExclusiveLease
<1>2. IInv /\ IInv' /\ ExclusiveLease /\ [Next]_vars => ExclusiveLease'
  <2> SUFFICES ASSUME IInv, IInv', ExclusiveLease, [Next]_vars PROVE ExclusiveLease'
    OBVIOUS
  <2>1. ASSUME NEW s \in Session, commit(s) PROVE ExclusiveLease'
    <3>1. \A l \in DOMAIN leases : ActiveLease(l)' => ActiveLease(l) /\ leases[l].card # tx[s].card
      BY <2>1, Committed DEF IInv, Cleared, ActiveLease, commit
    <3>0. \A i \in DOMAIN leases : leases'[i] = leases[i]
      BY <2>1, Committed
    <3> SUFFICES ASSUME NEW l \in DOMAIN leases', NEW m \in DOMAIN leases',
                        ActiveLease(l)', ActiveLease(m)', leases'[l].card = leases'[m].card
                 PROVE  l = m
      BY DEF ExclusiveLease
    <3>2. CASE l \in DOMAIN leases /\ m \in DOMAIN leases
      <4>1. leases[l].card = leases[m].card
        BY <3>0, <3>2
      <4> QED BY <3>1, <3>2, <4>1 DEF ExclusiveLease
    <3>3. CASE l \notin DOMAIN leases \/ m \notin DOMAIN leases
      <4>1. \A i \in DOMAIN leases' \ DOMAIN leases : i = Len(leases') /\ leases'[i].card = tx[s].card
        <5>1. /\ DOMAIN leases' = DOMAIN leases \union {Len(leases')}
              /\ leases'[Len(leases')].card = tx[s].card
          BY <2>1, Committed
        <5> QED BY <5>1, Zenon
      <4> QED BY <3>0, <3>1, <3>3, <4>1
    <3> QED BY <3>2, <3>3
  <2>2. ASSUME NEW m \in DOMAIN leases, release_lease(m) PROVE ExclusiveLease'
    <3>1. \A l \in DOMAIN leases : leases[l] \in Lease
      BY DEF IInv, TypeOK
    <3>2. DOMAIN leases' = DOMAIN leases
          /\ \A l \in DOMAIN leases : /\ leases'[l].card = leases[l].card
                                      /\ ActiveLease(l)' => ActiveLease(l)
      BY <2>2, <3>1 DEF release_lease, ActiveLease, Lease
    <3> QED BY <3>2 DEF ExclusiveLease
  <2>3. CASE Tick
    <3>1. \A l \in DOMAIN leases : leases[l].expires \in Int
      BY ExpiresInt DEF IInv
    <3>2. leases' = leases /\ \A l \in DOMAIN leases : ActiveLease(l)' => ActiveLease(l)
      BY <2>3, <3>1 DEF Tick, ActiveLease, IInv, TypeOK
    <3> QED BY <3>2 DEF ExclusiveLease
  <2>4. CASE leases' = leases /\ now' = now
    BY <2>4 DEF ExclusiveLease, ActiveLease
  <2> QED BY <2>1, <2>2, <2>3, <2>4, QuietStep
<1> QED BY <1>1, <1>2, InvInit, InvStep, PTL DEF Spec

\* For all constants: a key never answers another lease than its first
\* (KeyKeepsItsLease).
THEOREM KeysKeepTheirLease == Spec => KeyKeepsItsLease
<1>1. IInv /\ [Next]_vars => [\A k \in DOMAIN idempotency :
          k \in DOMAIN idempotency' /\ idempotency'[k] = idempotency[k]]_vars
  <2> SUFFICES ASSUME IInv, [Next]_vars, NEW k \in DOMAIN idempotency
               PROVE  k \in DOMAIN idempotency' /\ idempotency'[k] = idempotency[k]
    OBVIOUS
  <2>1. ASSUME NEW s \in Session, commit(s)
        PROVE  k \in DOMAIN idempotency' /\ idempotency'[k] = idempotency[k]
    <3>1. tx[s].key # k
      BY <2>1 DEF IInv, KeyReserved, commit
    <3> QED BY <2>1, <3>1 DEF commit
  <2>2. CASE idempotency' = idempotency
    BY <2>2
  <2>3. CASE (\E l \in DOMAIN leases : release_lease(l)) \/ Tick
    BY <2>3 DEF release_lease, Tick
  <2> QED BY <2>1, <2>2, <2>3, QuietStep
<1> QED BY <1>1, InvInit, InvStep, PTL DEF Spec, KeyKeepsItsLease
=============================================================================
