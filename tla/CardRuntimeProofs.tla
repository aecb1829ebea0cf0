------------------------- MODULE CardRuntimeProofs -------------------------
(***************************************************************************)
(* Proofs about CardRuntime for every value of its constants: type          *)
(* correctness, exclusive leases, the finality of ended leases, the         *)
(* refinement of LeaseService, the evidence in the histories, what claims   *)
(* hand out, and the answers of repeated requests.                          *)
(***************************************************************************)
EXTENDS CardRuntime, FiniteSetTheorems, SequenceTheorems, WellFoundedInduction, TLAPS

\* Least(S), the `next(...)` of the source, is a member of any nonempty set of
\* positions, and its least one.
LEMMA LeastOfNaturals ==
    ASSUME NEW S \in SUBSET Nat, S # {}
    PROVE  Least(S) \in S /\ \A j \in S : Least(S) <= j
<1> DEFINE R == { ss \in Nat \X Nat : ss[1] < ss[2] }
<1>1. R = OpToRel(<, Nat)
  BY Zenon DEF OpToRel
<1>2. IsWellFoundedOn(R, Nat)
  BY <1>1, NatLessThanWellFounded
<1>3. PICK x \in S : \A y \in S : ~(<<y, x>> \in R)
  <2> HIDE DEF R
  <2> QED BY <1>2, WFMin
<1>4. ASSUME NEW y \in S PROVE x <= y
  <2>1. x \in Nat /\ y \in Nat
    OBVIOUS
  <2>2. ~(y < x)
    <3>1. ~(<<y, x>> \in Nat \X Nat /\ <<y, x>>[1] < <<y, x>>[2])
      BY <1>3, Zenon
    <3> QED BY <3>1, <2>1
  <2> QED BY <2>1, <2>2
<1> QED BY <1>4 DEF Least

\* The ranks of the members of a finite set of lease numbers lie between 1 and
\* its size and grow with the number.
LEMMA RankIsStrict ==
    ASSUME NEW S \in SUBSET Nat, IsFiniteSet(S), NEW l \in S
    PROVE  /\ Rank(l, S) \in 1..Cardinality(S)
           /\ \A k \in S : l < k => Rank(l, S) < Rank(k, S)
<1> DEFINE below(x) == { m \in S : m <= x }
<1>1. \A x \in S : IsFiniteSet(below(x)) /\ Cardinality(below(x)) \in Nat
                   /\ Cardinality(below(x)) <= Cardinality(S)
  <2> TAKE x \in S
  <2>1. below(x) \in SUBSET S
    OBVIOUS
  <2> QED BY <2>1, FS_Subset, FS_CardinalityType
<1>2. Cardinality(S) \in Nat
  BY FS_CardinalityType
<1>3. Cardinality(below(l)) # 0
  <2>1. l \in below(l)
    OBVIOUS
  <2> QED BY <2>1, <1>1, FS_EmptySet
<1>4. ASSUME NEW k \in S, l < k
      PROVE  Cardinality(below(l)) < Cardinality(below(k))
  <2>1. below(l) \subseteq below(k)
    <3>1. \A m \in S : m <= l => m <= k
      BY <1>4
    <3> QED BY <3>1
  <2>2. k \in below(k) /\ k \notin below(l)
    BY <1>4
  <2>3. below(l) # below(k)
    BY <2>2
  <2> HIDE DEF below
  <2> QED BY <2>1, <2>3, <1>1, FS_Subset
<1> QED BY <1>1, <1>2, <1>3, <1>4 DEF Rank

\* Counting through the leases of one expire_leases sweep is well defined: there
\* is a lease at every place up to their number.
LEMMA NthIsMember ==
    ASSUME NEW S \in SUBSET Nat, IsFiniteSet(S), NEW i \in 1..Cardinality(S)
    PROVE  Nth(i, S) \in S /\ Rank(Nth(i, S), S) = i
<1> DEFINE n == Cardinality(S)
           f == [l \in S |-> Rank(l, S)]
<1>1. n \in Nat
  BY FS_CardinalityType
<1>2. f \in [S -> 1..n]
  BY RankIsStrict
<1>3. ASSUME NEW l \in S, NEW k \in S, l # k PROVE f[l] # f[k]
  <2>1. f[l] = Rank(l, S) /\ f[k] = Rank(k, S)
    OBVIOUS
  <2>2. Rank(l, S) \in Nat /\ Rank(k, S) \in Nat
    BY RankIsStrict, <1>1
  <2>3. Rank(l, S) < Rank(k, S) \/ Rank(k, S) < Rank(l, S)
    BY RankIsStrict, <1>3
  <2> QED BY <2>1, <2>2, <2>3
<1>4. f \in Injection(S, 1..n)
  BY <1>2, <1>3 DEF Injection, IsInjective
<1>5. IsFiniteSet(1..n) /\ Cardinality(1..n) = n
  BY <1>1, FS_Interval
<1>6. f \in Surjection(S, 1..n)
  <2> HIDE DEF f, n
  <2>1. Cardinality(S) = Cardinality(1..n)
    BY <1>5 DEF n
  <2> QED BY <1>4, <1>5, <2>1, FS_Injection
<1>7. \E l \in S : f[l] = i
  BY <1>6 DEF Surjection
<1> QED BY <1>7 DEF Nth

-----------------------------------------------------------------------------
(* What the helpers of an operation return.                                 *)

\* resolve_pipe_bucket answers a bucket and a node of the system whenever it
\* raises no error.
LEMMA PipeResolution ==
    ASSUME NEW p \in Panels, NEW pipe, NEW direction, Resolvable(p, pipe, direction)
    PROVE  pipe_bucket(p, pipe) \in Bucket /\ pipe_node(p, pipe, direction) \in NodeId
<1>1. pipe \in DOMAIN p.pipe_bindings
  BY DEF Resolvable, IsBound
<1>2. pipe_bucket(p, pipe) \in Bucket
  BY <1>1, PanelsAssumption DEF pipe_bucket
<1>3. CASE p.pipe_bindings[pipe].node # None
  BY <1>1, <1>2, <1>3, PanelsAssumption DEF pipe_node
<1>4. CASE p.pipe_bindings[pipe].node = None
  <2> DEFINE S == Declaring(p, pipe, direction)
  <2>1. S # {} /\ S \subseteq DOMAIN p.nodes
    BY <1>4 DEF Resolvable, HasNode, Declaring
  <2>2. S \in SUBSET Nat
    BY <2>1, PanelsAssumption
  <2>3. Least(S) \in DOMAIN p.nodes
    BY <2>1, <2>2, LeastOfNaturals
  <2>4. p.nodes[Least(S)].id \in node_ids(p)
    BY <2>3 DEF node_ids, Node, Elements
  <2> QED BY <1>2, <1>4, <2>4, PanelsAssumption DEF pipe_node
<1> QED BY <1>3, <1>4

\* resolve_initial_bucket answers a bucket of the system when it raises no error.
LEMMA InitialBucketType ==
    ASSUME NEW p \in Panels, HasInitialBucket(p)
    PROVE  resolve_initial_bucket(p) \in Bucket
BY PanelsAssumption DEF HasInitialBucket, resolve_initial_bucket

\* A CardEvent built from well-typed parts is an event.
LEMMA EventTypes ==
    ASSUME NEW type \in EventType, NEW lease \in Nat,
           NEW from \in Bucket \union {None}, NEW to \in Bucket \union {None}
    PROVE  MkEvent(type, lease, from, to) \in Event
BY DEF MkEvent, Event

\* _record_event keeps one history per card and makes each of them a sequence of
\* events.
LEMMA RecordType ==
    ASSUME CardsOK, NEW c \in DOMAIN cards, NEW e \in Event, record(c, e)
    PROVE  /\ events' \in Seq(Seq(Event))
           /\ Len(events') = Len(cards)
           /\ Len(events'[c]) \in Nat
<1>1. c \in 1..Len(events)
  BY DEF CardsOK
<1>2. events[c] \in Seq(Event)
  BY <1>1 DEF CardsOK
<1>3. Append(events[c], e) \in Seq(Event)
  BY <1>2
<1> QED BY <1>1, <1>2, <1>3, ExceptSeq DEF CardsOK, record

\* Storing and answering a well-typed result keeps the idempotency records typed.
LEMMA AnswerType ==
    ASSUME AnswersOK, NEW k \in Key \union {None}, NEW op \in Operation, NEW on,
           NEW result \in Result, Answer(k, op, on, result)
    PROVE  AnswersOK'
<1>1. CASE k = None
  BY <1>1 DEF Answer, store_idempotent, AnswersOK
<1>2. CASE k # None
  BY <1>2 DEF Answer, store_idempotent, AnswersOK
<1> QED BY <1>1, <1>2

\* What one expire_leases sweep appends to a history is a sequence of events.
LEMMA ExpiryEventsType ==
    ASSUME LeasesOK, NEW c
    PROVE  ExpiryEvents(c) \in Seq(Event)
<1> DEFINE due == { l \in Overdue : leases[l].card = c }
<1>1. due \in SUBSET Nat /\ IsFiniteSet(due)
  <2>1. due \in SUBSET (1..Len(leases)) /\ Len(leases) \in Nat
    BY DEF LeasesOK, Overdue
  <2> HIDE DEF due
  <2>2. IsFiniteSet(1..Len(leases))
    BY <2>1, FS_Interval
  <2>3. due \in SUBSET Nat
    BY <2>1
  <2>4. IsFiniteSet(due)
    BY <2>1, <2>2, FS_Subset
  <2> QED BY <2>3, <2>4
<1>2. Cardinality(due) \in Nat
  BY <1>1, FS_CardinalityType
<1>3. \A i \in 1..Cardinality(due) : Nth(i, due) \in Nat
  <2> HIDE DEF due
  <2> QED BY <1>1, NthIsMember
<1>4. \A i \in 1..Cardinality(due) :
         MkEvent("lease_expired", Nth(i, due), None, None) \in Event
  BY <1>3, EventTypes DEF EventType
<1> HIDE DEF due
<1>5. [i \in 1..Cardinality(due) |-> MkEvent("lease_expired", Nth(i, due), None, None)]
      \in Seq(Event)
  BY <1>2, <1>4
<1> QED BY <1>5 DEF ExpiryEvents, due

-----------------------------------------------------------------------------
(* Type correctness.                                                        *)

\* The empty runtime of __init__ is well typed.
LEMMA TypeInit == Init => TypeOK
<1> SUFFICES ASSUME Init PROVE TypeOK
  OBVIOUS
<1>1. PanelsOK /\ AnswersOK /\ ArtifactsOK
  BY DEF Init, PanelsOK, AnswersOK, ArtifactsOK
<1>2. CardsOK /\ LeasesOK /\ now \in Nat
  BY DEF Init, CardsOK, LeasesOK
<1> QED BY <1>1, <1>2 DEF TypeOK

\* register_patch_panel keeps the dicts well typed.
LEMMA TypeRegister ==
    ASSUME TypeOK, NEW p \in Panels, register_patch_panel(p)
    PROVE  TypeOK'
<1>1. PanelsOK'
  BY DEF TypeOK, PanelsOK, register_patch_panel, PanelId
<1>2. CardsOK' /\ LeasesOK' /\ ArtifactsOK' /\ AnswersOK' /\ (now \in Nat)'
  BY DEF TypeOK, register_patch_panel, CardsOK, LeasesOK, ArtifactsOK, AnswersOK
<1> QED BY <1>1, <1>2 DEF TypeOK

\* create_card keeps the dicts well typed: the new card gets its history.
LEMMA TypeCreate ==
    ASSUME TypeOK, NEW id \in PanelId, NEW k \in Key \union {None}, create_card(id, k)
    PROVE  TypeOK'
<1> DEFINE b == resolve_initial_bucket(panels[id])
           new == [workflow_version |-> workflow_version(panels[id]), bucket |-> b]
           first == MkEvent("card_created", 0, None, b)
<1>1. panels[id] \in Panels
  BY DEF TypeOK, PanelsOK, create_card
<1>2. b \in Bucket
  BY <1>1, InitialBucketType DEF create_card
<1>3. new \in Card
  BY <1>1, <1>2 DEF Card, WorkflowVersion
<1>4. first \in Event
  BY <1>2, EventTypes DEF EventType
<1> HIDE DEF b
<1>5. cards' = Append(cards, new) /\ events' = Append(events, <<first>>)
  BY DEF create_card, b
<1> HIDE DEF new, first
<1>6. cards \in Seq(Card) /\ events \in Seq(Seq(Event)) /\ Len(events) = Len(cards)
  BY DEF TypeOK, CardsOK
<1>7. <<first>> \in Seq(Event)
  BY <1>4
<1>8. CardsOK' /\ Len(cards') = Len(cards) + 1 /\ cards'[Len(cards')] = new
  BY <1>3, <1>5, <1>6, <1>7 DEF CardsOK
<1>9. DOMAIN cards \subseteq DOMAIN cards'
  BY <1>3, <1>5, <1>6
<1>10. LeasesOK' /\ ArtifactsOK' /\ PanelsOK' /\ (now \in Nat)'
  BY <1>9 DEF TypeOK, LeasesOK, ArtifactsOK, PanelsOK, create_card
<1>11. CardResult(Len(cards')) \in Result
  BY <1>3, <1>6, <1>8 DEF CardResult, Result
<1>12. AnswersOK'
  <2>1. Answer(k, "create_card", <<"panel", id>>, CardResult(Len(cards')))
    BY DEF create_card
  <2>2. "create_card" \in Operation
    BY DEF Operation, ResultType
  <2> HIDE DEF CardResult
  <2> QED BY <1>11, <2>1, <2>2, AnswerType DEF TypeOK
<1> QED BY <1>8, <1>10, <1>12 DEF TypeOK

\* The card that _claim_target hands out exists, has no active lease, and its
\* panel resolves the claimed pipe.
LEMMA ClaimedCard ==
    ASSUME TypeOK, NEW pipe, NEW id \in DOMAIN panels, claim_target(pipe, id),
           NEW c, c = Least(Claimable(panels[id], pipe_bucket(panels[id], pipe)))
    PROVE  /\ panels[id] \in Panels
           /\ Resolvable(panels[id], pipe, "input")
           /\ c \in DOMAIN cards
           /\ ~has_active_lease(c)
<1> DEFINE S == Claimable(panels[id], pipe_bucket(panels[id], pipe))
<1>1. panels[id] \in Panels
  BY DEF TypeOK, PanelsOK
<1>2. id \in WithCards(pipe)
  BY DEF claim_target
<1>3. id \in Matches(pipe) /\ S # {}
  BY <1>2 DEF WithCards
<1>4. Resolvable(panels[id], pipe, "input")
  BY <1>3 DEF claim_target, Resolvable, Matches
<1>5. S \subseteq DOMAIN cards /\ DOMAIN cards \subseteq Nat
  BY DEF Claimable, TypeOK, CardsOK
<1> HIDE DEF S
<1>6. Least(S) \in S
  BY <1>3, <1>5, LeastOfNaturals
<1> QED BY <1>1, <1>4, <1>5, <1>6 DEF S, Claimable

\* Replacing one lease by another on the same card keeps the leases well typed.
LEMMA LeaseUpdate ==
    ASSUME LeasesOK, NEW l \in DOMAIN leases, NEW new \in Lease,
           new.card = leases[l].card,
           leases' = [leases EXCEPT ![l] = new], DOMAIN cards' = DOMAIN cards
    PROVE  LeasesOK' /\ leases'[l] = new
<1>1. leases' \in Seq(Lease) /\ DOMAIN leases' = DOMAIN leases
  BY ExceptSeq DEF LeasesOK
<1>2. \A m \in DOMAIN leases' : leases'[m].card = leases[m].card
  BY <1>1
<1> QED BY <1>1, <1>2 DEF LeasesOK

\* Setting released_at keeps the leases well typed.
LEMMA EndLease ==
    ASSUME LeasesOK, NEW l \in DOMAIN leases, end_lease(l), DOMAIN cards' = DOMAIN cards
    PROVE  LeasesOK' /\ leases'[l] \in Lease
<1> DEFINE new == [leases[l] EXCEPT !.released = TRUE]
<1>1. leases[l] \in Lease
  BY DEF LeasesOK
<1>2. new \in Lease /\ new.card = leases[l].card
  BY <1>1 DEF Lease
<1>3. leases' = [leases EXCEPT ![l] = new]
  BY DEF end_lease
<1> HIDE DEF new
<1> QED BY <1>2, <1>3, LeaseUpdate

\* Setting current_bucket keeps the cards well typed and adds or drops none.
LEMMA CardBucketUpdate ==
    ASSUME CardsOK, NEW c \in DOMAIN cards, NEW b \in Bucket,
           cards' = [cards EXCEPT ![c].bucket = b]
    PROVE  cards' \in Seq(Card) /\ DOMAIN cards' = DOMAIN cards
           /\ Len(cards') = Len(cards) /\ cards'[c] \in Card
<1> DEFINE new == [cards[c] EXCEPT !.bucket = b]
<1>1. cards[c] \in Card /\ cards \in Seq(Card)
  BY DEF CardsOK
<1>2. new \in Card
  BY <1>1 DEF Card
<1>3. cards' = [cards EXCEPT ![c] = new]
  OBVIOUS
<1> HIDE DEF new
<1> QED BY <1>1, <1>2, <1>3, ExceptSeq

\* claim_card keeps the dicts well typed: the new lease names a card.
LEMMA TypeClaim ==
    ASSUME TypeOK, NEW pipe \in Pipe, NEW s \in LeaseSeconds, NEW k \in Key \union {None},
           claim_card(pipe, s, k)
    PROVE  TypeOK'
<1>1. PICK id \in DOMAIN panels :
         /\ claim_target(pipe, id)
         /\ LET c == Least(Claimable(panels[id], pipe_bucket(panels[id], pipe))) IN
            /\ CanRecord(c)
            /\ leases' = Append(leases, [card |-> c,
                                         node |-> pipe_node(panels[id], pipe, "input"),
                                         pipe |-> pipe,
                                         expires |-> now + s,
                                         released |-> FALSE])
            /\ record(c, MkEvent("card_claimed", Len(leases'), None, None))
  BY DEF claim_card
<1> DEFINE c == Least(Claimable(panels[id], pipe_bucket(panels[id], pipe)))
           new == [card |-> c, node |-> pipe_node(panels[id], pipe, "input"), pipe |-> pipe,
                   expires |-> now + s, released |-> FALSE]
<1>2. leases' = Append(leases, new) /\ record(c, MkEvent("card_claimed", Len(leases'), None, None))
  BY <1>1
<1>3. panels[id] \in Panels /\ Resolvable(panels[id], pipe, "input") /\ c \in DOMAIN cards
  BY <1>1, ClaimedCard
<1> HIDE DEF c
<1>4. c \in Nat
  BY <1>3 DEF TypeOK, CardsOK
<1>5. new \in Lease
  <2>1. pipe_node(panels[id], pipe, "input") \in NodeId
    BY <1>3, PipeResolution
  <2>2. now + s \in Int
    BY SecondsAssumption DEF TypeOK
  <2> QED BY <1>4, <2>1, <2>2 DEF Lease
<1>6. new.card = c
  OBVIOUS
<1> HIDE DEF new
<1>7. leases \in Seq(Lease) /\ Len(leases) \in Nat
  BY DEF TypeOK, LeasesOK
<1>8. leases' \in Seq(Lease) /\ Len(leases') = Len(leases) + 1 /\ leases'[Len(leases')] = new
      /\ \A l \in DOMAIN leases' : leases'[l] = new \/ (l \in DOMAIN leases /\ leases'[l] = leases[l])
  BY <1>2, <1>5, <1>7
<1>9. UNCHANGED <<panels, cards, artifacts, now>>
  BY DEF claim_card
<1>10. LeasesOK'
  BY <1>3, <1>6, <1>8, <1>9 DEF LeasesOK, TypeOK
<1>11. MkEvent("card_claimed", Len(leases'), None, None) \in Event
  <2>1. Len(leases') \in Nat /\ "card_claimed" \in EventType
    BY <1>7, <1>8 DEF EventType
  <2> QED BY <2>1, EventTypes
<1>12. CardsOK'
  BY <1>2, <1>3, <1>9, <1>11, RecordType DEF TypeOK, CardsOK
<1>13. PanelsOK' /\ ArtifactsOK' /\ (now \in Nat)'
  BY <1>9 DEF TypeOK, PanelsOK, ArtifactsOK
<1>14. LeaseResult(Len(leases')) \in Result
  BY <1>5, <1>7, <1>8 DEF LeaseResult, Result
<1>15. AnswersOK'
  <2>1. Answer(k, "claim_card", <<"pipe", pipe>>, LeaseResult(Len(leases')))
    BY DEF claim_card
  <2>2. "claim_card" \in Operation
    BY DEF Operation, ResultType
  <2> HIDE DEF LeaseResult
  <2> QED BY <1>14, <2>1, <2>2, AnswerType DEF TypeOK
<1> QED BY <1>10, <1>12, <1>13, <1>15 DEF TypeOK

\* What type correctness says of one lease.
LEMMA LeaseFacts ==
    ASSUME TypeOK, NEW l \in DOMAIN leases
    PROVE  l \in Nat /\ leases[l] \in Lease /\ leases[l].card \in DOMAIN cards
BY DEF TypeOK, LeasesOK

\* The panel that _get_patch_panel_for_card finds is one a client registered.
LEMMA PanelOfCard ==
    ASSUME TypeOK, NEW c, PanelRegistered(c)
    PROVE  panel_for_card(c) \in Panels
BY DEF TypeOK, PanelsOK, PanelRegistered, panel_for_card

\* submit_artifact keeps the dicts well typed.
LEMMA TypeSubmit ==
    ASSUME TypeOK, NEW l \in DOMAIN leases, NEW pipe, NEW refs \in RefLists,
           NEW k \in Key \union {None}, submit_artifact(l, pipe, refs, k)
    PROVE  TypeOK'
<1> DEFINE c == leases[l].card
           b == pipe_bucket(panel_for_card(c), pipe)
           ids == { r.id : r \in Elements(refs) }
<1>1. l \in Nat /\ c \in DOMAIN cards
  BY LeaseFacts
<1>2. b \in Bucket
  <2>1. PanelRegistered(c) /\ Resolvable(panel_for_card(c), pipe, "output")
    BY DEF submit_artifact
  <2> QED BY <2>1, PanelOfCard, PipeResolution
<1>3. cards' = [cards EXCEPT ![c].bucket = b] /\ end_lease(l)
      /\ record(c, MkEvent("artifact_submitted", l, None, b))
  BY DEF submit_artifact
<1>4. artifacts' = [a \in DOMAIN artifacts \union ids |->
                      IF a \in ids THEN [card |-> c, event |-> Len(events[c]) + 1]
                      ELSE artifacts[a]]
      /\ UNCHANGED <<panels, now>>
  BY DEF submit_artifact
<1>5. ids \subseteq ArtifactId
  BY RefsAssumption
<1> HIDE DEF b, c, ids
<1>6. cards' \in Seq(Card) /\ DOMAIN cards' = DOMAIN cards /\ Len(cards') = Len(cards)
  BY <1>1, <1>2, <1>3, CardBucketUpdate DEF TypeOK
<1>7. LeasesOK'
  BY <1>3, <1>6, EndLease DEF TypeOK
<1>8. events' \in Seq(Seq(Event)) /\ Len(events') = Len(cards) /\ Len(events'[c]) \in Nat
  <2>1. MkEvent("artifact_submitted", l, None, b) \in Event
    BY <1>1, <1>2, EventTypes DEF EventType
  <2> QED BY <1>1, <1>3, <2>1, RecordType DEF TypeOK
<1>9. CardsOK'
  BY <1>6, <1>8 DEF CardsOK
<1>10. DOMAIN artifacts' \subseteq ArtifactId
  BY <1>4, <1>5 DEF TypeOK, ArtifactsOK
<1>11. \A a \in DOMAIN artifacts' : artifacts'[a].card \in DOMAIN cards
  <2> TAKE a \in DOMAIN artifacts'
  <2>1. CASE a \in ids
    BY <1>1, <1>4, <2>1
  <2>2. CASE a \notin ids
    BY <1>4, <2>2 DEF TypeOK, ArtifactsOK
  <2> QED BY <2>1, <2>2
<1>12. ArtifactsOK' /\ PanelsOK' /\ (now \in Nat)'
  BY <1>4, <1>6, <1>10, <1>11 DEF TypeOK, ArtifactsOK, PanelsOK
<1>13. ArtifactsResult(c) \in Result
  BY <1>1, <1>8 DEF ArtifactsResult, Result, TypeOK, CardsOK
<1>14. AnswersOK'
  <2>1. Answer(k, "submit_artifact", <<"lease", l>>, ArtifactsResult(c))
    BY DEF submit_artifact, c
  <2>2. "submit_artifact" \in Operation
    BY DEF Operation, ResultType
  <2> HIDE DEF ArtifactsResult
  <2> QED BY <1>13, <2>1, <2>2, AnswerType DEF TypeOK
<1> QED BY <1>7, <1>9, <1>12, <1>14 DEF TypeOK

\* Recording an event about a lease keeps everything but the leases and the
\* answers well typed.
LEMMA TypeLeaseEvent ==
    ASSUME TypeOK, NEW l \in DOMAIN leases, NEW type \in EventType,
           record(leases[l].card, MkEvent(type, l, None, None)),
           UNCHANGED <<panels, cards, artifacts, now>>
    PROVE  CardsOK' /\ PanelsOK' /\ ArtifactsOK' /\ (now \in Nat)'
<1>1. l \in Nat /\ leases[l].card \in DOMAIN cards
  BY LeaseFacts
<1>2. MkEvent(type, l, None, None) \in Event
  BY <1>1, EventTypes
<1>3. events' \in Seq(Seq(Event)) /\ Len(events') = Len(cards)
  BY <1>1, <1>2, RecordType DEF TypeOK
<1> QED BY <1>3 DEF TypeOK, CardsOK, PanelsOK, ArtifactsOK

\* renew_lease keeps the dicts well typed.
LEMMA TypeRenew ==
    ASSUME TypeOK, NEW l \in DOMAIN leases, NEW s \in LeaseSeconds, NEW k \in Key \union {None},
           renew_lease(l, s, k)
    PROVE  TypeOK'
<1> DEFINE new == [leases[l] EXCEPT !.expires = now + s]
<1>1. l \in Nat /\ leases[l] \in Lease /\ now + s \in Int
  BY LeaseFacts, SecondsAssumption DEF TypeOK
<1>2. new \in Lease /\ new.card = leases[l].card
  BY <1>1 DEF Lease
<1>3. leases' = [leases EXCEPT ![l] = new] /\ UNCHANGED <<panels, cards, artifacts, now>>
  BY DEF renew_lease
<1> HIDE DEF new
<1>4. LeasesOK' /\ leases'[l] = new
  BY <1>2, <1>3, LeaseUpdate DEF TypeOK
<1>5. CardsOK' /\ PanelsOK' /\ ArtifactsOK' /\ (now \in Nat)'
  <2>1. record(leases[l].card, MkEvent("lease_renewed", l, None, None))
    BY DEF renew_lease
  <2>2. "lease_renewed" \in EventType
    BY DEF EventType
  <2> QED BY <1>3, <2>1, <2>2, TypeLeaseEvent
<1>6. LeaseResult(l) \in Result
  BY <1>1, <1>2, <1>4 DEF LeaseResult, Result
<1>7. AnswersOK'
  <2>1. Answer(k, "renew_lease", <<"lease", l>>, LeaseResult(l))
    BY DEF renew_lease
  <2>2. "renew_lease" \in Operation
    BY DEF Operation, ResultType
  <2> HIDE DEF LeaseResult
  <2> QED BY <1>6, <2>1, <2>2, AnswerType DEF TypeOK
<1> QED BY <1>4, <1>5, <1>7 DEF TypeOK

\* release_lease keeps the dicts well typed.
LEMMA TypeRelease ==
    ASSUME TypeOK, NEW l \in DOMAIN leases, NEW k \in Key \union {None}, release_lease(l, k)
    PROVE  TypeOK'
<1>1. end_lease(l) /\ UNCHANGED <<panels, cards, artifacts, now>>
  BY DEF release_lease
<1>2. LeasesOK' /\ leases'[l] \in Lease
  BY <1>1, EndLease DEF TypeOK
<1>3. CardsOK' /\ PanelsOK' /\ ArtifactsOK' /\ (now \in Nat)'
  <2>1. record(leases[l].card, MkEvent("lease_released", l, None, None))
    BY DEF release_lease
  <2>2. "lease_released" \in EventType
    BY DEF EventType
  <2> QED BY <1>1, <2>1, <2>2, TypeLeaseEvent
<1>4. LeaseResult(l) \in Result
  BY <1>2, LeaseFacts DEF LeaseResult, Result
<1>5. AnswersOK'
  <2>1. Answer(k, "release_lease", <<"lease", l>>, LeaseResult(l))
    BY DEF release_lease
  <2>2. "release_lease" \in Operation
    BY DEF Operation, ResultType
  <2> HIDE DEF LeaseResult
  <2> QED BY <1>4, <2>1, <2>2, AnswerType DEF TypeOK
<1> QED BY <1>2, <1>3, <1>5 DEF TypeOK

\* release_lease of an ended lease, which answers it, keeps the dicts well typed.
LEMMA TypeReleaseEnded ==
    ASSUME TypeOK, NEW l \in DOMAIN leases, NEW k \in Key, release_ended_lease(l, k)
    PROVE  TypeOK'
<1> DEFINE r == [type |-> "Lease", lease |-> l, value |-> leases[l]]
           a == [key |-> k, op |-> "release_lease", on |-> <<"lease", l>>, result |-> r]
<1>1. r \in Result
  BY LeaseFacts DEF Result
<1> HIDE DEF r
<1>2. a.key \in Key /\ a.op \in Operation /\ a.result \in Result
  BY <1>1 DEF Operation, ResultType
<1>3. answers' = answers \union {a}
      /\ UNCHANGED <<panels, cards, leases, events, artifacts, idempotency, now>>
  BY DEF release_ended_lease, r
<1> HIDE DEF a
<1>4. AnswersOK'
  BY <1>2, <1>3 DEF TypeOK, AnswersOK
<1> QED BY <1>3, <1>4 DEF TypeOK, PanelsOK, CardsOK, LeasesOK, ArtifactsOK

\* expire_leases keeps the dicts well typed.
LEMMA TypeExpire ==
    ASSUME TypeOK, expire_leases
    PROVE  TypeOK'
<1> USE DEF expire_leases
<1>1. cards \in Seq(Card) /\ events \in Seq(Seq(Event)) /\ Len(events) = Len(cards)
      /\ Len(cards) \in Nat /\ DOMAIN cards = 1..Len(cards)
  BY DEF TypeOK, CardsOK
<1>2. \A c \in DOMAIN cards : events[c] \o ExpiryEvents(c) \in Seq(Event)
  <2> TAKE c \in DOMAIN cards
  <2>1. events[c] \in Seq(Event)
    BY <1>1
  <2>2. ExpiryEvents(c) \in Seq(Event)
    BY ExpiryEventsType DEF TypeOK
  <2> QED BY <2>1, <2>2, ConcatProperties
<1>3. events' \in Seq(Seq(Event)) /\ Len(events') = Len(cards)
  <2> DEFINE e(c) == events[c] \o ExpiryEvents(c)
  <2>1. events' = [c \in 1..Len(cards) |-> e(c)]
    BY <1>1
  <2>2. \A c \in 1..Len(cards) : e(c) \in Seq(Event)
    BY <1>1, <1>2
  <2> HIDE DEF e, expire_leases
  <2> QED BY <1>1, <2>1, <2>2
<1>4. CardsOK'
  BY <1>1, <1>3 DEF CardsOK
<1>5. LeasesOK'
  <2>1. leases \in Seq(Lease) /\ Len(leases) \in Nat /\ DOMAIN leases = 1..Len(leases)
    BY DEF TypeOK, LeasesOK
  <2>2. \A l \in DOMAIN leases :
           /\ [leases[l] EXCEPT !.released = @ \/ l \in Overdue] \in Lease
           /\ [leases[l] EXCEPT !.released = @ \/ l \in Overdue].card = leases[l].card
    <3> TAKE l \in DOMAIN leases
    <3>1. leases[l] \in Lease
      BY <2>1
    <3>2. (leases[l].released \/ l \in Overdue) \in BOOLEAN
      OBVIOUS
    <3> HIDE DEF expire_leases
    <3> QED BY <3>1, <3>2 DEF Lease
  <2> DEFINE new(l) == [leases[l] EXCEPT !.released = @ \/ l \in Overdue]
  <2>3. leases' = [l \in 1..Len(leases) |-> new(l)]
    BY <2>1
  <2>4. \A l \in 1..Len(leases) : new(l) \in Lease /\ new(l).card = leases[l].card
    BY <2>1, <2>2
  <2> HIDE DEF new, expire_leases
  <2>5. leases' \in Seq(Lease) /\ DOMAIN leases' = DOMAIN leases
    BY <2>1, <2>3, <2>4
  <2>6. \A l \in DOMAIN leases : leases'[l].card \in DOMAIN cards
    BY <2>1, <2>3, <2>4 DEF TypeOK, LeasesOK
  <2>7. cards' = cards
    BY DEF expire_leases
  <2> QED BY <2>5, <2>6, <2>7 DEF LeasesOK
<1> QED BY <1>4, <1>5 DEF TypeOK, PanelsOK, ArtifactsOK, AnswersOK

\* Recording an event about a card, moved or not, keeps everything but the
\* answers well typed.
LEMMA TypeCardEvent ==
    ASSUME TypeOK, NEW c \in DOMAIN cards, NEW e \in Event, record(c, e),
           cards' \in Seq(Card), DOMAIN cards' = DOMAIN cards, Len(cards') = Len(cards),
           UNCHANGED <<panels, leases, artifacts, now>>
    PROVE  /\ CardsOK' /\ PanelsOK' /\ LeasesOK' /\ ArtifactsOK' /\ (now \in Nat)'
           /\ EventResult(c) \in Result
<1>1. events' \in Seq(Seq(Event)) /\ Len(events') = Len(cards) /\ Len(events'[c]) \in Nat
  BY RecordType DEF TypeOK
<1>2. c \in Nat
  BY DEF TypeOK, CardsOK
<1>3. EventResult(c) \in Result
  BY <1>1, <1>2 DEF EventResult, Result
<1>4. CardsOK'
  BY <1>1 DEF CardsOK
<1> QED BY <1>3, <1>4 DEF TypeOK, PanelsOK, LeasesOK, ArtifactsOK

\* validate_card keeps the dicts well typed, with and without an output pipe.
LEMMA TypeValidate ==
    ASSUME TypeOK, NEW c \in DOMAIN cards, NEW pipe, NEW k \in Key \union {None},
           validate_card(c, pipe, k)
    PROVE  TypeOK'
<1> DEFINE p == panel_for_card(c)
<1>1. PICK e \in Event : /\ record(c, e)
                         /\ cards' \in Seq(Card)
                         /\ DOMAIN cards' = DOMAIN cards
                         /\ Len(cards') = Len(cards)
  <2>1. CASE pipe = None
    <3>1. record(c, validated(None)) /\ cards' = cards
      BY <2>1 DEF validate_card
    <3>2. validated(None) \in Event
      BY EventTypes DEF validated, EventType
    <3> QED BY <3>1, <3>2 DEF TypeOK, CardsOK
  <2>2. CASE pipe # None
    <3>1. PanelRegistered(c) /\ Resolvable(p, pipe, "output")
          /\ cards' = [cards EXCEPT ![c].bucket = pipe_bucket(p, pipe)]
          /\ record(c, validated(pipe_bucket(p, pipe)))
      BY <2>2 DEF validate_card
    <3> HIDE DEF p
    <3>2. pipe_bucket(p, pipe) \in Bucket
      BY <3>1, PanelOfCard, PipeResolution DEF p
    <3>3. validated(pipe_bucket(p, pipe)) \in Event
      BY <3>2, EventTypes DEF validated, EventType
    <3> QED BY <3>1, <3>2, <3>3, CardBucketUpdate DEF TypeOK
  <2> QED BY <2>1, <2>2
<1>2. UNCHANGED <<panels, leases, artifacts, now>>
  BY DEF validate_card
<1>3. CardsOK' /\ PanelsOK' /\ LeasesOK' /\ ArtifactsOK' /\ (now \in Nat)'
      /\ EventResult(c) \in Result
  BY <1>1, <1>2, TypeCardEvent
<1>4. AnswersOK'
  <2>1. Answer(k, "validate_card", <<"card", c>>, EventResult(c))
    BY DEF validate_card
  <2>2. "validate_card" \in Operation
    BY DEF Operation, ResultType
  <2> HIDE DEF EventResult
  <2> QED BY <1>3, <2>1, <2>2, AnswerType DEF TypeOK
<1> QED BY <1>3, <1>4 DEF TypeOK

\* move_card keeps the dicts well typed.
LEMMA TypeMove ==
    ASSUME TypeOK, NEW c \in DOMAIN cards, NEW b \in Bucket, NEW k \in Key \union {None},
           move_card(c, b, k)
    PROVE  TypeOK'
<1>1. cards' = [cards EXCEPT ![c].bucket = b]
      /\ record(c, MkEvent("card_moved", 0, cards[c].bucket, b))
      /\ UNCHANGED <<panels, leases, artifacts, now>>
  BY DEF move_card
<1>2. cards[c].bucket \in Bucket /\ c \in Nat
  <2>1. cards[c] \in Card /\ c \in Nat
    BY DEF TypeOK, CardsOK
  <2> QED BY <2>1 DEF Card
<1>3. MkEvent("card_moved", 0, cards[c].bucket, b) \in Event
  BY <1>2, EventTypes DEF EventType
<1>4. cards' \in Seq(Card) /\ DOMAIN cards' = DOMAIN cards
      /\ Len(cards') = Len(cards) /\ cards'[c] \in Card
  BY <1>1, CardBucketUpdate DEF TypeOK
<1>5. CardsOK' /\ PanelsOK' /\ LeasesOK' /\ ArtifactsOK' /\ (now \in Nat)'
  BY <1>1, <1>3, <1>4, TypeCardEvent
<1>6. CardResult(c) \in Result
  BY <1>2, <1>4 DEF CardResult, Result
<1>7. AnswersOK'
  <2>1. Answer(k, "move_card", <<"card", c>>, CardResult(c))
    BY DEF move_card
  <2>2. "move_card" \in Operation
    BY DEF Operation, ResultType
  <2> HIDE DEF CardResult
  <2> QED BY <1>6, <2>1, <2>2, AnswerType DEF TypeOK
<1> QED BY <1>5, <1>7 DEF TypeOK

\* record_event keeps the dicts well typed.
LEMMA TypeRecordEvent ==
    ASSUME TypeOK, NEW c \in DOMAIN cards, NEW k \in Key \union {None}, record_event(c, k)
    PROVE  TypeOK'
<1>1. record(c, MkEvent("recorded", 0, None, None))
      /\ UNCHANGED <<panels, cards, leases, artifacts, now>>
  BY DEF record_event
<1>2. MkEvent("recorded", 0, None, None) \in Event
  BY EventTypes DEF EventType
<1>3. cards' \in Seq(Card) /\ DOMAIN cards' = DOMAIN cards /\ Len(cards') = Len(cards)
  BY <1>1 DEF TypeOK, CardsOK
<1>4. CardsOK' /\ PanelsOK' /\ LeasesOK' /\ ArtifactsOK' /\ (now \in Nat)'
      /\ EventResult(c) \in Result
  BY <1>1, <1>2, <1>3, TypeCardEvent
<1>5. AnswersOK'
  <2>1. Answer(k, "record_event", <<"card", c>>, EventResult(c))
    BY DEF record_event
  <2>2. "record_event" \in Operation
    BY DEF Operation, ResultType
  <2> HIDE DEF EventResult
  <2> QED BY <1>4, <2>1, <2>2, AnswerType DEF TypeOK
<1> QED BY <1>4, <1>5 DEF TypeOK

\* Answering a stored result keeps the dicts well typed.
LEMMA TypeReplay ==
    ASSUME TypeOK, NEW k \in Key, NEW op \in Operation, NEW on, Replay(k, op, on)
    PROVE  TypeOK'
<1> DEFINE a == [key |-> k, op |-> op, on |-> on, result |-> idempotency[k]]
<1>1. a.key \in Key /\ a.op \in Operation /\ a.result \in Result
  BY DEF TypeOK, AnswersOK, Replay
<1>2. answers' = answers \union {a}
      /\ UNCHANGED <<panels, cards, leases, events, artifacts, idempotency, now>>
  BY DEF Replay
<1> HIDE DEF a
<1>3. AnswersOK'
  BY <1>1, <1>2 DEF TypeOK, AnswersOK
<1> QED BY <1>2, <1>3 DEF TypeOK, PanelsOK, CardsOK, LeasesOK, ArtifactsOK

\* Type correctness depends on the clock only through now \in Nat.
LEMMA TypeUnchanged ==
    ASSUME TypeOK, UNCHANGED <<panels, cards, leases, events, artifacts, idempotency, answers>>,
           now' \in Nat
    PROVE  TypeOK'
BY DEF TypeOK, PanelsOK, CardsOK, LeasesOK, ArtifactsOK, AnswersOK

\* Every operation keeps the dicts well typed.
LEMMA TypeStep == TypeOK /\ [Next]_vars => TypeOK'
<1> SUFFICES ASSUME TypeOK, [Next]_vars PROVE TypeOK'
  OBVIOUS
<1>1. CASE OnPanel
  BY <1>1, TypeRegister, TypeCreate DEF OnPanel
<1>2. CASE OnLease
  BY <1>2, TypeClaim, TypeSubmit, TypeRenew, TypeRelease, TypeReleaseEnded, TypeExpire
     DEF OnLease
<1>3. CASE OnCard
  BY <1>3, TypeValidate, TypeMove, TypeRecordEvent DEF OnCard
<1>4. CASE Replays
  BY <1>4, TypeReplay DEF Replays
<1>5. CASE Tick
  BY <1>5, TypeUnchanged DEF Tick, TypeOK
<1>6. CASE UNCHANGED vars
  BY <1>6, TypeUnchanged DEF vars, TypeOK
<1> QED BY <1>1, <1>2, <1>3, <1>4, <1>5, <1>6 DEF Next

\* For all panels, pipes, keys, lease durations and bounds: the runtime's dicts
\* stay well typed and refer to each other consistently (TypeOK).
THEOREM TypeCorrect == Spec => []TypeOK
BY TypeInit, TypeStep, PTL DEF Spec

-----------------------------------------------------------------------------
(* Exclusive leases.  Every step does one of five things to the leases; the *)
(* two theorems below need to look at nothing else.                         *)

\* The leases are left alone; time may pass.
SameLeases == leases' = leases /\ now' \in {now, now + 1}

\* A lease is added to a card that has no active one.
AddLease ==
    \E new \in Lease, s \in LeaseSeconds : /\ ~has_active_lease(new.card)
                                           /\ new.card \in DOMAIN cards
                                           /\ ~new.released
                                           /\ new.expires = now + s
                                           /\ leases' = Append(leases, new)
                                           /\ now' = now

\* The expiry of an active lease is changed.
ExtendLease ==
    \E l \in DOMAIN leases, s \in LeaseSeconds :
        /\ ActiveLease(l)
        /\ leases' = [leases EXCEPT ![l].expires = now + s]
        /\ now' = now

\* One lease that has not ended is ended.
EndOneLease == \E l \in DOMAIN leases : ~leases[l].released /\ end_lease(l) /\ now' = now

\* Every overdue lease is ended.
EndOverdue ==
    /\ leases' = [l \in DOMAIN leases |-> [leases[l] EXCEPT !.released = @ \/ l \in Overdue]]
    /\ now' = now

\* claim_card adds one lease, on a card without an active one.
LEMMA ClaimAdds ==
    ASSUME TypeOK, NEW pipe \in Pipe, NEW s \in LeaseSeconds, NEW k, claim_card(pipe, s, k)
    PROVE  AddLease
<1>1. PICK id \in DOMAIN panels :
         /\ claim_target(pipe, id)
         /\ LET c == Least(Claimable(panels[id], pipe_bucket(panels[id], pipe))) IN
            leases' = Append(leases, [card |-> c,
                                      node |-> pipe_node(panels[id], pipe, "input"),
                                      pipe |-> pipe,
                                      expires |-> now + s,
                                      released |-> FALSE])
  BY DEF claim_card
<1> DEFINE c == Least(Claimable(panels[id], pipe_bucket(panels[id], pipe)))
           new == [card |-> c, node |-> pipe_node(panels[id], pipe, "input"), pipe |-> pipe,
                   expires |-> now + s, released |-> FALSE]
<1>2. leases' = Append(leases, new)
  BY <1>1
<1>3. /\ panels[id] \in Panels
      /\ Resolvable(panels[id], pipe, "input")
      /\ c \in DOMAIN cards
      /\ ~has_active_lease(c)
  BY <1>1, ClaimedCard
<1> HIDE DEF c
<1>4. c \in Nat
  BY <1>3 DEF TypeOK, CardsOK
<1>5. pipe_node(panels[id], pipe, "input") \in NodeId
  BY <1>3, PipeResolution
<1>6. now + s \in Int /\ now' = now
  BY SecondsAssumption DEF TypeOK, claim_card
<1>7. new \in Lease /\ new.card = c /\ ~new.released /\ new.expires = now + s
  BY <1>4, <1>5, <1>6 DEF Lease
<1> HIDE DEF new
<1> QED BY <1>2, <1>3, <1>6, <1>7 DEF AddLease

\* Every operation does one of five things to the leases.
LEMMA LeaseSteps ==
    ASSUME TypeOK, [Next]_vars
    PROVE  SameLeases \/ AddLease \/ ExtendLease \/ EndOneLease \/ EndOverdue
<1>0. (leases' = leases /\ now' = now) => SameLeases
  BY DEF SameLeases, TypeOK
<1>1. CASE OnPanel
  <2>1. ASSUME NEW p \in Panels, register_patch_panel(p) PROVE leases' = leases /\ now' = now
    BY <2>1 DEF register_patch_panel
  <2>2. ASSUME NEW id \in PanelId, NEW k \in Key \union {None}, create_card(id, k)
        PROVE  leases' = leases /\ now' = now
    BY <2>2 DEF create_card
  <2> QED BY <1>0, <1>1, <2>1, <2>2 DEF OnPanel
<1>2. CASE OnLease
  <2>1. CASE \E pipe \in Pipe, s \in LeaseSeconds, k \in Key \union {None} :
                claim_card(pipe, s, k)
    BY <2>1, ClaimAdds
  <2>2. CASE \E l \in DOMAIN leases, pipe \in Pipe, refs \in RefLists, k \in Key \union {None} :
                submit_artifact(l, pipe, refs, k)
    BY <2>2 DEF submit_artifact, ensure_active_lease, EndOneLease
  <2>3. CASE \E l \in DOMAIN leases, s \in LeaseSeconds, k \in Key \union {None} :
                renew_lease(l, s, k)
    <3>1. PICK l \in DOMAIN leases, s \in LeaseSeconds, k \in Key \union {None} :
             renew_lease(l, s, k)
      BY <2>3
    <3>2. /\ ensure_active_lease(l)
          /\ leases' = [leases EXCEPT ![l].expires = now + s]
          /\ now' = now
      BY <3>1 DEF renew_lease
    <3>3. leases[l].expires \in Int /\ now \in Int /\ now + s \in Int
      BY SecondsAssumption, LeaseFacts DEF TypeOK, Lease
    <3>4. ActiveLease(l)
      BY <3>2, <3>3 DEF ensure_active_lease, ActiveLease
    <3> QED BY <3>2, <3>3, <3>4 DEF ExtendLease
  <2>4. CASE \E l \in DOMAIN leases, k \in Key \union {None} : release_lease(l, k)
    BY <2>4 DEF release_lease, EndOneLease
  <2>5. CASE \E l \in DOMAIN leases, k \in Key : release_ended_lease(l, k)
    BY <2>5 DEF release_ended_lease, SameLeases, TypeOK
  <2>6. CASE expire_leases
    BY <2>6 DEF expire_leases, EndOverdue
  <2> QED BY <1>2, <2>1, <2>2, <2>3, <2>4, <2>5, <2>6 DEF OnLease
<1>3. CASE OnCard
  <2>1. ASSUME NEW c \in DOMAIN cards, NEW pipe, NEW k, validate_card(c, pipe, k)
        PROVE  leases' = leases /\ now' = now
    BY <2>1 DEF validate_card
  <2>2. ASSUME NEW c \in DOMAIN cards, NEW b, NEW k, move_card(c, b, k)
        PROVE  leases' = leases /\ now' = now
    BY <2>2 DEF move_card
  <2>3. ASSUME NEW c \in DOMAIN cards, NEW k, record_event(c, k)
        PROVE  leases' = leases /\ now' = now
    BY <2>3 DEF record_event
  <2> QED BY <1>0, <1>3, <2>1, <2>2, <2>3 DEF OnCard
<1>4. CASE Replays
  BY <1>4 DEF Replays, Replay, SameLeases, TypeOK
<1>5. CASE Tick
  BY <1>5 DEF Tick, SameLeases, TypeOK
<1>6. CASE UNCHANGED vars
  BY <1>6 DEF vars, SameLeases, TypeOK
<1> QED BY <1>1, <1>2, <1>3, <1>4, <1>5, <1>6 DEF Next

\* No step but a claim makes a lease active that was not: a renewal extends a
\* lease that is still active, and time only runs forward.
LEMMA NoRevival ==
    ASSUME TypeOK, SameLeases \/ ExtendLease \/ EndOneLease \/ EndOverdue
    PROVE  /\ DOMAIN leases' = DOMAIN leases
           /\ \A l \in DOMAIN leases : /\ leases'[l].card = leases[l].card
                                       /\ ActiveLease(l)' => ActiveLease(l)
<1>1. leases \in Seq(Lease) /\ now \in Nat
  BY DEF TypeOK, LeasesOK
<1>2. \A l \in DOMAIN leases : leases[l].expires \in Int /\ leases[l] \in Lease
  <2>1. \A l \in DOMAIN leases : leases[l] \in Lease
    BY <1>1
  <2> QED BY <2>1 DEF Lease
<1>3. CASE SameLeases
  BY <1>1, <1>2, <1>3 DEF SameLeases, ActiveLease
<1>4. CASE ExtendLease
  <2>1. PICK m \in DOMAIN leases, s \in LeaseSeconds :
           ActiveLease(m) /\ leases' = [leases EXCEPT ![m].expires = now + s] /\ now' = now
    BY <1>4 DEF ExtendLease
  <2>2. \A l \in DOMAIN leases : l # m => leases'[l] = leases[l]
    BY <2>1
  <2>3. leases'[m].card = leases[m].card
    BY <1>2, <2>1 DEF Lease
  <2>4. DOMAIN leases' = DOMAIN leases
    BY <2>1
  <2> QED BY <2>1, <2>2, <2>3, <2>4 DEF ActiveLease
<1>5. CASE EndOneLease
  <2>1. PICK m \in DOMAIN leases :
           leases' = [leases EXCEPT ![m].released = TRUE] /\ now' = now
    BY <1>5 DEF EndOneLease, end_lease
  <2>2. \A l \in DOMAIN leases : l # m => leases'[l] = leases[l]
    BY <2>1
  <2>3. leases'[m].card = leases[m].card /\ leases'[m].released
    BY <1>2, <2>1 DEF Lease
  <2>4. DOMAIN leases' = DOMAIN leases
    BY <2>1
  <2> QED BY <2>1, <2>2, <2>3, <2>4 DEF ActiveLease
<1>6. CASE EndOverdue
  <2>1. DOMAIN leases' = DOMAIN leases /\ now' = now
    BY <1>6 DEF EndOverdue
  <2>2. \A l \in DOMAIN leases :
           /\ leases'[l].card = leases[l].card
           /\ leases'[l].expires = leases[l].expires
           /\ leases[l].released => leases'[l].released
    BY <1>2, <1>6 DEF EndOverdue, Lease
  <2> QED BY <2>1, <2>2 DEF ActiveLease
<1> QED BY <1>3, <1>4, <1>5, <1>6

\* Every operation keeps leases exclusive.
LEMMA ExclusiveStep == TypeOK /\ ExclusiveLease /\ [Next]_vars => ExclusiveLease'
<1> SUFFICES ASSUME TypeOK, ExclusiveLease, [Next]_vars PROVE ExclusiveLease'
  OBVIOUS
<1>1. CASE SameLeases \/ ExtendLease \/ EndOneLease \/ EndOverdue
  BY <1>1, NoRevival DEF ExclusiveLease
<1>2. CASE AddLease
  <2>1. PICK new \in Lease :
           ~has_active_lease(new.card) /\ leases' = Append(leases, new) /\ now' = now
    BY <1>2 DEF AddLease
  <2>2. leases \in Seq(Lease) /\ Len(leases) \in Nat
    BY DEF TypeOK, LeasesOK
  <2>3. /\ DOMAIN leases' = DOMAIN leases \union {Len(leases) + 1}
        /\ Len(leases) + 1 \notin DOMAIN leases
        /\ leases'[Len(leases) + 1] = new
        /\ \A l \in DOMAIN leases : leases'[l] = leases[l]
    BY <2>1, <2>2
  <2>4. \A l \in DOMAIN leases : ActiveLease(l)' => ActiveLease(l)
    BY <2>1, <2>3 DEF ActiveLease
  <2>5. \A l \in DOMAIN leases : leases[l].card = new.card => ~ActiveLease(l)
    BY <2>1 DEF has_active_lease, LeasesOf
  <2> QED BY <2>3, <2>4, <2>5 DEF ExclusiveLease
<1> QED BY <1>1, <1>2, LeaseSteps

\* For all panels, pipes, keys, lease durations (zero and negative ones too) and
\* bounds: no two leases of one card are active at once (ExclusiveLease).
THEOREM ExclusiveLeases == Spec => []ExclusiveLease
<1>1. Init => ExclusiveLease
  BY DEF Init, ExclusiveLease
<1> QED BY <1>1, TypeCorrect, ExclusiveStep, PTL DEF Spec

\* No operation changes a lease that has ended.
LEMMA EndedStep ==
    ASSUME TypeOK, [Next]_vars, NEW l \in DOMAIN leases, leases[l].released
    PROVE  leases'[l] = leases[l]
<1>1. leases \in Seq(Lease) /\ leases[l] \in Lease
  BY DEF TypeOK, LeasesOK
<1>2. CASE SameLeases
  BY <1>2 DEF SameLeases
<1>3. CASE AddLease
  BY <1>1, <1>3 DEF AddLease
<1>4. CASE ExtendLease
  BY <1>4 DEF ExtendLease, ActiveLease
<1>5. CASE EndOneLease
  BY <1>5 DEF EndOneLease, end_lease
<1>6. CASE EndOverdue
  <2>1. leases'[l] = [leases[l] EXCEPT !.released = @ \/ l \in Overdue]
    BY <1>6 DEF EndOverdue
  <2>2. (leases[l].released \/ l \in Overdue) = leases[l].released
    BY <1>1 DEF Lease
  <2> QED BY <1>1, <2>1, <2>2 DEF Lease
<1> QED BY <1>2, <1>3, <1>4, <1>5, <1>6, LeaseSteps

\* For all constants: a lease that was submitted, released or expired stays
\* exactly as it ended (EndedLeaseIsFinal).
THEOREM EndedLeasesAreFinal == Spec => EndedLeaseIsFinal
<1>1. TypeOK /\ [Next]_vars =>
         [\A l \in DOMAIN leases : leases[l].released => leases'[l] = leases[l]]_vars
  BY EndedStep
<1> QED BY <1>1, TypeCorrect, PTL DEF Spec, EndedLeaseIsFinal

-----------------------------------------------------------------------------
(* The runtime implements LeaseService.                                     *)

Bounded == now \in 0..MaxTime /\ Len(cards) <= MaxCards

\* The bounds on the clock and on the number of cards are kept.
LEMMA BoundedStep == TypeOK /\ Bounded /\ [Next]_vars => Bounded'
<1> SUFFICES ASSUME TypeOK, Bounded, [Next]_vars PROVE Bounded'
  OBVIOUS
<1>1. now' = now \/ (now < MaxTime /\ now' = now + 1)
  BY DEF Next, OnPanel, OnLease, OnCard, Replays, Tick, vars, register_patch_panel, create_card,
         claim_card, submit_artifact, renew_lease, release_lease, release_ended_lease,
         expire_leases, validate_card, move_card, record_event, Replay
<1>2. now' \in 0..MaxTime
  BY <1>1, BoundsAssumption DEF Bounded
<1>3. Len(cards') = Len(cards) \/ (Len(cards) < MaxCards /\ Len(cards') = Len(cards) + 1)
  <2>1. ASSUME NEW id \in PanelId, NEW k \in Key \union {None}, create_card(id, k)
        PROVE  Len(cards) < MaxCards /\ Len(cards') = Len(cards) + 1
    <3>1. PICK new : cards' = Append(cards, new) /\ Len(cards) < MaxCards
      BY <2>1 DEF create_card
    <3> QED BY <3>1 DEF TypeOK, CardsOK
  <2>2. ASSUME NEW c, NEW b, cards' = [cards EXCEPT ![c].bucket = b]
        PROVE  Len(cards') = Len(cards)
    <3>1. DOMAIN cards' = DOMAIN cards
      BY <2>2
    <3>2. cards' \in Seq(Card) /\ cards \in Seq(Card)
      BY TypeStep DEF TypeOK, CardsOK
    <3> QED BY <3>1, <3>2
  <2>3. CASE OnPanel
    BY <2>1, <2>3 DEF OnPanel, register_patch_panel
  <2>4. CASE OnLease
    BY <2>2, <2>4 DEF OnLease, claim_card, submit_artifact, renew_lease, release_lease,
                      release_ended_lease, expire_leases
  <2>5. CASE OnCard
    BY <2>2, <2>5 DEF OnCard, validate_card, move_card, record_event
  <2>6. CASE Replays \/ Tick \/ UNCHANGED vars
    BY <2>6 DEF Replays, Replay, Tick, vars
  <2> QED BY <2>3, <2>4, <2>5, <2>6 DEF Next
<1>4. Len(cards) \in Nat
  BY DEF TypeOK, CardsOK
<1>5. Len(cards') <= MaxCards
  BY <1>3, <1>4, BoundsAssumption DEF Bounded
<1> QED BY <1>2, <1>5 DEF Bounded

\* What LeaseView shows of the leases.
LEMMA ViewFacts ==
    ASSUME TypeOK
    PROVE  /\ DOMAIN LeaseView = DOMAIN leases
           /\ \A l \in DOMAIN leases :
                 /\ LeaseView[l].card = leases[l].card
                 /\ LeaseView[l].expires = leases[l].expires
                 /\ LeaseView[l].released = leases[l].released
                 /\ Service!Active(l) <=> ActiveLease(l)
<1>1. DOMAIN LeaseView = DOMAIN leases
      /\ \A l \in DOMAIN leases :
            /\ LeaseView[l].card = leases[l].card
            /\ LeaseView[l].expires = leases[l].expires
            /\ LeaseView[l].released = leases[l].released
  BY DEF LeaseView
<1> QED BY <1>1 DEF Service!Active, ActiveLease

Shown(x) == [card |-> x.card, expires |-> x.expires, released |-> x.released]

\* LeaseView is a sequence as long as the leases.
LEMMA ViewIsSequence ==
    ASSUME leases \in Seq(Lease)
    PROVE  /\ LeaseView = [l \in 1..Len(leases) |-> Shown(leases[l])]
           /\ LeaseView \in Seq([card : Nat, expires : Int, released : BOOLEAN])
           /\ Len(LeaseView) = Len(leases)
           /\ DOMAIN LeaseView = DOMAIN leases
<1> DEFINE R == [card : Nat, expires : Int, released : BOOLEAN]
<1>1. DOMAIN leases = 1..Len(leases) /\ Len(leases) \in Nat
      /\ \A l \in 1..Len(leases) : leases[l] \in Lease
  OBVIOUS
<1>2. LeaseView = [l \in 1..Len(leases) |-> Shown(leases[l])]
  BY <1>1 DEF LeaseView, Shown
<1>3. \A l \in 1..Len(leases) : Shown(leases[l]) \in R
  BY <1>1 DEF Shown, Lease
<1> HIDE DEF R
<1>4. LeaseView \in Seq(R) /\ Len(LeaseView) = Len(leases)
  BY <1>1, <1>2, <1>3
<1>5. DOMAIN LeaseView = DOMAIN leases
  BY <1>1, <1>2
<1> QED BY <1>2, <1>4, <1>5 DEF R

\* A claim is an acquisition.
LEMMA AddLeaseRefines ==
    ASSUME TypeOK, TypeOK', Bounded, AddLease
    PROVE  \E c \in 1..MaxCards, e \in Expiry : Service!Acquire(c, e)
<1>1. PICK new \in Lease, s \in LeaseSeconds :
         /\ ~has_active_lease(new.card)
         /\ new.card \in DOMAIN cards
         /\ ~new.released
         /\ new.expires = now + s
         /\ leases' = Append(leases, new)
         /\ now' = now
  BY DEF AddLease
<1>2. leases \in Seq(Lease) /\ leases' \in Seq(Lease) /\ Len(leases) \in Nat
  BY DEF TypeOK, LeasesOK
<1>3. new.card \in 1..MaxCards
  <2>1. DOMAIN cards = 1..Len(cards) /\ Len(cards) \in Nat
    BY DEF TypeOK, CardsOK
  <2> QED BY <1>1, <2>1, BoundsAssumption DEF Bounded
<1>4. new.expires \in Expiry
  BY <1>1 DEF Expiry, Bounded
<1>5. \A l \in DOMAIN LeaseView : LeaseView[l].card = new.card => ~Service!Active(l)
  BY <1>1, ViewFacts DEF has_active_lease, LeasesOf
<1> DEFINE shown == [card |-> new.card, expires |-> new.expires, released |-> FALSE]
<1>6. Shown(new) = shown
  <2>1. new.released = FALSE
    BY <1>1 DEF Lease
  <2> QED BY <2>1 DEF Shown
<1>7. LeaseView' = Append(LeaseView, shown)
  <2>1. Len(leases') = Len(leases) + 1 /\ leases'[Len(leases) + 1] = new
        /\ \A l \in 1..Len(leases) : leases'[l] = leases[l]
    BY <1>1, <1>2
  <2>2. LeaseView' = [l \in 1..(Len(leases) + 1) |-> Shown(leases'[l])]
    BY <1>2, <2>1 DEF LeaseView, Shown
  <2>3. LeaseView = [l \in 1..Len(leases) |-> Shown(leases[l])] /\ Len(LeaseView) = Len(leases)
        /\ LeaseView \in Seq([card : Nat, expires : Int, released : BOOLEAN])
    BY <1>2, ViewIsSequence
  <2> HIDE DEF shown
  <2>4. Append(LeaseView, shown) = [l \in 1..(Len(leases) + 1) |->
                                      IF l = Len(leases) + 1 THEN shown ELSE LeaseView[l]]
    BY <1>2, <2>3
  <2>5. \A l \in 1..(Len(leases) + 1) :
           Shown(leases'[l]) = IF l = Len(leases) + 1 THEN shown ELSE LeaseView[l]
    BY <1>2, <1>6, <2>1, <2>3
  <2> QED BY <2>2, <2>4, <2>5
<1>8. Service!Acquire(new.card, new.expires)
  BY <1>1, <1>5, <1>7 DEF Service!Acquire
<1> QED BY <1>3, <1>4, <1>8

\* A renewal is a renewal.
LEMMA ExtendLeaseRefines ==
    ASSUME TypeOK, TypeOK', Bounded, ExtendLease
    PROVE  \E l \in DOMAIN LeaseView, e \in Expiry : Service!Renew(l, e)
<1>1. PICK l \in DOMAIN leases, s \in LeaseSeconds :
         /\ ActiveLease(l)
         /\ leases' = [leases EXCEPT ![l].expires = now + s]
         /\ now' = now
  BY DEF ExtendLease
<1>2. leases \in Seq(Lease) /\ leases[l] \in Lease
  BY DEF TypeOK, LeasesOK
<1>3. now + s \in Expiry
  BY DEF Expiry, Bounded
<1>4. Service!Active(l)
  BY <1>1, ViewFacts
<1>5. LeaseView' = [LeaseView EXCEPT ![l].expires = now + s]
  BY <1>1, <1>2 DEF LeaseView, Lease
<1>6. Service!Renew(l, now + s)
  BY <1>1, <1>4, <1>5 DEF Service!Renew
<1> QED BY <1>3, <1>6, ViewFacts

\* A submission or a release ends one lease.
LEMMA EndOneLeaseRefines ==
    ASSUME TypeOK, TypeOK', EndOneLease
    PROVE  \E L \in SUBSET DOMAIN LeaseView : Service!End(L)
<1>1. PICK m \in DOMAIN leases :
         ~leases[m].released /\ leases' = [leases EXCEPT ![m].released = TRUE] /\ now' = now
  BY DEF EndOneLease, end_lease
<1>2. \A l \in DOMAIN leases : leases[l] \in Lease
  BY DEF TypeOK, LeasesOK
<1>3. LeaseView' = [l \in DOMAIN LeaseView |->
                      [LeaseView[l] EXCEPT !.released = @ \/ l \in {m}]]
  <2>1. \A l \in DOMAIN leases :
           leases'[l].card = leases[l].card /\ leases'[l].expires = leases[l].expires
           /\ leases'[l].released = (leases[l].released \/ l \in {m})
    BY <1>1, <1>2 DEF Lease
  <2>2. DOMAIN leases' = DOMAIN leases
    BY <1>1
  <2> QED BY <2>1, <2>2 DEF LeaseView
<1>4. Service!End({m})
  BY <1>1, <1>3, ViewFacts DEF Service!End
<1> QED BY <1>4, ViewFacts

\* A sweep ends the overdue leases.
LEMMA EndOverdueRefines ==
    ASSUME TypeOK, EndOverdue
    PROVE  \E L \in SUBSET DOMAIN LeaseView : Service!End(L)
<1>1. \A l \in DOMAIN leases : leases[l] \in Lease
  BY DEF TypeOK, LeasesOK
<1>2. LeaseView' = [l \in DOMAIN LeaseView |->
                      [LeaseView[l] EXCEPT !.released = @ \/ l \in Overdue]]
  <2>1. DOMAIN leases' = DOMAIN leases
    BY DEF EndOverdue
  <2>2. \A l \in DOMAIN leases :
           leases'[l].card = leases[l].card /\ leases'[l].expires = leases[l].expires
           /\ leases'[l].released = (leases[l].released \/ l \in Overdue)
    BY <1>1 DEF EndOverdue, Lease
  <2> QED BY <2>1, <2>2 DEF LeaseView
<1>3. Overdue \subseteq DOMAIN leases /\ \A l \in Overdue : ~leases[l].released
  BY DEF Overdue
<1>4. Service!End(Overdue)
  BY <1>2, <1>3, ViewFacts DEF Service!End, EndOverdue
<1> QED BY <1>3, <1>4, ViewFacts

\* For all constants: what the in-memory runtime does to its leases is what
\* LeaseService allows (ImplementsLeaseService).
THEOREM LeasesAsPromised == Spec => ImplementsLeaseService
<1>1. Init => Service!Init
  <2> SUFFICES ASSUME Init PROVE Service!Init
    OBVIOUS
  <2>1. leases = << >> /\ now = 0
    BY DEF Init
  <2>2. LeaseView = << >>
    BY <2>1 DEF LeaseView
  <2> QED BY <2>1, <2>2 DEF Service!Init
<1>2. TypeOK /\ TypeOK' /\ Bounded /\ [Next]_vars => [Service!Next]_(Service!vars)
  <2> SUFFICES ASSUME TypeOK, TypeOK', Bounded, [Next]_vars
               PROVE  [Service!Next]_(Service!vars)
    OBVIOUS
  <2>1. CASE SameLeases
    <3>1. LeaseView' = LeaseView
      BY <2>1 DEF SameLeases, LeaseView
    <3>2. CASE now' = now
      BY <3>1, <3>2 DEF Service!vars
    <3>3. CASE now' = now + 1
      BY <3>1, <3>3 DEF Service!Next, Service!Tick
    <3> QED BY <2>1, <3>2, <3>3 DEF SameLeases
  <2>2. CASE AddLease
    BY <2>2, AddLeaseRefines DEF Service!Next
  <2>3. CASE ExtendLease
    BY <2>3, ExtendLeaseRefines DEF Service!Next
  <2>4. CASE EndOneLease
    BY <2>4, EndOneLeaseRefines DEF Service!Next
  <2>5. CASE EndOverdue
    BY <2>5, EndOverdueRefines DEF Service!Next
  <2> QED BY <2>1, <2>2, <2>3, <2>4, <2>5, LeaseSteps
<1>3. Init => Bounded
  BY BoundsAssumption DEF Init, Bounded
<1> QED BY <1>1, <1>2, <1>3, BoundedStep, TypeInit, TypeStep, PTL
        DEF Spec, ImplementsLeaseService, Service!Spec

-----------------------------------------------------------------------------
(* Evidence.  What a step adds to the histories, and what it does to the    *)
(* cards, the leases and the artifacts in the same breath.                  *)

\* Nothing that the evidence is about changes.
NoEvidence == UNCHANGED <<cards, leases, events, artifacts>>

\* A card is created with its first event.
NewCard ==
    \E new \in Card :
        /\ cards' = Append(cards, new)
        /\ events' = Append(events, <<MkEvent("card_created", 0, None, new.bucket)>>)
        /\ UNCHANGED <<leases, artifacts>>

\* The event e about card c names the bucket it puts the card into, if any.
LocationStep(c, e) ==
    /\ \/ e.to = None /\ cards' = cards
       \/ e.to \in Bucket /\ cards' = [cards EXCEPT ![c].bucket = e.to]
    /\ e.type = "card_moved" => e.from = cards[c].bucket

\* A lease is granted on what its card's own panel version binds to the pipe.
FromInput(c, new) ==
    \E id \in DOMAIN panels :
        /\ panels[id] \in Panels
        /\ workflow_version(panels[id]) = cards[c].workflow_version
        /\ Resolvable(panels[id], new.pipe, "input")
        /\ new.node = pipe_node(panels[id], new.pipe, "input")
        /\ cards[c].bucket = pipe_bucket(panels[id], new.pipe)

ClaimStep(c, e) ==
    \E new \in Lease : /\ new.card = c
                       /\ new.released = FALSE
                       /\ FromInput(c, new)
                       /\ leases' = Append(leases, new)
                       /\ e.type = "card_claimed"
                       /\ e.lease = Len(leases) + 1
                       /\ e.to = None

RenewStep(c, e) ==
    \E l \in DOMAIN leases, t \in Int : /\ leases[l].card = c
                                        /\ leases[l].released = FALSE
                                        /\ e.lease = l
                                        /\ e.type = "lease_renewed"
                                        /\ leases' = [leases EXCEPT ![l].expires = t]

EndStep(c, e) ==
    \E l \in DOMAIN leases : /\ leases[l].card = c
                             /\ leases[l].released = FALSE
                             /\ e.lease = l
                             /\ e.type \in EndEvent
                             /\ end_lease(l)

LeaseEvent == {"card_claimed", "lease_renewed"} \union EndEvent

\* The event e about card c is about what happens to a lease, or about no lease.
LeaseStep(c, e) ==
    \/ e.lease = 0 /\ e.type \notin LeaseEvent /\ leases' = leases
    \/ ClaimStep(c, e)
    \/ RenewStep(c, e)
    \/ EndStep(c, e)

\* Artifacts are stored only with the event that submits them.
ArtifactStep(c, e) ==
    \/ artifacts' = artifacts
    \/ /\ e.type = "artifact_submitted"
       /\ \E refs \in RefLists :
             /\ \A r \in Elements(refs) : r.card_id = c
             /\ LET ids == { r.id : r \in Elements(refs) } IN
                artifacts' = [a \in DOMAIN artifacts \union ids |->
                                IF a \in ids THEN [card |-> c, event |-> Len(events[c]) + 1]
                                ELSE artifacts[a]]

\* One event is recorded.
OneEvent ==
    \E c \in DOMAIN cards, e \in Event : /\ record(c, e)
                                         /\ LocationStep(c, e)
                                         /\ LeaseStep(c, e)
                                         /\ ArtifactStep(c, e)

\* What the fields of a recorded event are.
LEMMA EventFields ==
    ASSUME NEW type, NEW lease, NEW from, NEW to
    PROVE  /\ MkEvent(type, lease, from, to).type = type
           /\ MkEvent(type, lease, from, to).lease = lease
           /\ MkEvent(type, lease, from, to).from = from
           /\ MkEvent(type, lease, from, to).to = to
BY DEF MkEvent

\* create_card writes the first event of the card's history.
LEMMA CreateEvidence ==
    ASSUME TypeOK, NEW id \in PanelId, NEW k, create_card(id, k)
    PROVE  NewCard
<1> DEFINE b == resolve_initial_bucket(panels[id])
           new == [workflow_version |-> workflow_version(panels[id]), bucket |-> b]
<1>1. panels[id] \in Panels
  BY DEF TypeOK, PanelsOK, create_card
<1>2. b \in Bucket
  BY <1>1, InitialBucketType DEF create_card
<1>3. new \in Card /\ new.bucket = b
  BY <1>1, <1>2 DEF Card, WorkflowVersion
<1>4. cards' = Append(cards, new)
      /\ events' = Append(events, <<MkEvent("card_created", 0, None, b)>>)
      /\ UNCHANGED <<leases, artifacts>>
  BY DEF create_card
<1> HIDE DEF new, b
<1> QED BY <1>3, <1>4 DEF NewCard

\* claim_card records the claim of the lease it grants, on a card in the bucket
\* of the claimed pipe.
LEMMA ClaimEvidence ==
    ASSUME TypeOK, NEW pipe \in Pipe, NEW s \in LeaseSeconds, NEW k, claim_card(pipe, s, k)
    PROVE  OneEvent
<1>1. PICK id \in DOMAIN panels :
         /\ claim_target(pipe, id)
         /\ LET c == Least(Claimable(panels[id], pipe_bucket(panels[id], pipe))) IN
            /\ leases' = Append(leases, [card |-> c,
                                      node |-> pipe_node(panels[id], pipe, "input"),
                                      pipe |-> pipe,
                                      expires |-> now + s,
                                      released |-> FALSE])
            /\ record(c, MkEvent("card_claimed", Len(leases'), None, None))
  BY DEF claim_card
<1> DEFINE S == Claimable(panels[id], pipe_bucket(panels[id], pipe))
           c == Least(S)
           new == [card |-> c, node |-> pipe_node(panels[id], pipe, "input"), pipe |-> pipe,
                   expires |-> now + s, released |-> FALSE]
           e == MkEvent("card_claimed", Len(leases'), None, None)
<1>2. leases' = Append(leases, new) /\ record(c, e)
  BY <1>1
<1>3. panels[id] \in Panels /\ Resolvable(panels[id], pipe, "input") /\ c \in DOMAIN cards
  BY <1>1, ClaimedCard
<1>4. c \in S
  <2>1. S # {}
    BY <1>1 DEF claim_target, WithCards
  <2>2. S \in SUBSET Nat
    BY DEF Claimable, TypeOK, CardsOK
  <2> HIDE DEF S
  <2> QED BY <2>1, <2>2, LeastOfNaturals
<1>5. cards[c].workflow_version = workflow_version(panels[id])
      /\ cards[c].bucket = pipe_bucket(panels[id], pipe)
  BY <1>4 DEF Claimable
<1> HIDE DEF c
<1>6. c \in Nat
  BY <1>3 DEF TypeOK, CardsOK
<1>7. new \in Lease
  <2>1. pipe_node(panels[id], pipe, "input") \in NodeId
    BY <1>3, PipeResolution
  <2>2. now + s \in Int
    BY SecondsAssumption DEF TypeOK
  <2> QED BY <1>6, <2>1, <2>2 DEF Lease
<1>8. new.card = c /\ new.released = FALSE /\ new.pipe = pipe
      /\ new.node = pipe_node(panels[id], pipe, "input")
  OBVIOUS
<1> HIDE DEF new, S
<1>9. FromInput(c, new)
  BY <1>3, <1>5, <1>8 DEF FromInput
<1>10. leases \in Seq(Lease) /\ Len(leases) \in Nat
  BY DEF TypeOK, LeasesOK
<1>11. Len(leases') = Len(leases) + 1
  BY <1>2, <1>7, <1>10
<1>12. e \in Event
  <2>1. Len(leases') \in Nat /\ "card_claimed" \in EventType
    BY <1>10, <1>11 DEF EventType
  <2> QED BY <2>1, EventTypes
<1>13. e.type = "card_claimed" /\ e.lease = Len(leases) + 1 /\ e.to = None
  BY <1>11, EventFields
<1> HIDE DEF e
<1>14. ClaimStep(c, e)
  BY <1>2, <1>7, <1>8, <1>9, <1>13 DEF ClaimStep
<1>15. cards' = cards /\ artifacts' = artifacts
  BY DEF claim_card
<1>16. LocationStep(c, e) /\ ArtifactStep(c, e) /\ LeaseStep(c, e)
  BY <1>13, <1>14, <1>15 DEF LocationStep, ArtifactStep, LeaseStep
<1> QED BY <1>2, <1>3, <1>12, <1>16 DEF OneEvent

\* submit_artifact records the end of its lease, where the card went, and the
\* event its artifacts point at.
LEMMA SubmitEvidence ==
    ASSUME TypeOK, NEW l \in DOMAIN leases, NEW pipe, NEW refs \in RefLists, NEW k,
           submit_artifact(l, pipe, refs, k)
    PROVE  OneEvent
<1> DEFINE c == leases[l].card
           b == pipe_bucket(panel_for_card(c), pipe)
           e == MkEvent("artifact_submitted", l, None, b)
<1>1. l \in Nat /\ c \in DOMAIN cards /\ leases[l] \in Lease
  BY LeaseFacts
<1>2. b \in Bucket
  <2>1. PanelRegistered(c) /\ Resolvable(panel_for_card(c), pipe, "output")
    BY DEF submit_artifact
  <2> QED BY <2>1, PanelOfCard, PipeResolution
<1>3. cards' = [cards EXCEPT ![c].bucket = b] /\ end_lease(l) /\ record(c, e)
  BY DEF submit_artifact
<1>4. ~leases[l].released /\ \A r \in Elements(refs) : r.card_id = c
  BY DEF submit_artifact, ensure_active_lease, ensure_artifact_refs_belong_to_card
<1>5. artifacts' = [a \in DOMAIN artifacts \union { r.id : r \in Elements(refs) } |->
                      IF a \in { r.id : r \in Elements(refs) }
                      THEN [card |-> c, event |-> Len(events[c]) + 1]
                      ELSE artifacts[a]]
  BY DEF submit_artifact
<1>6. leases[l].released = FALSE
  BY <1>1, <1>4 DEF Lease
<1>7. e \in Event
  BY <1>1, <1>2, EventTypes DEF EventType
<1>8. e.type = "artifact_submitted" /\ e.lease = l /\ e.to = b
  BY EventFields
<1>9. leases[l].card = c
  OBVIOUS
<1> HIDE DEF e, b, c
<1>10. EndStep(c, e)
  BY <1>3, <1>6, <1>8, <1>9 DEF EndStep, EndEvent
<1>11. ArtifactStep(c, e)
  BY <1>4, <1>5, <1>8 DEF ArtifactStep
<1>12. LocationStep(c, e) /\ LeaseStep(c, e)
  BY <1>2, <1>3, <1>8, <1>10 DEF LocationStep, LeaseStep
<1> QED BY <1>1, <1>3, <1>7, <1>11, <1>12 DEF OneEvent

\* renew_lease and release_lease record what they do to the lease.
LEMMA RenewEvidence ==
    ASSUME TypeOK, NEW l \in DOMAIN leases, NEW s \in LeaseSeconds, NEW k, renew_lease(l, s, k)
    PROVE  OneEvent
<1> DEFINE c == leases[l].card
           e == MkEvent("lease_renewed", l, None, None)
<1>1. l \in Nat /\ c \in DOMAIN cards /\ leases[l] \in Lease
  BY LeaseFacts
<1>2. record(c, e) /\ ~leases[l].released /\ leases' = [leases EXCEPT ![l].expires = now + s]
      /\ cards' = cards /\ artifacts' = artifacts
  BY DEF renew_lease, ensure_active_lease
<1>3. leases[l].released = FALSE /\ leases[l].card = c
  BY <1>1, <1>2 DEF Lease
<1>4. now + s \in Int
  BY SecondsAssumption DEF TypeOK
<1>5. e \in Event
  BY <1>1, EventTypes DEF EventType
<1>6. e.type = "lease_renewed" /\ e.lease = l /\ e.to = None
  BY EventFields
<1> HIDE DEF e, c
<1>7. RenewStep(c, e)
  BY <1>2, <1>3, <1>4, <1>6 DEF RenewStep
<1>8. LocationStep(c, e) /\ LeaseStep(c, e) /\ ArtifactStep(c, e)
  BY <1>2, <1>6, <1>7 DEF LocationStep, LeaseStep, ArtifactStep
<1> QED BY <1>1, <1>2, <1>5, <1>8 DEF OneEvent

\* release_lease records the end of the lease.
LEMMA ReleaseEvidence ==
    ASSUME TypeOK, NEW l \in DOMAIN leases, NEW k, release_lease(l, k)
    PROVE  OneEvent
<1> DEFINE c == leases[l].card
           e == MkEvent("lease_released", l, None, None)
<1>1. l \in Nat /\ c \in DOMAIN cards /\ leases[l] \in Lease
  BY LeaseFacts
<1>2. record(c, e) /\ ~leases[l].released /\ end_lease(l)
      /\ cards' = cards /\ artifacts' = artifacts
  BY DEF release_lease
<1>3. leases[l].released = FALSE /\ leases[l].card = c
  BY <1>1, <1>2 DEF Lease
<1>5. e \in Event
  BY <1>1, EventTypes DEF EventType
<1>6. e.type = "lease_released" /\ e.lease = l /\ e.to = None
  BY EventFields
<1> HIDE DEF e, c
<1>7. EndStep(c, e)
  BY <1>2, <1>3, <1>6 DEF EndStep, EndEvent
<1>8. LocationStep(c, e) /\ LeaseStep(c, e) /\ ArtifactStep(c, e)
  BY <1>2, <1>6, <1>7 DEF LocationStep, LeaseStep, ArtifactStep
<1> QED BY <1>1, <1>2, <1>5, <1>8 DEF OneEvent

\* An event about no lease, with the bucket it puts the card into.
LEMMA CardEvidence ==
    ASSUME TypeOK, NEW c \in DOMAIN cards, NEW e \in Event, record(c, e),
           e.lease = 0, e.type \notin LeaseEvent, LocationStep(c, e),
           leases' = leases, artifacts' = artifacts
    PROVE  OneEvent
BY DEF OneEvent, LeaseStep, ArtifactStep

\* validate_card records where it sent the card.
LEMMA ValidateEvidence ==
    ASSUME TypeOK, NEW c \in DOMAIN cards, NEW pipe, NEW k, validate_card(c, pipe, k)
    PROVE  OneEvent
<1> DEFINE p == panel_for_card(c)
<1>1. leases' = leases /\ artifacts' = artifacts
  BY DEF validate_card
<1>2. PICK b \in Bucket \union {None} :
         /\ record(c, validated(b))
         /\ \/ b = None /\ cards' = cards
            \/ b \in Bucket /\ cards' = [cards EXCEPT ![c].bucket = b]
  <2>1. CASE pipe = None
    BY <2>1 DEF validate_card
  <2>2. CASE pipe # None
    <3>1. PanelRegistered(c) /\ Resolvable(p, pipe, "output")
          /\ cards' = [cards EXCEPT ![c].bucket = pipe_bucket(p, pipe)]
          /\ record(c, validated(pipe_bucket(p, pipe)))
      BY <2>2 DEF validate_card
    <3> HIDE DEF p
    <3>2. pipe_bucket(p, pipe) \in Bucket
      BY <3>1, PanelOfCard, PipeResolution DEF p
    <3> QED BY <3>1, <3>2
  <2> QED BY <2>1, <2>2
<1>3. validated(b) \in Event
  BY EventTypes DEF validated, EventType
<1>4. validated(b).type = "card_validated" /\ validated(b).lease = 0 /\ validated(b).to = b
  BY EventFields DEF validated
<1> DEFINE e == validated(b)
<1>5. e \in Event /\ record(c, e) /\ e.lease = 0 /\ e.type \notin LeaseEvent
  BY <1>2, <1>3, <1>4 DEF LeaseEvent, EndEvent
<1>6. LocationStep(c, e)
  BY <1>2, <1>4 DEF LocationStep
<1> HIDE DEF e
<1> QED BY <1>1, <1>5, <1>6, CardEvidence

\* move_card records where it took the card from and where to.
LEMMA MoveEvidence ==
    ASSUME TypeOK, NEW c \in DOMAIN cards, NEW b \in Bucket, NEW k, move_card(c, b, k)
    PROVE  OneEvent
<1> DEFINE e == MkEvent("card_moved", 0, cards[c].bucket, b)
<1>1. cards' = [cards EXCEPT ![c].bucket = b] /\ record(c, e)
      /\ leases' = leases /\ artifacts' = artifacts
  BY DEF move_card
<1>2. cards[c].bucket \in Bucket
  <2>1. cards[c] \in Card
    BY DEF TypeOK, CardsOK
  <2> QED BY <2>1 DEF Card
<1>3. e \in Event
  BY <1>2, EventTypes DEF EventType
<1>4. e.type = "card_moved" /\ e.lease = 0 /\ e.from = cards[c].bucket /\ e.to = b
  BY EventFields
<1> HIDE DEF e
<1>5. e.type \notin LeaseEvent /\ LocationStep(c, e)
  BY <1>1, <1>4 DEF LeaseEvent, EndEvent, LocationStep
<1> QED BY <1>1, <1>3, <1>4, <1>5, CardEvidence

\* record_event records an event about neither a lease nor a bucket.
LEMMA RecordEvidence ==
    ASSUME TypeOK, NEW c \in DOMAIN cards, NEW k, record_event(c, k)
    PROVE  OneEvent
<1> DEFINE e == MkEvent("recorded", 0, None, None)
<1>1. cards' = cards /\ record(c, e) /\ leases' = leases /\ artifacts' = artifacts
  BY DEF record_event
<1>3. e \in Event
  BY EventTypes DEF EventType
<1>4. e.type = "recorded" /\ e.lease = 0 /\ e.to = None
  BY EventFields
<1> HIDE DEF e
<1>5. e.type \notin LeaseEvent /\ LocationStep(c, e)
  BY <1>1, <1>4 DEF LeaseEvent, EndEvent, LocationStep
<1> QED BY <1>1, <1>3, <1>4, <1>5, CardEvidence

\* Every operation leaves one of four traces in the evidence.
LEMMA EvidenceSteps ==
    ASSUME TypeOK, [Next]_vars
    PROVE  NoEvidence \/ NewCard \/ OneEvent \/ expire_leases
<1>1. CASE OnPanel
  <2>1. CASE \E p \in Panels : register_patch_panel(p)
    BY <2>1 DEF register_patch_panel, NoEvidence
  <2> QED BY <1>1, <2>1, CreateEvidence DEF OnPanel
<1>2. CASE OnLease
  <2>1. CASE \E l \in DOMAIN leases, k \in Key : release_ended_lease(l, k)
    BY <2>1 DEF release_ended_lease, NoEvidence
  <2> QED BY <1>2, <2>1, ClaimEvidence, SubmitEvidence, RenewEvidence, ReleaseEvidence
          DEF OnLease
<1>3. CASE OnCard
  BY <1>3, ValidateEvidence, MoveEvidence, RecordEvidence DEF OnCard
<1>4. CASE Replays \/ Tick \/ UNCHANGED vars
  BY <1>4 DEF Replays, Replay, Tick, vars, NoEvidence
<1> QED BY <1>1, <1>2, <1>3, <1>4 DEF Next

-----------------------------------------------------------------------------
(* Histories.                                                               *)

\* h2 is h with events added at the end.
Longer(h, h2) == Len(h) <= Len(h2) /\ \A i \in 1..Len(h) : h2[i] = h[i]

\* The events of h2 that h does not have.
Added(h, h2) == { i \in DOMAIN h2 : i > Len(h) }

\* The events of a longer history are those of the shorter one and the added
\* ones, which come after them.
LEMMA LongerFacts ==
    ASSUME NEW h \in Seq(Event), NEW h2 \in Seq(Event), Longer(h, h2)
    PROVE  /\ DOMAIN h2 = DOMAIN h \union Added(h, h2)
           /\ DOMAIN h \subseteq Nat /\ DOMAIN h2 \subseteq Nat
           /\ \A i \in DOMAIN h : i \notin Added(h, h2) /\ h2[i] = h[i]
           /\ \A i \in DOMAIN h, j \in Added(h, h2) : i < j /\ ~(j <= i)
<1>1. DOMAIN h = 1..Len(h) /\ DOMAIN h2 = 1..Len(h2) /\ Len(h) \in Nat /\ Len(h2) \in Nat
  OBVIOUS
<1> QED BY <1>1 DEF Longer, Added

\* Recording one event makes the history longer by just that event.
LEMMA AppendIsLonger ==
    ASSUME NEW h \in Seq(Event), NEW e \in Event
    PROVE  /\ Append(h, e) \in Seq(Event)
           /\ Longer(h, Append(h, e))
           /\ Added(h, Append(h, e)) = {Len(h) + 1}
           /\ Append(h, e)[Len(h) + 1] = e
<1>1. Len(h) \in Nat /\ Append(h, e) \in Seq(Event) /\ Len(Append(h, e)) = Len(h) + 1
      /\ DOMAIN Append(h, e) = 1..(Len(h) + 1)
      /\ Append(h, e)[Len(h) + 1] = e /\ \A i \in 1..Len(h) : Append(h, e)[i] = h[i]
  OBVIOUS
<1> QED BY <1>1 DEF Longer, Added

\* _record_event changes the history of one card, and appends to it.
LEMMA RecordFacts ==
    ASSUME TypeOK, NEW c \in DOMAIN cards, NEW e \in Event, record(c, e)
    PROVE  /\ events[c] \in Seq(Event)
           /\ events'[c] = Append(events[c], e)
           /\ DOMAIN events' = DOMAIN events
           /\ \A d \in DOMAIN cards : d # c => events'[d] = events[d]
<1>1. DOMAIN events = DOMAIN cards /\ events \in Seq(Seq(Event))
  BY DEF TypeOK, CardsOK
<1>2. events[c] \in Seq(Event)
  BY <1>1
<1>3. events' = [events EXCEPT ![c] = Append(events[c], e)]
  BY DEF record
<1> QED BY <1>1, <1>2, <1>3

\* The histories of the runtime are sequences of events.
LEMMA HistoryType ==
    ASSUME TypeOK, NEW c \in DOMAIN cards
    PROVE  events[c] \in Seq(Event) /\ c \in Nat /\ cards[c] \in Card /\ c \in DOMAIN events
BY DEF TypeOK, CardsOK

\* The leases of card c that a sweep ends.
Due(c) == { l \in Overdue : leases[l].card = c }

\* A sweep records one event about each lease it ends on a card, and no other.
LEMMA ExpiryEventsFacts ==
    ASSUME TypeOK, NEW c
    PROVE  /\ ExpiryEvents(c) \in Seq(Event)
           /\ \A i \in DOMAIN ExpiryEvents(c) : /\ ExpiryEvents(c)[i].type = "lease_expired"
                                                /\ ExpiryEvents(c)[i].to = None
                                                /\ ExpiryEvents(c)[i].lease \in Due(c)
           /\ \A l \in Due(c) : \E j \in DOMAIN ExpiryEvents(c) :
                 /\ ExpiryEvents(c)[j].lease = l
                 /\ \A i \in DOMAIN ExpiryEvents(c) : ExpiryEvents(c)[i].lease = l => i = j
<1> DEFINE D == Due(c)
           n == Cardinality(D)
<1>1. D \in SUBSET Nat /\ IsFiniteSet(D)
  <2>1. D \in SUBSET (1..Len(leases)) /\ Len(leases) \in Nat
    BY DEF TypeOK, LeasesOK, Overdue, Due
  <2> HIDE DEF D
  <2>2. IsFiniteSet(1..Len(leases))
    BY <2>1, FS_Interval
  <2>3. D \in SUBSET Nat
    BY <2>1
  <2>4. IsFiniteSet(D)
    BY <2>1, <2>2, FS_Subset
  <2> QED BY <2>3, <2>4
<1>2. n \in Nat
  BY <1>1, FS_CardinalityType
<1>3. ExpiryEvents(c) = [i \in 1..n |-> MkEvent("lease_expired", Nth(i, D), None, None)]
  BY DEF ExpiryEvents, Due
<1> HIDE DEF D
<1>4. DOMAIN ExpiryEvents(c) = 1..n
      /\ \A i \in 1..n : ExpiryEvents(c)[i] = MkEvent("lease_expired", Nth(i, D), None, None)
  BY <1>3
<1>5. \A i \in 1..n : Nth(i, D) \in D /\ Rank(Nth(i, D), D) = i
  BY <1>1, NthIsMember
<1>6. \A i \in 1..n : /\ ExpiryEvents(c)[i].type = "lease_expired"
                      /\ ExpiryEvents(c)[i].to = None
                      /\ ExpiryEvents(c)[i].lease = Nth(i, D)
  BY <1>4, EventFields
<1>7. ASSUME NEW l \in D
      PROVE  Rank(l, D) \in 1..n /\ Nth(Rank(l, D), D) = l
  <2>1. Rank(l, D) \in 1..n
    BY <1>1, RankIsStrict
  <2>2. PICK m \in D : m = Nth(Rank(l, D), D) /\ Rank(m, D) = Rank(l, D)
    BY <1>5, <2>1
  <2>3. Rank(l, D) \in Nat /\ l \in Nat /\ m \in Nat
    BY <1>1, <1>2, <2>1
  <2>4. ~(l < m) /\ ~(m < l)
    <3>1. l < m => Rank(l, D) < Rank(m, D)
      BY <1>1, RankIsStrict
    <3>2. m < l => Rank(m, D) < Rank(l, D)
      BY <1>1, RankIsStrict
    <3> QED BY <2>2, <2>3, <3>1, <3>2
  <2> QED BY <2>1, <2>2, <2>3, <2>4
<1>8. ASSUME NEW l \in D
      PROVE  \E j \in 1..n : /\ ExpiryEvents(c)[j].lease = l
                             /\ \A i \in 1..n : ExpiryEvents(c)[i].lease = l => i = j
  <2>1. Rank(l, D) \in 1..n /\ ExpiryEvents(c)[Rank(l, D)].lease = l
    BY <1>6, <1>7
  <2>2. \A i \in 1..n : ExpiryEvents(c)[i].lease = l => i = Rank(l, D)
    BY <1>5, <1>6
  <2> QED BY <2>1, <2>2
<1>9. ExpiryEvents(c) \in Seq(Event)
  BY ExpiryEventsType DEF TypeOK
<1> QED BY <1>4, <1>5, <1>6, <1>8, <1>9 DEF D

\* A sweep makes every history longer by the expiries of that card's overdue
\* leases, each once.
LEMMA SweepFacts ==
    ASSUME TypeOK, expire_leases, NEW c \in DOMAIN cards
    PROVE  /\ Longer(events[c], events'[c])
           /\ \A i \in Added(events[c], events'[c]) : /\ events'[c][i].type = "lease_expired"
                                                     /\ events'[c][i].to = None
                                                     /\ events'[c][i].lease \in Due(c)
           /\ \A l \in Due(c) : \E j \in Added(events[c], events'[c]) :
                 /\ events'[c][j].lease = l
                 /\ \A i \in Added(events[c], events'[c]) : events'[c][i].lease = l => i = j
<1>1. PICK h : h = events[c]
  OBVIOUS
<1>2. PICK x : x = ExpiryEvents(c)
  OBVIOUS
<1>3. h \in Seq(Event)
  BY <1>1, HistoryType
<1>4. /\ x \in Seq(Event)
      /\ \A i \in DOMAIN x : x[i].type = "lease_expired" /\ x[i].to = None /\ x[i].lease \in Due(c)
      /\ \A l \in Due(c) : \E j \in DOMAIN x :
            x[j].lease = l /\ \A i \in DOMAIN x : x[i].lease = l => i = j
  BY <1>2, ExpiryEventsFacts
<1>5. PICK h2 : h2 = events'[c] /\ h2 = h \o x
  BY <1>1, <1>2 DEF expire_leases
<1>6. /\ Len(h) \in Nat /\ Len(x) \in Nat /\ DOMAIN x = 1..Len(x)
      /\ Len(h2) = Len(h) + Len(x) /\ DOMAIN h2 = 1..(Len(h) + Len(x))
      /\ \A i \in 1..Len(h) : h2[i] = h[i]
      /\ \A i \in 1..Len(x) : h2[Len(h) + i] = x[i]
  BY <1>3, <1>4, <1>5
<1>7. Longer(h, h2)
  BY <1>6 DEF Longer
<1>8. \A i \in Added(h, h2) : i - Len(h) \in 1..Len(x) /\ h2[i] = x[i - Len(h)]
  <2> TAKE i \in Added(h, h2)
  <2>1. i \in 1..(Len(h) + Len(x)) /\ i > Len(h)
    BY <1>6 DEF Added
  <2>2. i - Len(h) \in 1..Len(x) /\ Len(h) + (i - Len(h)) = i
    BY <1>6, <2>1
  <2> QED BY <1>6, <2>2
<1>9. \A j \in 1..Len(x) : Len(h) + j \in Added(h, h2) /\ h2[Len(h) + j] = x[j]
  BY <1>6 DEF Added
<1>10. \A i \in Added(h, h2) : h2[i].type = "lease_expired" /\ h2[i].to = None
                               /\ h2[i].lease \in Due(c)
  BY <1>4, <1>6, <1>8
<1>11. ASSUME NEW l \in Due(c)
       PROVE  \E j \in Added(h, h2) : /\ h2[j].lease = l
                                      /\ \A i \in Added(h, h2) : h2[i].lease = l => i = j
  <2>1. PICK j \in 1..Len(x) : x[j].lease = l /\ \A i \in 1..Len(x) : x[i].lease = l => i = j
    BY <1>4, <1>6
  <2>2. Len(h) + j \in Added(h, h2) /\ h2[Len(h) + j].lease = l
    BY <1>9, <2>1
  <2>3. ASSUME NEW i \in Added(h, h2), h2[i].lease = l PROVE i = Len(h) + j
    <3>1. i - Len(h) = j
      BY <1>8, <2>1, <2>3
    <3>2. i \in Nat
      BY <1>6 DEF Added
    <3> QED BY <1>6, <3>1, <3>2
  <2> QED BY <2>2, <2>3
<1> QED BY <1>1, <1>5, <1>7, <1>10, <1>11

\* Every operation only appends to the histories, and keeps the cards and their
\* workflow versions.
LEMMA HistoriesGrow ==
    ASSUME TypeOK, [Next]_vars, NEW c \in DOMAIN cards
    PROVE  /\ c \in DOMAIN cards'
           /\ Longer(events[c], events'[c])
           /\ cards'[c].workflow_version = cards[c].workflow_version
<1>1. events[c] \in Seq(Event) /\ c \in Nat /\ cards[c] \in Card
  BY HistoryType
<1>2. cards \in Seq(Card) /\ events \in Seq(Seq(Event)) /\ DOMAIN events = DOMAIN cards
  BY DEF TypeOK, CardsOK
<1>3. Longer(events[c], events[c])
  BY <1>1 DEF Longer
<1>4. CASE NoEvidence
  BY <1>3, <1>4 DEF NoEvidence
<1>5. CASE NewCard
  <2>1. PICK new, h : cards' = Append(cards, new) /\ events' = Append(events, h)
    BY <1>5 DEF NewCard
  <2> QED BY <1>2, <1>3, <2>1
<1>6. CASE OneEvent
  <2>1. PICK d \in DOMAIN cards, e \in Event : record(d, e) /\ LocationStep(d, e)
    BY <1>6 DEF OneEvent
  <2>2. Longer(events[c], events'[c])
    <3>1. CASE c = d
      BY <1>1, <2>1, <3>1, RecordFacts, AppendIsLonger
    <3>2. CASE c # d
      BY <1>3, <2>1, <3>2, RecordFacts
    <3> QED BY <3>1, <3>2
  <2>3. c \in DOMAIN cards' /\ cards'[c].workflow_version = cards[c].workflow_version
    <3>1. CASE cards' = cards
      BY <3>1
    <3>2. CASE cards' = [cards EXCEPT ![d].bucket = e.to]
      BY <1>1, <3>2 DEF Card
    <3> QED BY <2>1, <3>1, <3>2 DEF LocationStep
  <2> QED BY <2>2, <2>3
<1>7. CASE expire_leases
  <2>1. cards' = cards
    BY <1>7 DEF expire_leases
  <2> QED BY <1>7, <2>1, SweepFacts
<1> QED BY <1>4, <1>5, <1>6, <1>7, EvidenceSteps

\* A new card's history is its first event.
LEMMA NewCardFacts ==
    ASSUME TypeOK, NEW new \in Card, NEW e \in Event,
           cards' = Append(cards, new), events' = Append(events, <<e>>)
    PROVE  /\ DOMAIN cards' = DOMAIN cards \union {Len(cards) + 1}
           /\ Len(cards) + 1 \notin DOMAIN cards
           /\ cards'[Len(cards) + 1] = new
           /\ events'[Len(cards) + 1] = <<e>>
           /\ \A c \in DOMAIN cards : cards'[c] = cards[c] /\ events'[c] = events[c]
<1>1. cards \in Seq(Card) /\ events \in Seq(Seq(Event)) /\ Len(events) = Len(cards)
      /\ Len(cards) \in Nat
  BY DEF TypeOK, CardsOK
<1>2. <<e>> \in Seq(Event)
  OBVIOUS
<1>3. PICK h \in Seq(Event) : h = <<e>>
  BY <1>2
<1> QED BY <1>1, <1>3

-----------------------------------------------------------------------------
(* Where a card is can be replayed from its history.                        *)

\* The events of a history that name where they put the card.
Placing(h) == { i \in DOMAIN h : h[i].to # None }

\* LocationIsReplayable of one history h, for a card that is in bucket b.
Replayable(h, b) ==
    /\ \E i \in Placing(h) : (\A j \in Placing(h) : j <= i) /\ h[i].to = b
    /\ \A i, j \in Placing(h) :
          /\ h[j].type = "card_moved"
          /\ i < j
          /\ \A m \in Placing(h) : m <= i \/ j <= m
          => h[j].from = h[i].to

\* The property is that of every history.
LEMMA LocationByHistory ==
    LocationIsReplayable <=> \A c \in DOMAIN cards : Replayable(events[c], cards[c].bucket)
BY DEF LocationIsReplayable, Replayable, Located, Placing

\* Events that name no bucket change nothing of where the card is.
LEMMA ReplayableStays ==
    ASSUME NEW h \in Seq(Event), NEW h2 \in Seq(Event), Longer(h, h2), NEW b,
           \A i \in Added(h, h2) : h2[i].to = None,
           Replayable(h, b)
    PROVE  Replayable(h2, b)
<1>1. /\ DOMAIN h2 = DOMAIN h \union Added(h, h2)
      /\ DOMAIN h \subseteq Nat /\ DOMAIN h2 \subseteq Nat
      /\ \A i \in DOMAIN h : i \notin Added(h, h2) /\ h2[i] = h[i]
      /\ \A i \in DOMAIN h, j \in Added(h, h2) : i < j /\ ~(j <= i)
  BY LongerFacts
<1>2. Placing(h2) = Placing(h)
  BY <1>1 DEF Placing
<1>3. \A i \in Placing(h) : h2[i] = h[i]
  BY <1>1 DEF Placing
<1> QED BY <1>2, <1>3 DEF Replayable

\* An event that names a bucket is the last that does.
LEMMA ReplayableMoves ==
    ASSUME NEW h \in Seq(Event), NEW b, NEW e \in Event, e.to # None,
           e.type = "card_moved" => e.from = b,
           Replayable(h, b)
    PROVE  Replayable(Append(h, e), e.to)
<1>1. PICK h2 : h2 = Append(h, e)
  OBVIOUS
<1>2. PICK n : n = Len(h) + 1
  OBVIOUS
<1>3. h2 \in Seq(Event) /\ Longer(h, h2) /\ Added(h, h2) = {n} /\ h2[n] = e
  BY <1>1, <1>2, AppendIsLonger
<1>4. /\ DOMAIN h2 = DOMAIN h \union {n}
      /\ DOMAIN h \subseteq Nat /\ n \in Nat
      /\ \A i \in DOMAIN h : h2[i] = h[i] /\ i < n /\ ~(n <= i)
  <2>1. /\ DOMAIN h2 = DOMAIN h \union Added(h, h2)
        /\ DOMAIN h \subseteq Nat /\ DOMAIN h2 \subseteq Nat
        /\ \A i \in DOMAIN h : i \notin Added(h, h2) /\ h2[i] = h[i]
        /\ \A i \in DOMAIN h, j \in Added(h, h2) : i < j /\ ~(j <= i)
    BY <1>3, LongerFacts
  <2> QED BY <1>3, <2>1
<1>5. Placing(h2) = Placing(h) \union {n}
  BY <1>3, <1>4 DEF Placing
<1>6. Placing(h) \subseteq DOMAIN h
  BY DEF Placing
<1>7. PICK l \in Placing(h) : (\A j \in Placing(h) : j <= l) /\ h[l].to = b
  BY DEF Replayable
<1>8. \E i \in Placing(h2) : (\A j \in Placing(h2) : j <= i) /\ h2[i].to = e.to
  <2>1. n \in Placing(h2) /\ h2[n].to = e.to
    BY <1>3, <1>5
  <2>2. \A j \in Placing(h2) : j <= n
    BY <1>4, <1>5, <1>6
  <2> QED BY <2>1, <2>2
<1>9. ASSUME NEW i \in Placing(h2), NEW j \in Placing(h2), h2[j].type = "card_moved", i < j,
             \A m \in Placing(h2) : m <= i \/ j <= m
      PROVE  h2[j].from = h2[i].to
  <2>1. i \in DOMAIN h /\ i \in Placing(h)
    BY <1>4, <1>5, <1>6, <1>9
  <2>2. CASE j = n
    <3>1. l <= i
      BY <1>4, <1>5, <1>6, <1>7, <1>9, <2>2
    <3>2. i = l
      BY <1>4, <1>6, <1>7, <2>1, <3>1
    <3> QED BY <1>3, <1>4, <1>7, <1>9, <2>1, <2>2, <3>2
  <2>3. CASE j # n
    <3>1. j \in Placing(h) /\ h2[j] = h[j] /\ h2[i] = h[i]
      BY <1>4, <1>5, <1>6, <2>1, <2>3
    <3>2. \A m \in Placing(h) : m <= i \/ j <= m
      BY <1>5, <1>9
    <3> QED BY <1>9, <2>1, <3>1, <3>2 DEF Replayable
  <2> QED BY <2>2, <2>3
<1>10. Replayable(h2, e.to)
  BY <1>8, <1>9 DEF Replayable
<1> QED BY <1>1, <1>10

\* A history of one event that names a bucket.
LEMMA ReplayableFirst ==
    ASSUME NEW e \in Event, e.to # None
    PROVE  Replayable(<<e>>, e.to)
<1>1. PICK h : h = <<e>>
  OBVIOUS
<1>2. DOMAIN h = {1} /\ h[1] = e
  BY <1>1
<1>3. Placing(h) = {1}
  BY <1>2 DEF Placing
<1>4. Replayable(h, e.to)
  BY <1>2, <1>3 DEF Replayable
<1> QED BY <1>1, <1>4

\* The events a history may contain name a bucket or none.
LEMMA BucketIsSome == \A b \in Bucket : b # None
BY NoneAssumption

\* Every operation keeps locations replayable.
LEMMA LocationStepKept ==
    ASSUME TypeOK, TypeOK', LocationIsReplayable, [Next]_vars
    PROVE  LocationIsReplayable'
<1>0. \A c \in DOMAIN cards : Replayable(events[c], cards[c].bucket)
  BY LocationByHistory
<1> SUFFICES \A c \in DOMAIN cards' : Replayable(events'[c], cards'[c].bucket)
  BY DEF LocationIsReplayable, Replayable, Located, Placing
<1>1. CASE NoEvidence
  BY <1>0, <1>1 DEF NoEvidence
<1>2. CASE NewCard
  <2>1. PICK new \in Card :
           /\ cards' = Append(cards, new)
           /\ events' = Append(events, <<MkEvent("card_created", 0, None, new.bucket)>>)
    BY <1>2 DEF NewCard
  <2>2. PICK e : e = MkEvent("card_created", 0, None, new.bucket)
    OBVIOUS
  <2>3. new.bucket \in Bucket
    BY DEF Card
  <2>4. e \in Event /\ e.to = new.bucket /\ e.to # None
    BY <2>2, <2>3, EventTypes, EventFields, BucketIsSome DEF EventType
  <2>5. /\ DOMAIN cards' = DOMAIN cards \union {Len(cards) + 1}
        /\ cards'[Len(cards) + 1] = new
        /\ events'[Len(cards) + 1] = <<e>>
        /\ \A c \in DOMAIN cards : cards'[c] = cards[c] /\ events'[c] = events[c]
    BY <2>1, <2>2, <2>4, NewCardFacts
  <2>6. Replayable(<<e>>, new.bucket)
    BY <2>4, ReplayableFirst
  <2> QED BY <1>0, <2>5, <2>6
<1>3. CASE OneEvent
  <2>1. PICK d \in DOMAIN cards, e \in Event : record(d, e) /\ LocationStep(d, e)
    BY <1>3 DEF OneEvent
  <2>2. /\ events[d] \in Seq(Event)
        /\ events'[d] = Append(events[d], e)
        /\ \A c \in DOMAIN cards : c # d => events'[c] = events[c]
    BY <2>1, RecordFacts
  <2>3. Replayable(events[d], cards[d].bucket) /\ cards[d] \in Card
    BY <1>0, HistoryType
  <2>4. CASE e.to = None /\ cards' = cards
    <3>1. Replayable(events'[d], cards[d].bucket)
      <4>1. PICK h2 : h2 = Append(events[d], e)
        OBVIOUS
      <4>2. /\ h2 \in Seq(Event) /\ Longer(events[d], h2)
            /\ \A i \in Added(events[d], h2) : h2[i] = e
        BY <2>2, <4>1, AppendIsLonger
      <4> QED BY <2>2, <2>3, <2>4, <4>1, <4>2, ReplayableStays
    <3> QED BY <1>0, <2>2, <2>4, <3>1
  <2>5. CASE e.to \in Bucket /\ cards' = [cards EXCEPT ![d].bucket = e.to]
    <3>1. Replayable(events'[d], e.to)
      BY <2>1, <2>2, <2>3, <2>5, ReplayableMoves, BucketIsSome DEF LocationStep
    <3>2. cards'[d].bucket = e.to /\ DOMAIN cards' = DOMAIN cards
          /\ \A c \in DOMAIN cards : c # d => cards'[c] = cards[c]
      BY <2>3, <2>5 DEF Card
    <3> QED BY <1>0, <2>2, <3>1, <3>2
  <2> QED BY <2>1, <2>4, <2>5 DEF LocationStep
<1>4. CASE expire_leases
  <2>1. cards' = cards
    BY <1>4 DEF expire_leases
  <2>2. ASSUME NEW c \in DOMAIN cards PROVE Replayable(events'[c], cards[c].bucket)
    <3>1. events[c] \in Seq(Event) /\ Replayable(events[c], cards[c].bucket)
      BY <1>0, HistoryType
    <3>2. events'[c] \in Seq(Event)
      BY <2>1 DEF TypeOK, CardsOK
    <3>3. Longer(events[c], events'[c])
          /\ \A i \in Added(events[c], events'[c]) : events'[c][i].to = None
      BY <1>4, SweepFacts
    <3> QED BY <3>1, <3>2, <3>3, ReplayableStays
  <2> QED BY <2>1, <2>2
<1> QED BY <1>1, <1>2, <1>3, <1>4, EvidenceSteps

\* For all constants: the last bucket a card's history names is where the card
\* is, and every card_moved event departs from the bucket named before it
\* (LocationIsReplayable), through claims, submissions, validations, moves,
\* sweeps and re-registrations.
THEOREM LocationsAreReplayable == Spec => []LocationIsReplayable
<1>1. Init => LocationIsReplayable
  BY DEF Init, LocationIsReplayable
<1>2. TypeOK /\ TypeOK' /\ LocationIsReplayable /\ [Next]_vars => LocationIsReplayable'
  BY LocationStepKept
<1> QED BY <1>1, <1>2, TypeInit, TypeStep, PTL DEF Spec

-----------------------------------------------------------------------------
(* Artifacts.                                                               *)

\* An artifact that points at its submission does so when the history is longer.
LEMMA ArtifactStepKept ==
    ASSUME TypeOK, TypeOK', ArtifactEvidence, [Next]_vars
    PROVE  ArtifactEvidence'
<1>1. ASSUME NEW a \in DOMAIN artifacts
      PROVE  /\ artifacts[a].event \in DOMAIN events'[artifacts[a].card]
             /\ events'[artifacts[a].card][artifacts[a].event].type = "artifact_submitted"
             /\ \E refs \in RefLists : \E r \in Elements(refs) :
                   r.id = a /\ r.card_id = artifacts[a].card
  <2>1. PICK c \in DOMAIN cards : c = artifacts[a].card
    BY DEF TypeOK, ArtifactsOK
  <2>2. Longer(events[c], events'[c]) /\ c \in DOMAIN cards'
    BY HistoriesGrow
  <2>3. events[c] \in Seq(Event) /\ events'[c] \in Seq(Event)
    BY <2>2, HistoryType DEF TypeOK, CardsOK
  <2>4. artifacts[a].event \in DOMAIN events[c]
        /\ events[c][artifacts[a].event].type = "artifact_submitted"
    BY <2>1 DEF ArtifactEvidence
  <2>5. DOMAIN events[c] \subseteq DOMAIN events'[c]
        /\ \A i \in DOMAIN events[c] : events'[c][i] = events[c][i]
    BY <2>2, <2>3 DEF Longer
  <2> QED BY <2>1, <2>4, <2>5 DEF ArtifactEvidence
<1>2. CASE artifacts' = artifacts
  BY <1>1, <1>2 DEF ArtifactEvidence
<1>3. CASE artifacts' # artifacts
  <2>1. OneEvent
    BY <1>3, EvidenceSteps DEF NoEvidence, NewCard, expire_leases
  <2>2. PICK c \in DOMAIN cards, e \in Event : record(c, e) /\ ArtifactStep(c, e)
    BY <2>1 DEF OneEvent
  <2>3. PICK refs \in RefLists :
           /\ e.type = "artifact_submitted"
           /\ \A r \in Elements(refs) : r.card_id = c
           /\ LET ids == { r.id : r \in Elements(refs) } IN
              artifacts' = [a \in DOMAIN artifacts \union ids |->
                              IF a \in ids THEN [card |-> c, event |-> Len(events[c]) + 1]
                              ELSE artifacts[a]]
    BY <1>3, <2>2 DEF ArtifactStep
  <2> DEFINE ids == { r.id : r \in Elements(refs) }
  <2>4. /\ DOMAIN artifacts' = DOMAIN artifacts \union ids
        /\ \A a \in ids : artifacts'[a].card = c /\ artifacts'[a].event = Len(events[c]) + 1
        /\ \A a \in DOMAIN artifacts : a \notin ids => artifacts'[a] = artifacts[a]
    BY <2>3
  <2>5. \A a \in ids : \E r \in Elements(refs) : r.id = a /\ r.card_id = c
    BY <2>3
  <2> HIDE DEF ids
  <2>6. events[c] \in Seq(Event) /\ events'[c] = Append(events[c], e)
    BY <2>2, RecordFacts
  <2>7. Len(events[c]) + 1 \in DOMAIN events'[c] /\ events'[c][Len(events[c]) + 1] = e
    BY <2>6
  <2>8. ASSUME NEW a \in DOMAIN artifacts'
        PROVE  /\ artifacts'[a].event \in DOMAIN events'[artifacts'[a].card]
               /\ events'[artifacts'[a].card][artifacts'[a].event].type = "artifact_submitted"
               /\ \E rs \in RefLists : \E r \in Elements(rs) :
                     r.id = a /\ r.card_id = artifacts'[a].card
    <3>1. CASE a \in ids
      BY <2>3, <2>4, <2>5, <2>7, <3>1
    <3>2. CASE a \notin ids
      BY <1>1, <2>4, <3>2
    <3> QED BY <3>1, <3>2
  <2> QED BY <2>8 DEF ArtifactEvidence
<1> QED BY <1>2, <1>3

\* For all constants: every stored artifact points at the submission, in the
\* history of the card its reference names, that stored it (ArtifactEvidence).
THEOREM ArtifactsHaveEvidence == Spec => []ArtifactEvidence
<1>1. Init => ArtifactEvidence
  BY DEF Init, ArtifactEvidence
<1>2. TypeOK /\ TypeOK' /\ ArtifactEvidence /\ [Next]_vars => ArtifactEvidence'
  BY ArtifactStepKept
<1> QED BY <1>1, <1>2, TypeInit, TypeStep, PTL DEF Spec

-----------------------------------------------------------------------------
(* The life of a lease in the history of its card.                          *)

\* The events of history h about lease l of the given types.
About(h, l, types) == { i \in DOMAIN h : h[i].lease = l /\ h[i].type \in types }

\* LeaseEvidence of lease l in history h: r says whether it is released.
Life(h, l, r) ==
    \E i \in About(h, l, {"card_claimed"}) :
        /\ About(h, l, {"card_claimed"}) = {i}
        /\ \A j \in About(h, l, {"lease_renewed"} \union EndEvent) : i < j
        /\ IF r
           THEN \E e \in About(h, l, EndEvent) :
                   /\ About(h, l, EndEvent) = {e}
                   /\ \A j \in About(h, l, {"lease_renewed"}) : j < e
           ELSE About(h, l, EndEvent) = {}

\* The property is that of every lease in the history of its card.
LEMMA EvidenceByHistory ==
    LeaseEvidence <=>
        \A l \in DOMAIN leases : Life(events[leases[l].card], l, leases[l].released)
BY DEF LeaseEvidence, Life, Says, About

\* No history names a lease that has not been granted yet.
NamesLeases ==
    \A c \in DOMAIN cards : \A i \in DOMAIN events[c] : events[c][i].lease <= Len(leases)

\* Events about other leases leave the life of a lease as it was.
LEMMA LifeUntouched ==
    ASSUME NEW h \in Seq(Event), NEW h2 \in Seq(Event), Longer(h, h2), NEW l, NEW r,
           \A i \in Added(h, h2) : h2[i].lease # l,
           Life(h, l, r)
    PROVE  Life(h2, l, r)
<1>1. /\ DOMAIN h2 = DOMAIN h \union Added(h, h2)
      /\ DOMAIN h \subseteq Nat /\ DOMAIN h2 \subseteq Nat
      /\ \A i \in DOMAIN h : i \notin Added(h, h2) /\ h2[i] = h[i]
      /\ \A i \in DOMAIN h, j \in Added(h, h2) : i < j /\ ~(j <= i)
  BY LongerFacts
<1>2. ASSUME NEW types PROVE About(h2, l, types) = About(h, l, types)
  BY <1>1 DEF About
<1>3. /\ About(h2, l, {"card_claimed"}) = About(h, l, {"card_claimed"})
      /\ About(h2, l, {"lease_renewed"} \union EndEvent)
         = About(h, l, {"lease_renewed"} \union EndEvent)
      /\ About(h2, l, EndEvent) = About(h, l, EndEvent)
      /\ About(h2, l, {"lease_renewed"}) = About(h, l, {"lease_renewed"})
  BY <1>2
<1> HIDE DEF About
<1> QED BY <1>3 DEF Life

\* A claim opens the life of a lease that no event was about.
LEMMA LifeClaimed ==
    ASSUME NEW h \in Seq(Event), NEW e \in Event, NEW l, e.lease = l, e.type = "card_claimed",
           \A i \in DOMAIN h : h[i].lease # l
    PROVE  Life(Append(h, e), l, FALSE)
<1>1. PICK h2 : h2 = Append(h, e)
  OBVIOUS
<1>2. PICK n : n = Len(h) + 1
  OBVIOUS
<1>3. h2 \in Seq(Event) /\ Longer(h, h2) /\ Added(h, h2) = {n} /\ h2[n] = e
  BY <1>1, <1>2, AppendIsLonger
<1>4. /\ DOMAIN h2 = DOMAIN h \union Added(h, h2)
      /\ DOMAIN h \subseteq Nat /\ DOMAIN h2 \subseteq Nat
      /\ \A i \in DOMAIN h : i \notin Added(h, h2) /\ h2[i] = h[i]
      /\ \A i \in DOMAIN h, j \in Added(h, h2) : i < j /\ ~(j <= i)
  BY <1>3, LongerFacts
<1>5. About(h2, l, {"card_claimed"}) = {n}
  BY <1>3, <1>4 DEF About
<1>6. About(h2, l, {"lease_renewed"} \union EndEvent) = {} /\ About(h2, l, EndEvent) = {}
  BY <1>3, <1>4 DEF About, EndEvent
<1>7. Life(h2, l, FALSE)
  BY <1>5, <1>6 DEF Life
<1> QED BY <1>1, <1>7

\* A renewal of a lease that has not ended comes after its claim.
LEMMA LifeRenewed ==
    ASSUME NEW h \in Seq(Event), NEW e \in Event, NEW l, e.lease = l, e.type = "lease_renewed",
           Life(h, l, FALSE)
    PROVE  Life(Append(h, e), l, FALSE)
<1>1. PICK h2 : h2 = Append(h, e)
  OBVIOUS
<1>2. PICK n : n = Len(h) + 1
  OBVIOUS
<1>3. h2 \in Seq(Event) /\ Longer(h, h2) /\ Added(h, h2) = {n} /\ h2[n] = e
  BY <1>1, <1>2, AppendIsLonger
<1>4. /\ DOMAIN h2 = DOMAIN h \union Added(h, h2)
      /\ DOMAIN h \subseteq Nat /\ DOMAIN h2 \subseteq Nat
      /\ \A i \in DOMAIN h : i \notin Added(h, h2) /\ h2[i] = h[i]
      /\ \A i \in DOMAIN h, j \in Added(h, h2) : i < j /\ ~(j <= i)
  BY <1>3, LongerFacts
<1>5. PICK i \in About(h, l, {"card_claimed"}) :
         /\ About(h, l, {"card_claimed"}) = {i}
         /\ \A j \in About(h, l, {"lease_renewed"} \union EndEvent) : i < j
         /\ About(h, l, EndEvent) = {}
  BY DEF Life
<1>6. About(h2, l, {"card_claimed"}) = About(h, l, {"card_claimed"})
  BY <1>3, <1>4 DEF About
<1>7. About(h2, l, EndEvent) = About(h, l, EndEvent)
  BY <1>3, <1>4 DEF About, EndEvent
<1>8. About(h2, l, {"lease_renewed"} \union EndEvent)
      \subseteq About(h, l, {"lease_renewed"} \union EndEvent) \union {n}
  BY <1>3, <1>4 DEF About
<1>9. i < n
  BY <1>3, <1>4 DEF About
<1>10. \A j \in About(h2, l, {"lease_renewed"} \union EndEvent) : i < j
  BY <1>5, <1>8, <1>9
<1>11. Life(h2, l, FALSE)
  BY <1>5, <1>6, <1>7, <1>10 DEF Life
<1> QED BY <1>1, <1>11

\* A single ending of a lease that has not ended closes its life.
LEMMA LifeEnded ==
    ASSUME NEW h \in Seq(Event), NEW h2 \in Seq(Event), Longer(h, h2), NEW l,
           NEW n \in Added(h, h2), h2[n].lease = l, h2[n].type \in EndEvent,
           \A i \in Added(h, h2) : h2[i].lease = l => i = n,
           Life(h, l, FALSE)
    PROVE  Life(h2, l, TRUE)
<1>4. /\ DOMAIN h2 = DOMAIN h \union Added(h, h2)
      /\ DOMAIN h \subseteq Nat /\ DOMAIN h2 \subseteq Nat
      /\ \A i \in DOMAIN h : i \notin Added(h, h2) /\ h2[i] = h[i]
      /\ \A i \in DOMAIN h, j \in Added(h, h2) : i < j /\ ~(j <= i)
  BY LongerFacts
<1>5. PICK i \in About(h, l, {"card_claimed"}) :
         /\ About(h, l, {"card_claimed"}) = {i}
         /\ \A j \in About(h, l, {"lease_renewed"} \union EndEvent) : i < j
         /\ About(h, l, EndEvent) = {}
  BY DEF Life
<1>6. About(h2, l, {"card_claimed"}) = About(h, l, {"card_claimed"})
      /\ About(h2, l, {"lease_renewed"}) = About(h, l, {"lease_renewed"})
  BY <1>4 DEF About, EndEvent
<1>7. About(h2, l, EndEvent) = {n}
  <2>1. About(h2, l, EndEvent) = About(h, l, EndEvent) \union {n}
    BY <1>4 DEF About
  <2> QED BY <1>5, <2>1
<1>8. About(h2, l, {"lease_renewed"} \union EndEvent)
      \subseteq About(h, l, {"lease_renewed"} \union EndEvent) \union {n}
  BY <1>4 DEF About
<1>9. i < n /\ \A j \in About(h, l, {"lease_renewed"}) : j < n
  BY <1>4 DEF About
<1>10. \A j \in About(h2, l, {"lease_renewed"} \union EndEvent) : i < j
  BY <1>5, <1>8, <1>9
<1> QED BY <1>5, <1>6, <1>7, <1>9, <1>10 DEF Life

\* A lease keeps its card, its pipe and its node.
LEMMA LeasesKeep ==
    ASSUME TypeOK, [Next]_vars, NEW l \in DOMAIN leases
    PROVE  /\ l \in DOMAIN leases'
           /\ leases'[l].card = leases[l].card
           /\ leases'[l].pipe = leases[l].pipe
           /\ leases'[l].node = leases[l].node
<1>1. leases \in Seq(Lease) /\ leases[l] \in Lease
  BY DEF TypeOK, LeasesOK
<1>2. CASE SameLeases
  BY <1>2 DEF SameLeases
<1>3. CASE AddLease
  BY <1>1, <1>3 DEF AddLease
<1>4. CASE ExtendLease
  <2>1. PICK m, t : m \in DOMAIN leases /\ leases' = [leases EXCEPT ![m].expires = t]
    BY <1>4 DEF ExtendLease
  <2> QED BY <1>1, <2>1 DEF Lease
<1>5. CASE EndOneLease
  <2>1. PICK m \in DOMAIN leases : leases' = [leases EXCEPT ![m].released = TRUE]
    BY <1>5 DEF EndOneLease, end_lease
  <2> QED BY <1>1, <2>1 DEF Lease
<1>6. CASE EndOverdue
  <2>1. DOMAIN leases' = DOMAIN leases
        /\ leases'[l] = [leases[l] EXCEPT !.released = @ \/ l \in Overdue]
    BY <1>6 DEF EndOverdue
  <2> QED BY <1>1, <2>1 DEF Lease
<1> QED BY <1>2, <1>3, <1>4, <1>5, <1>6, LeaseSteps

\* The life of a lease in the history of its card.
Lived(l) == Life(events[leases[l].card], l, leases[l].released)

\* A lease whose record and whose card's evidence about it are left alone.
LEMMA LivedUntouched ==
    ASSUME TypeOK, TypeOK', [Next]_vars, NEW l \in DOMAIN leases, Lived(l),
           leases'[l].released = leases[l].released,
           \A i \in Added(events[leases[l].card], events'[leases[l].card]) :
               events'[leases[l].card][i].lease # l
    PROVE  Lived(l)'
<1>1. PICK c \in DOMAIN cards : c = leases[l].card
  BY LeaseFacts
<1>2. leases'[l].card = c
  BY <1>1, LeasesKeep
<1>3. c \in DOMAIN cards' /\ Longer(events[c], events'[c])
  BY HistoriesGrow
<1>4. events[c] \in Seq(Event) /\ events'[c] \in Seq(Event)
  BY <1>3, HistoryType DEF TypeOK, CardsOK
<1>5. Life(events[c], l, leases[l].released)
  BY <1>1 DEF Lived
<1>6. \A i \in Added(events[c], events'[c]) : events'[c][i].lease # l
  BY <1>1
<1>7. Life(events'[c], l, leases[l].released)
  BY <1>3, <1>4, <1>5, <1>6, LifeUntouched
<1> QED BY <1>2, <1>7 DEF Lived

\* A history to which nothing was added.
LEMMA NothingAdded == ASSUME NEW h \in Seq(Event) PROVE Added(h, h) = {}
BY DEF Added

\* One recorded event, about another lease than l, leaves l's life alone.
LEMMA LivedElsewhere ==
    ASSUME TypeOK, TypeOK', [Next]_vars, NEW l \in DOMAIN leases, Lived(l),
           leases'[l].released = leases[l].released,
           NEW c \in DOMAIN cards, NEW e \in Event, record(c, e), e.lease # l
    PROVE  Lived(l)'
<1>1. PICK d \in DOMAIN cards : d = leases[l].card
  BY LeaseFacts
<1>2. events[d] \in Seq(Event) /\ events[c] \in Seq(Event)
  BY HistoryType
<1>3. \A i \in Added(events[d], events'[d]) : events'[d][i].lease # l
  <2>1. CASE d = c
    <3>1. events'[d] = Append(events[d], e)
      BY <2>1, RecordFacts
    <3>2. Added(events[d], events'[d]) = {Len(events[d]) + 1}
          /\ events'[d][Len(events[d]) + 1] = e
      BY <1>2, <3>1, AppendIsLonger
    <3> QED BY <3>2
  <2>2. CASE d # c
    <3>1. events'[d] = events[d]
      BY <2>2, RecordFacts
    <3>2. Added(events[d], events'[d]) = {}
      BY <1>2, <3>1, NothingAdded
    <3> QED BY <3>2
  <2> QED BY <2>1, <2>2
<1> QED BY <1>1, <1>3, LivedUntouched

\* Recording one event keeps the lives of all leases.
LEMMA LivedOneEvent ==
    ASSUME TypeOK, TypeOK', [Next]_vars, NamesLeases, \A l \in DOMAIN leases : Lived(l),
           NEW c \in DOMAIN cards, NEW e \in Event, record(c, e), LeaseStep(c, e)
    PROVE  \A l \in DOMAIN leases' : Lived(l)'
<1>1. leases \in Seq(Lease) /\ DOMAIN leases = 1..Len(leases) /\ Len(leases) \in Nat
      /\ \A l \in DOMAIN leases : leases[l] \in Lease
  BY DEF TypeOK, LeasesOK
<1>2. events[c] \in Seq(Event) /\ events'[c] = Append(events[c], e)
  BY RecordFacts
<1>3. CASE e.lease = 0 /\ e.type \notin LeaseEvent /\ leases' = leases
  <2> SUFFICES ASSUME NEW l \in DOMAIN leases PROVE Lived(l)'
    BY <1>3
  <2>1. e.lease # l /\ leases'[l].released = leases[l].released
    BY <1>1, <1>3
  <2> QED BY <2>1, LivedElsewhere
<1>4. CASE ClaimStep(c, e)
  <2>1. PICK new \in Lease : /\ new.card = c
                             /\ new.released = FALSE
                             /\ leases' = Append(leases, new)
                             /\ e.type = "card_claimed"
                             /\ e.lease = Len(leases) + 1
    BY <1>4 DEF ClaimStep
  <2>2. /\ DOMAIN leases' = DOMAIN leases \union {Len(leases) + 1}
        /\ leases'[Len(leases) + 1] = new
        /\ \A l \in DOMAIN leases : leases'[l] = leases[l] /\ l # Len(leases) + 1
    BY <1>1, <2>1
  <2>3. ASSUME NEW l \in DOMAIN leases PROVE Lived(l)'
    <3>1. e.lease # l /\ leases'[l].released = leases[l].released
      BY <2>1, <2>2
    <3> QED BY <3>1, LivedElsewhere
  <2>4. PICK n : n = Len(leases) + 1
    OBVIOUS
  <2>5. Lived(n)'
    <3>1. \A i \in DOMAIN events[c] : events[c][i].lease # n
      <4>1. \A i \in DOMAIN events[c] : events[c][i].lease <= Len(leases)
        BY DEF NamesLeases
      <4>2. \A i \in DOMAIN events[c] : events[c][i].lease \in Nat
        <5>1. \A i \in DOMAIN events[c] : events[c][i] \in Event
          BY <1>2
        <5> QED BY <5>1 DEF Event
      <4> QED BY <1>1, <2>4, <4>1, <4>2
    <3>2. Life(events'[c], n, FALSE)
      BY <1>2, <2>1, <2>4, <3>1, LifeClaimed
    <3>3. leases'[n].card = c /\ leases'[n].released = FALSE
      BY <2>1, <2>2, <2>4
    <3> QED BY <3>2, <3>3 DEF Lived
  <2> QED BY <2>2, <2>3, <2>4, <2>5
<1>5. CASE RenewStep(c, e)
  <2>1. PICK m \in DOMAIN leases, t \in Int : /\ leases[m].card = c
                                              /\ leases[m].released = FALSE
                                              /\ e.lease = m
                                              /\ e.type = "lease_renewed"
                                              /\ leases' = [leases EXCEPT ![m].expires = t]
    BY <1>5 DEF RenewStep
  <2>2. /\ DOMAIN leases' = DOMAIN leases
        /\ leases'[m].card = c /\ leases'[m].released = FALSE
        /\ \A l \in DOMAIN leases : l # m => leases'[l] = leases[l]
    BY <1>1, <2>1 DEF Lease
  <2>3. Lived(m)'
    <3>1. Life(events[c], m, FALSE)
      <4>1. Lived(m)
        OBVIOUS
      <4> QED BY <2>1, <4>1 DEF Lived
    <3>2. Life(events'[c], m, FALSE)
      BY <1>2, <2>1, <3>1, LifeRenewed
    <3> QED BY <2>2, <3>2 DEF Lived
  <2>4. ASSUME NEW l \in DOMAIN leases, l # m PROVE Lived(l)'
    <3>1. e.lease # l /\ leases'[l].released = leases[l].released
      BY <2>1, <2>2, <2>4
    <3> QED BY <3>1, LivedElsewhere
  <2> QED BY <2>2, <2>3, <2>4
<1>6. CASE EndStep(c, e)
  <2>1. PICK m \in DOMAIN leases : /\ leases[m].card = c
                                   /\ leases[m].released = FALSE
                                   /\ e.lease = m
                                   /\ e.type \in EndEvent
                                   /\ leases' = [leases EXCEPT ![m].released = TRUE]
    BY <1>6 DEF EndStep, end_lease
  <2>2. /\ DOMAIN leases' = DOMAIN leases
        /\ leases'[m].card = c /\ leases'[m].released = TRUE
        /\ \A l \in DOMAIN leases : l # m => leases'[l] = leases[l]
    BY <1>1, <2>1 DEF Lease
  <2>3. Lived(m)'
    <3>1. Life(events[c], m, FALSE)
      <4>1. Lived(m)
        OBVIOUS
      <4> QED BY <2>1, <4>1 DEF Lived
    <3>2. PICK h2 : h2 = events'[c]
      OBVIOUS
    <3>3. PICK n : n = Len(events[c]) + 1
      OBVIOUS
    <3>4. h2 \in Seq(Event) /\ Longer(events[c], h2) /\ Added(events[c], h2) = {n} /\ h2[n] = e
      BY <1>2, <3>2, <3>3, AppendIsLonger
    <3>5. Life(h2, m, TRUE)
      <4>1. n \in Added(events[c], h2) /\ h2[n].lease = m /\ h2[n].type \in EndEvent
            /\ \A i \in Added(events[c], h2) : h2[i].lease = m => i = n
        BY <2>1, <3>4
      <4> QED BY <1>2, <3>1, <3>4, <4>1, LifeEnded
    <3> QED BY <2>2, <3>2, <3>5 DEF Lived
  <2>4. ASSUME NEW l \in DOMAIN leases, l # m PROVE Lived(l)'
    <3>1. e.lease # l /\ leases'[l].released = leases[l].released
      BY <2>1, <2>2, <2>4
    <3> QED BY <3>1, LivedElsewhere
  <2> QED BY <2>2, <2>3, <2>4
<1> QED BY <1>3, <1>4, <1>5, <1>6 DEF LeaseStep

\* A sweep closes the lives of the leases it ends, and only theirs.
LEMMA LivedSweep ==
    ASSUME TypeOK, TypeOK', [Next]_vars, expire_leases, NEW l \in DOMAIN leases, Lived(l)
    PROVE  Lived(l)'
<1>1. PICK c \in DOMAIN cards : c = leases[l].card
  BY LeaseFacts
<1>2. leases[l] \in Lease /\ leases[l].released \in BOOLEAN
  BY LeaseFacts DEF Lease
<1>3. leases'[l] = [leases[l] EXCEPT !.released = @ \/ l \in Overdue]
  BY DEF expire_leases
<1>4. leases'[l].card = c /\ leases'[l].released = (leases[l].released \/ l \in Overdue)
  BY <1>1, <1>2, <1>3 DEF Lease
<1>5. PICK h2 : h2 = events'[c]
  OBVIOUS
<1>6. /\ Longer(events[c], h2)
      /\ \A i \in Added(events[c], h2) : /\ h2[i].type = "lease_expired"
                                         /\ h2[i].to = None
                                         /\ h2[i].lease \in Due(c)
      /\ \A m \in Due(c) : \E j \in Added(events[c], h2) :
            /\ h2[j].lease = m
            /\ \A i \in Added(events[c], h2) : h2[i].lease = m => i = j
  BY <1>5, SweepFacts
<1>7. events[c] \in Seq(Event) /\ h2 \in Seq(Event)
  BY <1>5, HistoryType DEF TypeOK, CardsOK, expire_leases
<1>8. CASE l \in Overdue
  <2>1. l \in Due(c) /\ leases[l].released = FALSE /\ leases'[l].released = TRUE
    BY <1>1, <1>2, <1>4, <1>8 DEF Due, Overdue
  <2>2. Life(events[c], l, FALSE)
    BY <1>1, <2>1 DEF Lived
  <2>3. PICK n \in Added(events[c], h2) :
           /\ h2[n].lease = l
           /\ \A i \in Added(events[c], h2) : h2[i].lease = l => i = n
    BY <1>6, <2>1
  <2>4. h2[n].type \in EndEvent
    BY <1>6 DEF EndEvent
  <2>5. Life(h2, l, TRUE)
    BY <1>6, <1>7, <2>2, <2>3, <2>4, LifeEnded
  <2> QED BY <1>4, <1>5, <2>1, <2>5 DEF Lived
<1>9. CASE l \notin Overdue
  <2>1. leases'[l].released = leases[l].released
    BY <1>2, <1>4, <1>9
  <2>2. \A i \in Added(events[c], h2) : h2[i].lease # l
    BY <1>6, <1>9 DEF Due
  <2> QED BY <1>1, <1>5, <2>1, <2>2, LivedUntouched
<1> QED BY <1>8, <1>9

\* Every operation keeps the lives of leases.
LEMMA LeaseEvidenceStep ==
    ASSUME TypeOK, TypeOK', NamesLeases, LeaseEvidence, [Next]_vars
    PROVE  LeaseEvidence'
<1>0. \A l \in DOMAIN leases : Lived(l)
  BY EvidenceByHistory DEF Lived
<1> SUFFICES \A l \in DOMAIN leases' : Lived(l)'
  BY DEF Lived, LeaseEvidence, Life, Says, About
<1>1. CASE NoEvidence
  BY <1>0, <1>1 DEF NoEvidence, Lived
<1>2. CASE NewCard
  <2>1. PICK new, e : /\ new \in Card
                      /\ cards' = Append(cards, new)
                      /\ e = MkEvent("card_created", 0, None, new.bucket)
                      /\ events' = Append(events, <<e>>)
                      /\ leases' = leases
    BY <1>2 DEF NewCard
  <2>2. e \in Event
    BY <2>1, EventTypes DEF Card, EventType
  <2>3. \A c \in DOMAIN cards : events'[c] = events[c]
    BY <2>1, <2>2, NewCardFacts
  <2>4. ASSUME NEW l \in DOMAIN leases PROVE Lived(l)'
    <3>1. Lived(l) /\ leases[l].card \in DOMAIN cards
      BY <1>0, LeaseFacts
    <3>2. events'[leases[l].card] = events[leases[l].card]
      BY <2>3, <3>1
    <3>3. leases'[l] = leases[l]
      BY <2>1
    <3> QED BY <3>1, <3>2, <3>3 DEF Lived
  <2> QED BY <2>1, <2>4
<1>3. CASE OneEvent
  <2>1. PICK c \in DOMAIN cards, e \in Event : record(c, e) /\ LeaseStep(c, e)
    BY <1>3 DEF OneEvent
  <2> QED BY <1>0, <2>1, LivedOneEvent
<1>4. CASE expire_leases
  <2>1. DOMAIN leases' = DOMAIN leases
    BY <1>4 DEF expire_leases
  <2> QED BY <1>0, <1>4, <2>1, LivedSweep
<1> QED BY <1>1, <1>2, <1>3, <1>4, EvidenceSteps

\* Every operation names only leases that have been granted.
LEMMA NamesLeasesStep ==
    ASSUME TypeOK, TypeOK', NamesLeases, [Next]_vars
    PROVE  NamesLeases'
<1>1. Len(leases) \in Nat /\ Len(leases') \in Nat /\ DOMAIN leases = 1..Len(leases)
      /\ leases \in Seq(Lease) /\ leases' \in Seq(Lease) /\ DOMAIN leases' = 1..Len(leases')
  BY DEF TypeOK, LeasesOK
<1>2. Len(leases) <= Len(leases')
  <2>1. \A l \in DOMAIN leases : l \in DOMAIN leases'
    BY LeasesKeep
  <2> QED BY <1>1, <2>1
<1>3. ASSUME NEW c \in DOMAIN cards, NEW i \in DOMAIN events[c]
      PROVE  events[c][i].lease <= Len(leases')
  <2>1. events[c][i].lease <= Len(leases)
    BY DEF NamesLeases
  <2>2. events[c][i].lease \in Nat
    <3>1. events[c][i] \in Event
      BY HistoryType
    <3> QED BY <3>1 DEF Event
  <2> QED BY <1>1, <1>2, <2>1, <2>2
<1>4. CASE NoEvidence
  BY <1>4 DEF NoEvidence, NamesLeases
<1>5. CASE NewCard
  <2>1. PICK new, e : /\ new \in Card
                      /\ cards' = Append(cards, new)
                      /\ e = MkEvent("card_created", 0, None, new.bucket)
                      /\ events' = Append(events, <<e>>)
    BY <1>5 DEF NewCard
  <2>2. e \in Event /\ e.lease = 0
    <3>1. e \in Event
      BY <2>1, EventTypes DEF Card, EventType
    <3> QED BY <2>1, <3>1, EventFields
  <2>3. /\ DOMAIN cards' = DOMAIN cards \union {Len(cards) + 1}
        /\ events'[Len(cards) + 1] = <<e>>
        /\ \A c \in DOMAIN cards : events'[c] = events[c]
    BY <2>1, <2>2, NewCardFacts
  <2>4. \A i \in DOMAIN <<e>> : <<e>>[i].lease <= Len(leases')
    BY <1>1, <2>2
  <2> QED BY <1>3, <2>3, <2>4 DEF NamesLeases
<1>6. CASE OneEvent
  <2>1. PICK c \in DOMAIN cards, e \in Event :
           record(c, e) /\ LocationStep(c, e) /\ LeaseStep(c, e)
    BY <1>6 DEF OneEvent
  <2>2. e.lease <= Len(leases')
    <3>1. CASE ClaimStep(c, e)
      <4>1. PICK new \in Lease : leases' = Append(leases, new) /\ e.lease = Len(leases) + 1
        BY <3>1 DEF ClaimStep
      <4> QED BY <1>1, <4>1
    <3>2. CASE e.lease = 0
      BY <1>1, <3>2
    <3>3. CASE e.lease \in DOMAIN leases
      BY <1>1, <1>2, <3>3
    <3> QED BY <2>1, <3>1, <3>2, <3>3 DEF LeaseStep, RenewStep, EndStep
  <2>3. events[c] \in Seq(Event) /\ events'[c] = Append(events[c], e)
        /\ \A d \in DOMAIN cards : d # c => events'[d] = events[d]
    BY <2>1, RecordFacts
  <2>4. DOMAIN cards' = DOMAIN cards
    BY <2>1 DEF LocationStep
  <2>5. \A i \in DOMAIN events'[c] :
           events'[c][i] = e \/ (i \in DOMAIN events[c] /\ events'[c][i] = events[c][i])
    BY <2>3
  <2>6. ASSUME NEW d \in DOMAIN cards, NEW i \in DOMAIN events'[d]
        PROVE  events'[d][i].lease <= Len(leases')
    <3>1. CASE d = c
      BY <1>3, <2>2, <2>5, <3>1
    <3>2. CASE d # c
      BY <1>3, <2>3, <3>2
    <3> QED BY <3>1, <3>2
  <2> QED BY <2>4, <2>6 DEF NamesLeases
<1>7. CASE expire_leases
  <2>1. cards' = cards
    BY <1>7 DEF expire_leases
  <2>2. ASSUME NEW d \in DOMAIN cards, NEW i \in DOMAIN events'[d]
        PROVE  events'[d][i].lease <= Len(leases')
    <3>1. PICK h2 : h2 = events'[d]
      OBVIOUS
    <3>2. events[d] \in Seq(Event) /\ h2 \in Seq(Event)
      BY <2>1, <3>1, HistoryType DEF TypeOK, CardsOK
    <3>3. Longer(events[d], h2) /\ \A j \in Added(events[d], h2) : h2[j].lease \in Due(d)
      BY <1>7, <3>1, SweepFacts
    <3>4. /\ DOMAIN h2 = DOMAIN events[d] \union Added(events[d], h2)
          /\ DOMAIN events[d] \subseteq Nat /\ DOMAIN h2 \subseteq Nat
          /\ \A j \in DOMAIN events[d] : j \notin Added(events[d], h2) /\ h2[j] = events[d][j]
          /\ \A j \in DOMAIN events[d], k \in Added(events[d], h2) : j < k /\ ~(k <= j)
      BY <3>2, <3>3, LongerFacts
    <3>5. Due(d) \subseteq DOMAIN leases
      BY DEF Due, Overdue
    <3>6. CASE i \in DOMAIN events[d]
      BY <1>3, <3>1, <3>4, <3>6
    <3>7. CASE i \in Added(events[d], h2)
      BY <1>1, <1>2, <3>1, <3>3, <3>5, <3>7
    <3> QED BY <3>1, <3>4, <3>6, <3>7
  <2> QED BY <2>1, <2>2 DEF NamesLeases
<1> QED BY <1>4, <1>5, <1>6, <1>7, EvidenceSteps

\* For all constants: the history of a card tells the whole life of each of its
\* leases: one claim, then renewals, then one end exactly when the lease is
\* released (LeaseEvidence).
THEOREM LeasesHaveEvidence == Spec => []LeaseEvidence
<1>1. Init => LeaseEvidence /\ NamesLeases
  BY DEF Init, LeaseEvidence, NamesLeases
<1>2. TypeOK /\ TypeOK' /\ LeaseEvidence /\ NamesLeases /\ [Next]_vars
      => LeaseEvidence' /\ NamesLeases'
  BY LeaseEvidenceStep, NamesLeasesStep
<1> QED BY <1>1, <1>2, TypeInit, TypeStep, PTL DEF Spec

-----------------------------------------------------------------------------
(* What a lease was granted on.                                             *)

\* History h brought the card to bucket b before it records the claim of l.
Brought(h, l, b) ==
    \E i \in Placing(h), j \in About(h, l, {"card_claimed"}) :
        /\ i < j
        /\ \A m \in Placing(h) : m <= i \/ j < m
        /\ h[i].to = b

\* Panel p is the version of the card of lease l and had brought it to the
\* claimed pipe.
GrantedBy(l, p) ==
    /\ workflow_version(p) = cards[leases[l].card].workflow_version
    /\ Resolvable(p, leases[l].pipe, "input")
    /\ leases[l].node = pipe_node(p, leases[l].pipe, "input")
    /\ Brought(events[leases[l].card], l, pipe_bucket(p, leases[l].pipe))

\* The property says that some panel granted every lease.
LEMMA GrantedIsOwnInput ==
    ClaimedFromOwnInput <=> \A l \in DOMAIN leases : \E p \in Panels : GrantedBy(l, p)
BY DEF ClaimedFromOwnInput, GrantedBy, Brought, Placing, About, Located, Says

\* What a history says of a claim it still says when it is longer.
LEMMA BroughtStays ==
    ASSUME NEW h \in Seq(Event), NEW h2 \in Seq(Event), Longer(h, h2), NEW l, NEW b,
           Brought(h, l, b)
    PROVE  Brought(h2, l, b)
<1>1. /\ DOMAIN h2 = DOMAIN h \union Added(h, h2)
      /\ DOMAIN h \subseteq Nat /\ DOMAIN h2 \subseteq Nat
      /\ \A i \in DOMAIN h : i \notin Added(h, h2) /\ h2[i] = h[i]
      /\ \A i \in DOMAIN h, j \in Added(h, h2) : i < j /\ ~(j <= i)
  BY LongerFacts
<1>2. PICK i \in Placing(h), j \in About(h, l, {"card_claimed"}) :
         /\ i < j
         /\ \A m \in Placing(h) : m <= i \/ j < m
         /\ h[i].to = b
  BY DEF Brought
<1>3. i \in DOMAIN h /\ j \in DOMAIN h
  BY DEF Placing, About
<1>4. i \in Placing(h2) /\ j \in About(h2, l, {"card_claimed"}) /\ h2[i].to = b
  BY <1>1, <1>2, <1>3 DEF Placing, About
<1>5. \A m \in Placing(h2) : m \in Placing(h) \/ m \in Added(h, h2)
  BY <1>1 DEF Placing
<1>6. \A m \in Placing(h2) : m <= i \/ j < m
  BY <1>1, <1>2, <1>3, <1>5
<1> QED BY <1>2, <1>4, <1>6 DEF Brought

\* Every operation keeps what a lease was granted on.
LEMMA GrantStays ==
    ASSUME TypeOK, TypeOK', [Next]_vars, NEW l \in DOMAIN leases, NEW p, GrantedBy(l, p)
    PROVE  GrantedBy(l, p)'
<1>1. PICK c \in DOMAIN cards : c = leases[l].card
  BY LeaseFacts
<1>2. leases'[l].card = c /\ leases'[l].pipe = leases[l].pipe /\ leases'[l].node = leases[l].node
  BY <1>1, LeasesKeep
<1>3. /\ c \in DOMAIN cards' /\ Longer(events[c], events'[c])
      /\ cards'[c].workflow_version = cards[c].workflow_version
  BY HistoriesGrow
<1>4. events[c] \in Seq(Event) /\ events'[c] \in Seq(Event)
  BY <1>3, HistoryType DEF TypeOK, CardsOK
<1>5. PICK b : b = pipe_bucket(p, leases[l].pipe)
  OBVIOUS
<1>6. Brought(events[c], l, b)
  BY <1>1, <1>5 DEF GrantedBy
<1>7. Brought(events'[c], l, b)
  BY <1>3, <1>4, <1>6, BroughtStays
<1> QED BY <1>1, <1>2, <1>3, <1>5, <1>7 DEF GrantedBy

\* A lease that a step adds was granted by a panel registered at that time.
LEMMA NewGrant ==
    ASSUME TypeOK, TypeOK', LocationIsReplayable, [Next]_vars,
           NEW l \in DOMAIN leases', l \notin DOMAIN leases
    PROVE  \E p \in Panels : (\E id \in DOMAIN panels : p = panels[id]) /\ GrantedBy(l, p)'
<1>1. leases \in Seq(Lease) /\ DOMAIN leases = 1..Len(leases) /\ Len(leases) \in Nat
  BY DEF TypeOK, LeasesOK
<1>2. PICK c \in DOMAIN cards, e \in Event :
         record(c, e) /\ LocationStep(c, e) /\ ClaimStep(c, e)
  <2>1. OneEvent
    BY EvidenceSteps DEF NoEvidence, NewCard, expire_leases
  <2>2. PICK c \in DOMAIN cards, e \in Event :
           record(c, e) /\ LocationStep(c, e) /\ LeaseStep(c, e)
    BY <2>1 DEF OneEvent
  <2>3. ClaimStep(c, e)
    BY <2>2 DEF LeaseStep, RenewStep, EndStep, end_lease
  <2> QED BY <2>2, <2>3
<1>3. PICK new \in Lease : /\ new.card = c
                           /\ FromInput(c, new)
                           /\ leases' = Append(leases, new)
                           /\ e.type = "card_claimed"
                           /\ e.lease = Len(leases) + 1
                           /\ e.to = None
  BY <1>2 DEF ClaimStep
<1>4. l = Len(leases) + 1 /\ leases'[l] = new
  BY <1>1, <1>3
<1>5. PICK id \in DOMAIN panels :
         /\ panels[id] \in Panels
         /\ workflow_version(panels[id]) = cards[c].workflow_version
         /\ Resolvable(panels[id], new.pipe, "input")
         /\ new.node = pipe_node(panels[id], new.pipe, "input")
         /\ cards[c].bucket = pipe_bucket(panels[id], new.pipe)
  BY <1>3 DEF FromInput
<1>6. PICK p \in Panels : p = panels[id]
  BY <1>5
<1>7. Brought(events'[c], l, cards[c].bucket)
  <2>1. Replayable(events[c], cards[c].bucket)
    BY LocationByHistory
  <2>2. PICK h, h2, n : h = events[c] /\ h2 = events'[c] /\ n = Len(events[c]) + 1
    OBVIOUS
  <2>3. h \in Seq(Event) /\ h2 = Append(h, e)
    BY <1>2, <2>2, RecordFacts
  <2>4. h2 \in Seq(Event) /\ Longer(h, h2) /\ Added(h, h2) = {n} /\ h2[n] = e
    BY <2>2, <2>3, AppendIsLonger
  <2>5. /\ DOMAIN h2 = DOMAIN h \union Added(h, h2)
        /\ DOMAIN h \subseteq Nat /\ DOMAIN h2 \subseteq Nat
        /\ \A i \in DOMAIN h : i \notin Added(h, h2) /\ h2[i] = h[i]
        /\ \A i \in DOMAIN h, j \in Added(h, h2) : i < j /\ ~(j <= i)
    BY <2>3, <2>4, LongerFacts
  <2>6. PICK i \in Placing(h) : (\A j \in Placing(h) : j <= i) /\ h[i].to = cards[c].bucket
    BY <2>1, <2>2 DEF Replayable
  <2>7. Placing(h2) = Placing(h) /\ About(h2, l, {"card_claimed"}) # {}
        /\ n \in About(h2, l, {"card_claimed"})
    BY <1>3, <1>4, <2>4, <2>5 DEF Placing, About
  <2>8. i \in DOMAIN h /\ i < n /\ h2[i].to = cards[c].bucket
    BY <2>4, <2>5, <2>6 DEF Placing
  <2>9. Brought(h2, l, cards[c].bucket)
    BY <2>6, <2>7, <2>8 DEF Brought
  <2> QED BY <2>2, <2>9
<1>8. cards' = cards
  BY <1>2, <1>3, NoneAssumption DEF LocationStep
<1>9. GrantedBy(l, p)'
  <2>1. leases'[l].card = c /\ leases'[l].pipe = new.pipe /\ leases'[l].node = new.node
    BY <1>3, <1>4
  <2> QED BY <1>5, <1>6, <1>7, <1>8, <2>1 DEF GrantedBy
<1> QED BY <1>6, <1>9

\* Every operation keeps ClaimedFromOwnInput.
LEMMA OwnInputStep ==
    ASSUME TypeOK, TypeOK', LocationIsReplayable, ClaimedFromOwnInput, [Next]_vars
    PROVE  ClaimedFromOwnInput'
<1>1. \A l \in DOMAIN leases : \E p \in Panels : GrantedBy(l, p)
  BY GrantedIsOwnInput
<1>2. ASSUME NEW l \in DOMAIN leases' PROVE \E p \in Panels : GrantedBy(l, p)'
  <2>1. CASE l \in DOMAIN leases
    <3>1. PICK p \in Panels : GrantedBy(l, p)
      BY <1>1, <2>1
    <3>2. GrantedBy(l, p)'
      BY <2>1, <3>1, GrantStays
    <3> QED BY <3>2
  <2>2. CASE l \notin DOMAIN leases
    BY <2>2, NewGrant
  <2> QED BY <2>1, <2>2
<1> QED BY <1>2 DEF ClaimedFromOwnInput, GrantedBy, Brought, Placing, About, Located, Says

\* For all constants: a worker is only handed a card that the card's own panel
\* version had brought to the claimed pipe (ClaimedFromOwnInput), whatever
\* panels were registered, replaced or sharing pipe names.
THEOREM ClaimsAreFromOwnInput == Spec => []ClaimedFromOwnInput
<1>1. Init => ClaimedFromOwnInput /\ LocationIsReplayable
  BY DEF Init, ClaimedFromOwnInput, LocationIsReplayable
<1>2. TypeOK /\ TypeOK' /\ LocationIsReplayable /\ ClaimedFromOwnInput /\ [Next]_vars
      => LocationIsReplayable' /\ ClaimedFromOwnInput'
  BY LocationStepKept, OwnInputStep
<1> QED BY <1>1, <1>2, TypeInit, TypeStep, PTL DEF Spec

-----------------------------------------------------------------------------
(* A card whose lease is over can be claimed again.                         *)

\* A deployment in which no panel is replaced by another version of it.
OneVersion == \A p, q \in Panels : p.id = q.id => p = q

\* A deployment in which no two panels read from the same pipe.
OwnPipes ==
    \A p, q \in Panels : \A pipe \in Pipe :
        IsBound(p, pipe, "input") /\ IsBound(q, pipe, "input") => p = q

\* _patch_panels is indexed by the ids of the panels.
PanelsAtTheirId == \A id \in DOMAIN panels : panels[id].id = id

\* The panel that granted a lease is still registered.
GrantInForce ==
    \A l \in DOMAIN leases : \E id \in DOMAIN panels :
        GrantedBy(l, panels[id])

\* Registration is the only step that changes the panels, and it adds one under
\* its id; without second versions it replaces none.
LEMMA PanelsStay ==
    ASSUME OneVersion, TypeOK, PanelsAtTheirId, [Next]_vars
    PROVE  /\ PanelsAtTheirId'
           /\ \A id \in DOMAIN panels : id \in DOMAIN panels' /\ panels'[id] = panels[id]
<1>1. CASE \E p \in Panels : register_patch_panel(p)
  <2>1. PICK p \in Panels :
           panels' = [id \in DOMAIN panels \union {p.id} |-> IF id = p.id THEN p ELSE panels[id]]
    BY <1>1 DEF register_patch_panel
  <2>2. \A id \in DOMAIN panels : panels[id] \in Panels /\ panels[id].id = id
    BY DEF TypeOK, PanelsOK, PanelsAtTheirId
  <2>3. \A id \in DOMAIN panels : id = p.id => panels[id] = p
    BY <2>2 DEF OneVersion
  <2>4. \A id \in DOMAIN panels : id \in DOMAIN panels' /\ panels'[id] = panels[id]
    BY <2>1, <2>3
  <2>5. \A id \in DOMAIN panels' : panels'[id].id = id
    BY <2>1, <2>2
  <2> QED BY <2>4, <2>5 DEF PanelsAtTheirId
<1>2. CASE panels' = panels
  BY <1>2 DEF PanelsAtTheirId
<1>3. (\E p \in Panels : register_patch_panel(p)) \/ panels' = panels
  BY DEF Next, OnPanel, OnLease, OnCard, Replays, Tick, vars, create_card,
         claim_card, submit_artifact, renew_lease, release_lease, release_ended_lease,
         expire_leases, validate_card, move_card, record_event, Replay
<1> QED BY <1>1, <1>2, <1>3

\* Without second versions, the panel that granted a lease stays registered.
LEMMA InForceStep ==
    ASSUME OneVersion, TypeOK, TypeOK', PanelsAtTheirId, LocationIsReplayable, GrantInForce,
           [Next]_vars
    PROVE  GrantInForce'
<1>1. ASSUME NEW l \in DOMAIN leases'
      PROVE  \E p \in Panels : (\E id \in DOMAIN panels : p = panels[id]) /\ GrantedBy(l, p)'
  <2>1. CASE l \in DOMAIN leases
    <3>1. PICK id \in DOMAIN panels : GrantedBy(l, panels[id])
      BY <2>1 DEF GrantInForce
    <3>2. PICK p \in Panels : p = panels[id]
      BY DEF TypeOK, PanelsOK
    <3>3. GrantedBy(l, p)
      BY <3>1, <3>2
    <3>4. GrantedBy(l, p)'
      BY <2>1, <3>3, GrantStays
    <3> QED BY <3>2, <3>4
  <2>2. CASE l \notin DOMAIN leases
    BY <2>2, NewGrant
  <2> QED BY <2>1, <2>2
<1>2. ASSUME NEW l \in DOMAIN leases'
      PROVE  \E id \in DOMAIN panels' : GrantedBy(l, panels[id])'
  <2>1. PICK p \in Panels, id \in DOMAIN panels : p = panels[id] /\ GrantedBy(l, p)'
    BY <1>1
  <2>2. id \in DOMAIN panels' /\ panels'[id] = p
    BY <2>1, PanelsStay
  <2>3. GrantedBy(l, panels[id])'
    BY <2>1, <2>2 DEF GrantedBy
  <2> QED BY <2>2, <2>3
<1> QED BY <1>2 DEF GrantInForce

\* What those invariants say of a card whose lease is over.
LEMMA Reclaimable ==
    ASSUME OwnPipes, TypeOK, PanelsAtTheirId, LocationIsReplayable, GrantInForce
    PROVE  ReclaimableAfterLease
<1> SUFFICES ASSUME NEW l \in DOMAIN leases, NEW c, c = leases[l].card,
                    \A m \in DOMAIN leases : leases[m].card = c => ~ActiveLease(m),
                    \A i \in Located(c), j \in Says(l, {"card_claimed"}) : i < j
             PROVE  \E id \in DOMAIN panels :
                       /\ claim_target(leases[l].pipe, id)
                       /\ c \in Claimable(panels[id], pipe_bucket(panels[id], leases[l].pipe))
  BY DEF ReclaimableAfterLease
<1>1. c \in DOMAIN cards /\ leases[l] \in Lease /\ leases[l].pipe \in Pipe
  BY LeaseFacts DEF Lease
<1>2. PICK id \in DOMAIN panels : GrantedBy(l, panels[id])
  BY DEF GrantInForce
<1>3. PICK p, pipe, h : p = panels[id] /\ pipe = leases[l].pipe /\ h = events[c]
  OBVIOUS
<1>4. p \in Panels /\ pipe \in Pipe /\ h \in Seq(Event)
  BY <1>1, <1>3, HistoryType DEF TypeOK, PanelsOK
<1>5. workflow_version(p) = cards[c].workflow_version
      /\ Resolvable(p, pipe, "input") /\ Brought(h, l, pipe_bucket(p, pipe))
  BY <1>2, <1>3 DEF GrantedBy
<1>6. PICK i \in Placing(h), j \in About(h, l, {"card_claimed"}) :
         /\ i < j
         /\ \A m \in Placing(h) : m <= i \/ j < m
         /\ h[i].to = pipe_bucket(p, pipe)
  BY <1>5 DEF Brought
<1>7. Placing(h) \subseteq Nat /\ j \in Nat
  BY <1>4 DEF Placing, About
<1>8. \A m \in Placing(h) : m < j
  BY <1>3, <1>6 DEF Placing, About, Located, Says
<1>9. \A m \in Placing(h) : m <= i
  BY <1>6, <1>7, <1>8
<1>10. PICK n \in Placing(h) : (\A m \in Placing(h) : m <= n) /\ h[n].to = cards[c].bucket
  BY <1>1, <1>3, LocationByHistory DEF Replayable
<1>11. n = i
  BY <1>6, <1>7, <1>9, <1>10
<1>12. c \in Claimable(p, pipe_bucket(p, pipe))
  BY <1>1, <1>5, <1>6, <1>10, <1>11 DEF Claimable, has_active_lease, LeasesOf
<1>13. IsBound(p, pipe, "input") /\ HasNode(p, pipe, "input")
  BY <1>5 DEF Resolvable
<1>14. \A k \in Matches(pipe) : k = id
  <2> TAKE k \in Matches(pipe)
  <2>1. k \in DOMAIN panels /\ IsBound(panels[k], pipe, "input") /\ panels[k] \in Panels
    BY DEF Matches, TypeOK, PanelsOK
  <2>2. panels[k] = p
    BY <1>4, <1>13, <2>1 DEF OwnPipes
  <2> QED BY <1>3, <2>1, <2>2 DEF PanelsAtTheirId
<1>15. id \in Matches(pipe) /\ id \in WithCards(pipe)
  BY <1>3, <1>12, <1>13 DEF Matches, WithCards
<1>16. claim_target(pipe, id)
  BY <1>3, <1>13, <1>14, <1>15 DEF claim_target, WithCards
<1> QED BY <1>3, <1>12, <1>16

\* For all constants of a deployment without second versions and shared input
\* pipes: a card whose lease has ended or run out, and that nobody has moved
\* since the claim, can be claimed again from the same pipe
\* (ReclaimableAfterLease), swept or not.  Each hypothesis is needed: a second
\* version replaces the panel that could claim the card, and a second panel on
\* the pipe makes every claim a conflict.
THEOREM CardsAreReclaimable ==
    ASSUME OneVersion, OwnPipes
    PROVE  Spec => []ReclaimableAfterLease
<1>1. Init => PanelsAtTheirId /\ LocationIsReplayable /\ GrantInForce
  BY DEF Init, PanelsAtTheirId, LocationIsReplayable, GrantInForce
<1>2. TypeOK /\ TypeOK' /\ PanelsAtTheirId /\ LocationIsReplayable /\ GrantInForce /\ [Next]_vars
      => PanelsAtTheirId' /\ LocationIsReplayable' /\ GrantInForce'
  BY PanelsStay, LocationStepKept, InForceStep
<1>3. TypeOK /\ PanelsAtTheirId /\ LocationIsReplayable /\ GrantInForce => ReclaimableAfterLease
  BY Reclaimable
<1> QED BY <1>1, <1>2, <1>3, TypeInit, TypeStep, PTL DEF Spec

-----------------------------------------------------------------------------
(* Repeated requests.                                                       *)

\* The answer a is the one stored under its key.
Stored(a) == a.key \in DOMAIN idempotency /\ a.result = idempotency[a.key]

\* The answer a is that of releasing a lease that had ended, which stores no key.
OfEnded(a) ==
    \E l \in DOMAIN leases :
        /\ leases[l].released
        /\ a.op = "release_lease"
        /\ a.on = <<"lease", l>>
        /\ a.result = [type |-> "Lease", lease |-> l, value |-> leases[l]]

\* Every answer is the stored one, or that of releasing an ended lease; in the
\* second case its key is free, or a different request has taken it since.
AnswersHeld ==
    \A a \in answers :
        \/ Stored(a)
        \/ /\ OfEnded(a)
           /\ \/ a.key \notin DOMAIN idempotency
              \/ \E other \in answers :
                    other.key = a.key /\ (other.op # a.op \/ other.on # a.on)

\* An operation that runs and answers a request of type op about on.
Answering ==
    \E k \in Key \union {None} : \E op, on, result :
        /\ Fresh(k)
        /\ Answer(k, op, on, result)
        /\ \A l \in DOMAIN leases :
              op = "release_lease" /\ on = <<"lease", l>> => ~leases[l].released

\* Answering without running: a stored answer, or an ended lease.
Repeating ==
    \E a : /\ answers' = answers \union {a}
           /\ UNCHANGED <<leases, idempotency>>
           /\ Stored(a) \/ (OfEnded(a) /\ a.key \notin DOMAIN idempotency)

\* Every step answers by running, answers by repeating, or answers nothing.
LEMMA AnswerSteps ==
    ASSUME TypeOK, [Next]_vars
    PROVE  Answering \/ Repeating \/ UNCHANGED <<answers, idempotency>>
<1>1. CASE OnPanel
  <2>1. ASSUME NEW id \in PanelId, NEW k \in Key \union {None}, create_card(id, k)
        PROVE  Answering
    <3>1. PICK on, r : Fresh(k) /\ Answer(k, "create_card", on, r)
      BY <2>1 DEF create_card
    <3> QED BY <3>1 DEF Answering
  <2> QED BY <1>1, <2>1 DEF OnPanel, register_patch_panel
<1>2. CASE OnLease
  <2>1. ASSUME NEW pipe \in Pipe, NEW s \in LeaseSeconds, NEW k \in Key \union {None},
               claim_card(pipe, s, k)
        PROVE  Answering
    <3>1. PICK on, r : Fresh(k) /\ Answer(k, "claim_card", on, r)
      BY <2>1 DEF claim_card
    <3> QED BY <3>1 DEF Answering
  <2>2. ASSUME NEW l \in DOMAIN leases, NEW pipe \in Pipe, NEW refs \in RefLists,
               NEW k \in Key \union {None}, submit_artifact(l, pipe, refs, k)
        PROVE  Answering
    <3>1. PICK on, r : Fresh(k) /\ Answer(k, "submit_artifact", on, r)
      BY <2>2 DEF submit_artifact
    <3> QED BY <3>1 DEF Answering
  <2>3. ASSUME NEW l \in DOMAIN leases, NEW s \in LeaseSeconds, NEW k \in Key \union {None},
               renew_lease(l, s, k)
        PROVE  Answering
    <3>1. PICK on, r : Fresh(k) /\ Answer(k, "renew_lease", on, r)
      BY <2>3 DEF renew_lease
    <3> QED BY <3>1 DEF Answering
  <2>4. ASSUME NEW l \in DOMAIN leases, NEW k \in Key \union {None}, release_lease(l, k)
        PROVE  Answering
    <3>1. PICK r : /\ Fresh(k) /\ Answer(k, "release_lease", <<"lease", l>>, r)
                   /\ ~leases[l].released
      BY <2>4 DEF release_lease
    <3>2. \A m \in DOMAIN leases : <<"lease", l>> = <<"lease", m>> => ~leases[m].released
      BY <3>1
    <3> QED BY <3>1, <3>2 DEF Answering
  <2>5. ASSUME NEW l \in DOMAIN leases, NEW k \in Key, release_ended_lease(l, k)
        PROVE  Repeating
    <3>1. PICK a : a = [key |-> k, op |-> "release_lease", on |-> <<"lease", l>>,
                        result |-> [type |-> "Lease", lease |-> l, value |-> leases[l]]]
      OBVIOUS
    <3>2. answers' = answers \union {a} /\ UNCHANGED <<leases, idempotency>>
      BY <2>5, <3>1 DEF release_ended_lease
    <3>3. OfEnded(a) /\ a.key \notin DOMAIN idempotency
      BY <2>5, <3>1 DEF release_ended_lease, OfEnded, Fresh
    <3> QED BY <3>2, <3>3 DEF Repeating
  <2>6. CASE expire_leases
    BY <2>6 DEF expire_leases
  <2> QED BY <1>2, <2>1, <2>2, <2>3, <2>4, <2>5, <2>6 DEF OnLease
<1>3. CASE OnCard
  <2>1. ASSUME NEW c \in DOMAIN cards, NEW pipe, NEW k \in Key \union {None},
               validate_card(c, pipe, k)
        PROVE  Answering
    <3>1. PICK on, r : Fresh(k) /\ Answer(k, "validate_card", on, r)
      BY <2>1 DEF validate_card
    <3> QED BY <3>1 DEF Answering
  <2>2. ASSUME NEW c \in DOMAIN cards, NEW b, NEW k \in Key \union {None}, move_card(c, b, k)
        PROVE  Answering
    <3>1. PICK on, r : Fresh(k) /\ Answer(k, "move_card", on, r)
      BY <2>2 DEF move_card
    <3> QED BY <3>1 DEF Answering
  <2>3. ASSUME NEW c \in DOMAIN cards, NEW k \in Key \union {None}, record_event(c, k)
        PROVE  Answering
    <3>1. PICK on, r : Fresh(k) /\ Answer(k, "record_event", on, r)
      BY <2>3 DEF record_event
    <3> QED BY <3>1 DEF Answering
  <2> QED BY <1>3, <2>1, <2>2, <2>3 DEF OnCard
<1>4. CASE Replays
  <2>1. PICK k, op, on : k \in Key /\ Replay(k, op, on)
    BY <1>4 DEF Replays
  <2>2. PICK a : a = [key |-> k, op |-> op, on |-> on, result |-> idempotency[k]]
    OBVIOUS
  <2>3. answers' = answers \union {a} /\ UNCHANGED <<leases, idempotency>>
    BY <2>1, <2>2 DEF Replay
  <2>4. Stored(a)
    BY <2>1, <2>2 DEF Replay, Stored
  <2> QED BY <2>3, <2>4 DEF Repeating
<1>5. CASE Tick \/ UNCHANGED vars
  BY <1>5 DEF Tick, vars
<1> QED BY <1>1, <1>2, <1>3, <1>4, <1>5 DEF Next

\* The answer of an ended lease stays its answer.
LEMMA OfEndedStays ==
    ASSUME TypeOK, [Next]_vars, NEW a, OfEnded(a)
    PROVE  OfEnded(a)'
<1>1. PICK l \in DOMAIN leases :
         /\ leases[l].released
         /\ a.op = "release_lease"
         /\ a.on = <<"lease", l>>
         /\ a.result = [type |-> "Lease", lease |-> l, value |-> leases[l]]
  BY DEF OfEnded
<1>2. l \in DOMAIN leases' /\ leases'[l] = leases[l]
  BY <1>1, LeasesKeep, EndedStep
<1> QED BY <1>1, <1>2 DEF OfEnded

\* Every operation keeps AnswersHeld.
LEMMA AnswersHeldStep ==
    ASSUME TypeOK, AnswersHeld, [Next]_vars
    PROVE  AnswersHeld'
<1>1. \A a \in answers : OfEnded(a) => OfEnded(a)'
  BY OfEndedStays
<1>2. CASE UNCHANGED <<answers, idempotency>>
  BY <1>1, <1>2 DEF AnswersHeld, Stored
<1>3. CASE Repeating
  <2>1. PICK b : /\ answers' = answers \union {b}
                 /\ UNCHANGED <<leases, idempotency>>
                 /\ Stored(b) \/ (OfEnded(b) /\ b.key \notin DOMAIN idempotency)
    BY <1>3 DEF Repeating
  <2>2. Stored(b)' \/ (OfEnded(b)' /\ b.key \notin DOMAIN idempotency')
    BY <2>1, OfEndedStays DEF Stored
  <2>3. ASSUME NEW a \in answers
        PROVE  \/ Stored(a)'
               \/ /\ OfEnded(a)'
                  /\ \/ a.key \notin DOMAIN idempotency'
                     \/ \E other \in answers' :
                           other.key = a.key /\ (other.op # a.op \/ other.on # a.on)
    BY <1>1, <2>1 DEF AnswersHeld, Stored
  <2> QED BY <2>1, <2>2, <2>3 DEF AnswersHeld
<1>4. CASE Answering
  <2>1. PICK k, op, on, result :
           /\ k \in Key \union {None}
           /\ Fresh(k)
           /\ Answer(k, op, on, result)
           /\ \A l \in DOMAIN leases :
                 op = "release_lease" /\ on = <<"lease", l>> => ~leases[l].released
    BY <1>4 DEF Answering
  <2>2. CASE k = None
    BY <1>1, <2>1, <2>2 DEF Answer, store_idempotent, AnswersHeld, Stored
  <2>3. CASE k # None
    <3>1. PICK b : b = [key |-> k, op |-> op, on |-> on, result |-> result]
      OBVIOUS
    <3>2. /\ answers' = answers \union {b}
          /\ k \notin DOMAIN idempotency
          /\ DOMAIN idempotency' = DOMAIN idempotency \union {k}
          /\ idempotency'[k] = result
          /\ \A key \in DOMAIN idempotency : idempotency'[key] = idempotency[key]
      BY <2>1, <2>3, <3>1 DEF Answer, store_idempotent, Fresh
    <3>3. b.key = k /\ b.op = op /\ b.on = on /\ b.result = result
      BY <3>1
    <3>4. Stored(b)'
      BY <3>2, <3>3 DEF Stored
    <3>5. ASSUME NEW a \in answers
          PROVE  \/ Stored(a)'
                 \/ /\ OfEnded(a)'
                    /\ \/ a.key \notin DOMAIN idempotency'
                       \/ \E other \in answers' :
                             other.key = a.key /\ (other.op # a.op \/ other.on # a.on)
      <4>1. CASE Stored(a)
        BY <3>2, <4>1 DEF Stored
      <4>2. CASE ~Stored(a) /\ a.key # k
        BY <1>1, <3>2, <4>2 DEF AnswersHeld
      <4>3. CASE ~Stored(a) /\ a.key = k
        <5>1. OfEnded(a) /\ OfEnded(a)'
          BY <1>1, <4>3 DEF AnswersHeld
        <5>2. b.op # a.op \/ b.on # a.on
          BY <2>1, <3>3, <5>1 DEF OfEnded
        <5> QED BY <3>2, <3>3, <4>3, <5>1, <5>2
      <4> QED BY <4>1, <4>2, <4>3
    <3> QED BY <3>2, <3>4, <3>5 DEF AnswersHeld
  <2> QED BY <2>2, <2>3
<1> QED BY <1>2, <1>3, <1>4, AnswerSteps

\* What AnswersHeld says of two answers under a key kept for one request.
LEMMA HeldAgree == AnswersHeld => RepeatedRequestsAgree
<1> SUFFICES ASSUME AnswersHeld, NEW a \in answers, NEW b \in answers, a.key = b.key,
                    \A other \in answers :
                        other.key = a.key => other.op = a.op /\ other.on = a.on
             PROVE  a.result = b.result
  BY DEF RepeatedRequestsAgree
<1>1. b.op = a.op /\ b.on = a.on
  OBVIOUS
<1>2. Stored(a) \/ (OfEnded(a) /\ a.key \notin DOMAIN idempotency)
  BY DEF AnswersHeld
<1>3. Stored(b) \/ (OfEnded(b) /\ b.key \notin DOMAIN idempotency)
  BY <1>1 DEF AnswersHeld
<1>4. CASE Stored(a) /\ Stored(b)
  BY <1>4 DEF Stored
<1>5. CASE OfEnded(a) /\ OfEnded(b)
  BY <1>1, <1>5 DEF OfEnded
<1> QED BY <1>2, <1>3, <1>4, <1>5 DEF Stored

\* For all constants: a client that keeps a key for one request gets the same
\* answer each time it repeats it (RepeatedRequestsAgree), also when the key was
\* used to release a lease that had ended, which stores nothing.
THEOREM RepetitionsAgree == Spec => []RepeatedRequestsAgree
<1>1. Init => AnswersHeld
  BY DEF Init, AnswersHeld
<1>2. TypeOK /\ AnswersHeld /\ [Next]_vars => AnswersHeld'
  BY AnswersHeldStep
<1> QED BY <1>1, <1>2, HeldAgree, TypeCorrect, PTL DEF Spec
=============================================================================
