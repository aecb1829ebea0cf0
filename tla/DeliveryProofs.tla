--------------------------- MODULE DeliveryProofs ---------------------------
(***************************************************************************)
(* Proofs about Delivery, for every number of clients, panels, cards and     *)
(* external systems: whatever is delivered twice, repeated or cut short,     *)
(* one card for a delivery and one execution of its source, one egress of a  *)
(* card, no submission without a claim, no egress of shadow cards, no        *)
(* promotion that is not in force, and evidence in order.                    *)
(***************************************************************************)
EXTENDS Delivery, NodeExecutorProofs

\* What a request has still to do.  A source records its execution and then
\* what it received ...
Source1 == <<"source_executed", "boundary_source_received">>
Source2 == <<"boundary_source_received">>
\* ... a sink its execution and what it sent ...
Sink1 == <<"sink_executed", "boundary_sink_egressed">>
Sink2 == <<"boundary_sink_egressed">>
\* ... a worker submits and looks ...
Work1 == <<"submit", "check">>
Work2 == <<"check">>
\* ... and the shadow service makes a card and records what it did, or
\* registers a panel and marks its mutation.
Shadow1 == <<"shadow_card", "shadow_created">>
Shadow2 == <<"shadow_created">>
Completing == <<"shadow_completed">>
Promoting1 == <<"register", "promoted">>
Promoting2 == <<"promoted">>

\* The first step of each of these.
LEMMA FirstSteps ==
    /\ Head(Source1) = "source_executed" /\ Head(Source2) = "boundary_source_received"
    /\ Head(Sink1) = "sink_executed" /\ Head(Sink2) = "boundary_sink_egressed"
    /\ Head(Work1) = "submit" /\ Head(Work2) = "check"
    /\ Head(Shadow1) = "shadow_card" /\ Head(Shadow2) = "shadow_created"
    /\ Head(Completing) = "shadow_completed"
    /\ Head(Promoting1) = "register" /\ Head(Promoting2) = "promoted"
BY DEF Source1, Source2, Sink1, Sink2, Work1, Work2, Shadow1, Shadow2, Completing,
       Promoting1, Promoting2

\* What is left after it.
LEMMA LaterSteps ==
    /\ Tail(Source1) = Source2 /\ Tail(Source2) = << >>
    /\ Tail(Sink1) = Sink2 /\ Tail(Sink2) = << >>
    /\ Tail(Work1) = Work2 /\ Tail(Work2) = << >>
    /\ Tail(Shadow1) = Shadow2 /\ Tail(Shadow2) = << >>
    /\ Tail(Completing) = << >>
    /\ Tail(Promoting1) = Promoting2 /\ Tail(Promoting2) = << >>
<1>1. /\ Tail(Source2) = << >> /\ Tail(Sink2) = << >> /\ Tail(Work2) = << >>
      /\ Tail(Shadow2) = << >> /\ Tail(Completing) = << >> /\ Tail(Promoting2) = << >>
  BY DEF Source2, Sink2, Work2, Shadow2, Completing, Promoting2
<1>2. Tail(Source1) = Source2
  BY DEF Source1, Source2
<1>3. Tail(Sink1) = Sink2
  BY DEF Sink1, Sink2
<1>4. Tail(Work1) = Work2
  BY DEF Work1, Work2
<1>5. Tail(Shadow1) = Shadow2
  BY DEF Shadow1, Shadow2
<1>6. Tail(Promoting1) = Promoting2
  BY DEF Promoting1, Promoting2
<1> QED BY <1>1, <1>2, <1>3, <1>4, <1>5, <1>6

\* None of them is finished.
LEMMA Unfinished ==
    /\ Source1 # << >> /\ Source2 # << >> /\ Sink1 # << >> /\ Sink2 # << >> /\ Work1 # << >>
    /\ Work2 # << >> /\ Shadow1 # << >> /\ Shadow2 # << >> /\ Completing # << >>
    /\ Promoting1 # << >> /\ Promoting2 # << >>
BY DEF Source1, Source2, Sink1, Sink2, Work1, Work2, Shadow1, Shadow2, Completing,
       Promoting1, Promoting2

-----------------------------------------------------------------------------
(* The inductive invariant.                                                 *)

\* The deployment keeps shadows apart: no sink is configured with
\* allow_shadow_egress, and no client names its shadow by a key that a
\* boundary source makes for a delivery or that made a card of its own.
Isolated ==
    /\ \A p \in ValidPanels : \A n \in Node(Def(p)) :
          n.type = "sink" => ~n.config.allow_shadow_egress
    /\ \A p \in ValidPanels : \A n \in Node(Def(p)), d \in Dedup :
          BoundaryKey("boundary-source", p, n, d) \notin Key \ {NoKey}
    /\ CardKey \intersect Key \subseteq {NoKey}

EgressType == {"sink_executed", "boundary_sink_egressed"}

\* A card that a sink may run on.
Production(card) == card \in DOMAIN cards /\ (Isolated => ~cards[card].shadow)

\* A worker has claimed the card.
Claimed(card) == \E x \in DOMAIN history[card] : history[card][x].type = "card_claimed"

\* The runtime records at most one event under a key.
OneEventPerKey ==
    \A i, j \in DOMAIN cards : \A x \in DOMAIN history[i], y \in DOMAIN history[j] :
        history[i][x].key = history[j][y].key /\ history[i][x].key # NoKey => i = j /\ x = y

\* Every event's key is stored, and stored for one event; who submits has
\* claimed; nothing leaves through a shadow.
HistoryOK ==
    /\ \A i \in DOMAIN cards : \A x \in DOMAIN history[i] :
          history[i][x].key = NoKey \/ history[i][x].key \in DOMAIN keys
    /\ OneEventPerKey
    /\ \A i \in DOMAIN cards : Before(i, "card_claimed", "artifact_submitted")
    /\ \A i \in DOMAIN cards : \A x \in DOMAIN history[i] :
          history[i][x].type \in EgressType => Production(i)

\* The key of a claim is stored with its lease, a client's key of a card with
\* a shadow.
KeysOK ==
    \A k \in DOMAIN keys :
        /\ keys[k].type = "lease" => keys[k].event \in DOMAIN leases
        /\ Isolated /\ k \in Key /\ keys[k].type = "card" => cards[keys[k].card].shadow

IsLease(x) == x = [card |-> x.card, worker |-> x.worker, active |-> x.active, node |-> x.node]

LeasesOK ==
    /\ IsSequence(leases)
    /\ \A l \in DOMAIN leases : /\ IsLease(leases[l])
                                /\ leases[l].card \in DOMAIN cards
                                /\ Claimed(leases[l].card)

IsLink(x) == x = [production |-> x.production, shadow |-> x.shadow, status |-> x.status]

LinkOK(x) == /\ IsLink(x) /\ {x.production, x.shadow} \subseteq DOMAIN cards
             /\ Isolated => cards[x.shadow].shadow

LinksOK == IsSequence(links) /\ \A i \in DOMAIN links : LinkOK(links[i])

IsMutation(x) == x = [status |-> x.status, panel |-> x.panel]

MutationOK(x) == /\ IsMutation(x)
                 /\ x.status \in {"shadowing", "validated", "rejected", "promoted", "lost"}
                 /\ x.status = "promoted" => \E p \in registered : SameVersion(p, x.panel)

MutationsOK == IsSequence(mutations) /\ \A i \in DOMAIN mutations : MutationOK(mutations[i])

\* What a request has done so far still holds.
CallOK(t) ==
    /\ IsCall(t)
    /\ \/ (t.todo = << >> \/ t.todo = Promoting1) /\ t.card = 0
       \/ /\ t.todo = Promoting2 /\ t.card = 0
          /\ \E p \in registered : SameVersion(p, t.data.panel)
       \/ /\ \/ t.todo = Source1 \/ t.todo = Source2 \/ t.todo = Work2
             \/ t.todo = Shadow2 \/ t.todo = Completing
          /\ t.card \in DOMAIN cards
       \/ t.todo = Shadow1 /\ t.card \in DOMAIN cards /\ t.key \in Key
       \/ t.todo = Work1 /\ t.card \in DOMAIN cards /\ t.data.lease \in DOMAIN leases
       \/ (t.todo = Sink1 \/ t.todo = Sink2) /\ Production(t.card)

CallsOK == call = [c \in Client |-> call[c]] /\ \A c \in Client : CallOK(call[c])

Core == RuntimeOK /\ HistoryOK /\ KeysOK /\ LeasesOK /\ LinksOK /\ MutationsOK /\ CallsOK

-----------------------------------------------------------------------------
(* What stays true while the tables grow.                                   *)

\* A production card stays one, a claimed card claimed.
LEMMA CardsStay ==
    ASSUME Grows, NEW card \in DOMAIN cards
    PROVE  /\ card \in DOMAIN cards'
           /\ Production(card) => Production(card)'
           /\ Claimed(card) => Claimed(card)'
           /\ cards[card].shadow => cards'[card].shadow
<1>1. card \in DOMAIN cards' /\ cards'[card].shadow = cards[card].shadow
  BY DEF Grows
<1>2. Production(card) => Production(card)'
  BY <1>1 DEF Production
<1>3. Claimed(card) => Claimed(card)'
  BY DEF Claimed, Grows
<1> QED BY <1>1, <1>2, <1>3

\* What a waiting request knows stays true while others run.
LEMMA CallStays ==
    ASSUME Grows, DOMAIN leases \subseteq DOMAIN leases', NEW t, CallOK(t)
    PROVE  CallOK(t)'
<1>1. Production(t.card) => Production(t.card)'
  BY CardsStay DEF Production
<1>2. DOMAIN cards \subseteq DOMAIN cards'
  BY DEF Grows
<1>3. registered \subseteq registered'
  BY DEF Grows
<1> QED BY <1>1, <1>2, <1>3 DEF CallOK

\* So do the requests of the clients that do not move.
LEMMA CallStep ==
    ASSUME CallsOK, Grows, DOMAIN leases \subseteq DOMAIN leases', NEW c \in Client, NEW u,
           call' = [call EXCEPT ![c] = u], CallOK(u)'
    PROVE  CallsOK'
<1>1. call' = [d \in Client |-> IF d = c THEN u ELSE call[d]]
  BY DEF CallsOK
<1>2. ASSUME NEW d \in Client PROVE CallOK(call[d])'
  <2>1. PICK t : t = call'[d]
    OBVIOUS
  <2>2. CallOK(t)'
    <3>1. CASE d = c
      BY <1>1, <2>1, <3>1
    <3>2. CASE d # c
      <4>1. CallOK(t)
        BY <1>1, <2>1, <3>2 DEF CallsOK
      <4> QED BY <4>1, CallStays
    <3> QED BY <3>1, <3>2
  <2> QED BY <2>1, <2>2
<1> QED BY <1>1, <1>2 DEF CallsOK

\* The same when no request goes on.
LEMMA QuietStep ==
    ASSUME CallsOK, Grows, DOMAIN leases \subseteq DOMAIN leases', UNCHANGED call
    PROVE  CallsOK'
<1>1. ASSUME NEW d \in Client PROVE CallOK(call[d])'
  <2>1. PICK t : t = call'[d]
    OBVIOUS
  <2>2. CallOK(t)
    BY <2>1 DEF CallsOK
  <2>3. CallOK(t)'
    BY <2>2, CallStays
  <2> QED BY <2>1, <2>3
<1> QED BY <1>1 DEF CallsOK

\* Links and mutations that nobody touches stay true.
LEMMA ServiceStays ==
    ASSUME LinksOK, MutationsOK, Grows
    PROVE  /\ UNCHANGED links => LinksOK'
           /\ UNCHANGED mutations => MutationsOK'
<1>1. ASSUME UNCHANGED links PROVE LinksOK'
  <2>1. ASSUME NEW i \in DOMAIN links' PROVE LinkOK(links[i])'
    <3>1. PICK x : x = links[i]
      OBVIOUS
    <3>2. LinkOK(x)
      BY <1>1, <2>1, <3>1 DEF LinksOK
    <3>3. LinkOK(x)'
      BY <3>2, CardsStay DEF LinkOK
    <3> QED BY <1>1, <3>1, <3>3
  <2> QED BY <1>1, <2>1 DEF LinksOK
<1>2. ASSUME UNCHANGED mutations PROVE MutationsOK'
  <2>1. ASSUME NEW i \in DOMAIN mutations' PROVE MutationOK(mutations[i])'
    <3>1. PICK x : x = mutations[i]
      OBVIOUS
    <3>2. MutationOK(x)
      BY <1>2, <2>1, <3>1 DEF MutationsOK
    <3>3. MutationOK(x)'
      BY <3>2 DEF MutationOK, Grows
    <3> QED BY <1>2, <3>1, <3>3
  <2> QED BY <1>2, <2>1 DEF MutationsOK
<1> QED BY <1>1, <1>2

\* So do leases.
LEMMA LeasesStay ==
    ASSUME LeasesOK, Grows, UNCHANGED leases
    PROVE  LeasesOK'
BY CardsStay DEF LeasesOK

-----------------------------------------------------------------------------
(* What a call adds to the evidence.                                        *)

\* The call recorded e on a card, under a free key, or none ...
Recorded(card, e, type) ==
    card \in DOMAIN cards /\ Appended(card, e) /\ Keyed(e.key, type, card)

\* ... or made the card, with e as its first event.
Made(card, e) ==
    /\ card \notin DOMAIN cards /\ DOMAIN cards' = DOMAIN cards \union {card}
    /\ history'[card] = <<e>>
    /\ \A i \in DOMAIN cards : history'[i] = history[i]
    /\ Keyed(e.key, "card", card)

\* A call that leaves alone what sources, sinks, their adapters and
\* submissions record: it records or makes something else, and stores no key
\* of an event.
ReportType == {"source_executed", "boundary_source_received", "sink_executed",
               "boundary_sink_egressed", "artifact_submitted"}

Unreported ==
    \/ UNCHANGED <<cards, history, keys>>
    \/ \E card, e, type : /\ Recorded(card, e, type) /\ e.type \notin ReportType
                          /\ type # "card" /\ (type # "event" \/ e.key = NoKey)
    \/ \E card, e : Made(card, e) /\ e.type = "card_created"

\* A submission of the card under key k, unless the key was known.
Submitted(card, k) ==
    \/ UNCHANGED <<cards, history, keys>>
    \/ \E e : Recorded(card, e, "artifacts") /\ e.type = "artifact_submitted" /\ e.key = k

\* The leases stay, each for its card.
LeasesKeep == \A l \in DOMAIN leases : l \in DOMAIN leases' /\ leases'[l].card = leases[l].card

\* An event that may be recorded on the card.
EventOK(card, e) ==
    /\ e.type = "artifact_submitted" => Claimed(card)
    /\ e.type \in EgressType => Production(card)

\* One more event of a card keeps the evidence right.
LEMMA HistoryRecorded ==
    ASSUME RuntimeOK, HistoryOK, Grows, NEW card, NEW e, NEW type, Recorded(card, e, type),
           EventOK(card, e)
    PROVE  HistoryOK'
<1> DEFINE n == Len(history[card]) + 1
<1>1. /\ card \in DOMAIN cards /\ DOMAIN cards' = DOMAIN cards
      /\ DOMAIN history[card] = 1..(n - 1) /\ n \in Nat
  BY DEF Recorded, Appended, RuntimeOK, IsSequence
<1>2. /\ DOMAIN history'[card] = DOMAIN history[card] \union {n} /\ n \notin DOMAIN history[card]
      /\ history'[card][n] = e
      /\ \A x \in DOMAIN history[card] : history'[card][x] = history[card][x]
      /\ \A i \in DOMAIN cards : i # card => history'[i] = history[i]
  BY DEF Recorded, Appended
<1>3. /\ e.key \notin DOMAIN keys /\ DOMAIN keys \subseteq DOMAIN keys'
      /\ e.key = NoKey \/ e.key \in DOMAIN keys'
  BY DEF Recorded, Keyed
<1> HIDE DEF n
<1>4. ASSUME NEW i \in DOMAIN cards', NEW x \in DOMAIN history'[i]
      PROVE  /\ i \in DOMAIN cards
             /\ \/ x \in DOMAIN history[i] /\ history'[i][x] = history[i][x]
                \/ i = card /\ x = n /\ history'[i][x] = e
  BY <1>1, <1>2
<1>5. \A i \in DOMAIN cards' : \A x \in DOMAIN history'[i] :
         history'[i][x].key = NoKey \/ history'[i][x].key \in DOMAIN keys'
  BY <1>3, <1>4 DEF HistoryOK
<1>6. OneEventPerKey'
  <2> SUFFICES ASSUME NEW i \in DOMAIN cards', NEW j \in DOMAIN cards',
                      NEW x \in DOMAIN history'[i], NEW y \in DOMAIN history'[j],
                      history'[i][x].key = history'[j][y].key, history'[i][x].key # NoKey
               PROVE  i = j /\ x = y
    BY DEF OneEventPerKey
  <2>1. /\ i \in DOMAIN cards /\ j \in DOMAIN cards
        /\ \/ x \in DOMAIN history[i] /\ history'[i][x] = history[i][x]
           \/ i = card /\ x = n /\ history'[i][x] = e
        /\ \/ y \in DOMAIN history[j] /\ history'[j][y] = history[j][y]
           \/ j = card /\ y = n /\ history'[j][y] = e
    BY <1>4
  <2> QED BY <1>3, <2>1 DEF HistoryOK, OneEventPerKey
<1>7. ASSUME NEW i \in DOMAIN cards' PROVE Before(i, "card_claimed", "artifact_submitted")'
  <2> SUFFICES ASSUME NEW y \in DOMAIN history'[i], history'[i][y].type = "artifact_submitted"
               PROVE  \E x \in 1..(y - 1) : history'[i][x].type = "card_claimed"
    BY DEF Before
  <2>1. i \in DOMAIN cards /\ DOMAIN history[i] = 1..Len(history[i]) /\ Len(history[i]) \in Nat
    BY <1>4 DEF RuntimeOK, IsSequence
  <2>2. CASE y \in DOMAIN history[i] /\ history'[i][y] = history[i][y]
    <3>1. PICK x \in 1..(y - 1) : history[i][x].type = "card_claimed"
      BY <2>1, <2>2 DEF HistoryOK, Before
    <3>2. x \in DOMAIN history[i]
      BY <2>1, <2>2, <3>1
    <3>3. history'[i][x] = history[i][x]
      BY <1>2, <2>1, <3>2
    <3> QED BY <3>1, <3>3
  <2>3. CASE i = card /\ y = n /\ history'[i][y] = e
    <3>1. PICK x \in DOMAIN history[card] : history[card][x].type = "card_claimed"
      BY <2>3 DEF EventOK, Claimed
    <3>2. x \in 1..(n - 1) /\ history'[card][x] = history[card][x]
      BY <1>1, <1>2, <3>1
    <3> QED BY <2>3, <3>1, <3>2
  <2> QED BY <1>4, <2>2, <2>3
<1>8. ASSUME NEW i \in DOMAIN cards', NEW x \in DOMAIN history'[i],
             history'[i][x].type \in EgressType
      PROVE  Production(i)'
  <2>1. i \in DOMAIN cards /\ Production(i)
    BY <1>4, <1>8 DEF HistoryOK, EventOK
  <2> QED BY <2>1, CardsStay
<1> QED BY <1>5, <1>6, <1>7, <1>8 DEF HistoryOK

\* So does a new card.
LEMMA HistoryMade ==
    ASSUME RuntimeOK, HistoryOK, Grows, NEW card, NEW e, Made(card, e), e.type = "card_created"
    PROVE  HistoryOK'
<1>1. /\ card \notin DOMAIN cards /\ DOMAIN cards' = DOMAIN cards \union {card}
      /\ DOMAIN history'[card] = {1} /\ history'[card][1] = e
      /\ \A i \in DOMAIN cards : history'[i] = history[i]
  BY DEF Made
<1>2. /\ e.key \notin DOMAIN keys /\ DOMAIN keys \subseteq DOMAIN keys'
      /\ e.key = NoKey \/ e.key \in DOMAIN keys'
  BY DEF Made, Keyed
<1>3. ASSUME NEW i \in DOMAIN cards', NEW x \in DOMAIN history'[i]
      PROVE  \/ i \in DOMAIN cards /\ history'[i] = history[i] /\ x \in DOMAIN history[i]
             \/ i = card /\ x = 1 /\ history'[i][x] = e
  BY <1>1
<1>4. \A i \in DOMAIN cards' : \A x \in DOMAIN history'[i] :
         history'[i][x].key = NoKey \/ history'[i][x].key \in DOMAIN keys'
  BY <1>2, <1>3 DEF HistoryOK
<1>5. OneEventPerKey'
  <2> SUFFICES ASSUME NEW i \in DOMAIN cards', NEW j \in DOMAIN cards',
                      NEW x \in DOMAIN history'[i], NEW y \in DOMAIN history'[j],
                      history'[i][x].key = history'[j][y].key, history'[i][x].key # NoKey
               PROVE  i = j /\ x = y
    BY DEF OneEventPerKey
  <2>1. /\ \/ i \in DOMAIN cards /\ history'[i] = history[i] /\ x \in DOMAIN history[i]
           \/ i = card /\ x = 1 /\ history'[i][x] = e
        /\ \/ j \in DOMAIN cards /\ history'[j] = history[j] /\ y \in DOMAIN history[j]
           \/ j = card /\ y = 1 /\ history'[j][y] = e
    BY <1>3
  <2> QED BY <1>2, <2>1 DEF HistoryOK, OneEventPerKey
<1>6. ASSUME NEW i \in DOMAIN cards' PROVE Before(i, "card_claimed", "artifact_submitted")'
  BY <1>1, <1>3 DEF HistoryOK, Before
<1>7. ASSUME NEW i \in DOMAIN cards', NEW x \in DOMAIN history'[i],
             history'[i][x].type \in EgressType
      PROVE  Production(i)'
  <2>1. i \in DOMAIN cards /\ Production(i)
    BY <1>3, <1>7 DEF HistoryOK, EgressType
  <2> QED BY <2>1, CardsStay
<1> QED BY <1>4, <1>5, <1>6, <1>7 DEF HistoryOK

\* And a call that changes neither cards nor evidence nor keys.
LEMMA HistoryQuiet ==
    ASSUME HistoryOK, Grows, UNCHANGED <<cards, history, keys>>
    PROVE  HistoryOK'
BY DEF HistoryOK, OneEventPerKey, Before, Production

-----------------------------------------------------------------------------
(* The steps of the adapters.                                               *)

\* The request of a client that is at a step.
LEMMA AtStep ==
    ASSUME CallsOK, NEW c \in Client, NEW step, At(c, step), NEW t, t = call[c]
    PROVE  /\ CallOK(t) /\ IsCall(t) /\ t.todo # << >> /\ Head(t.todo) = step
           /\ Rest(c) = Tail(t.todo)
BY DEF CallsOK, CallOK, At, IsIdle, Rest

\* A request goes on to its next step, or has been answered.
LEMMA ContinueCall ==
    ASSUME CallsOK, NEW c \in Client, NEW r, r = Rest(c), Continue(c, Rest(c))
    PROVE  \E u : /\ call' = [call EXCEPT ![c] = u] /\ IsCall(u) /\ u.todo = r
                  /\ r = << >> => u = Idle
                  /\ r # << >> => u.card = call[c].card /\ u.data = call[c].data
<1>1. PICK ref : ref = call[c].ref
  OBVIOUS
<1>2. PICK data : data = call[c].data
  OBVIOUS
<1>3. Proceed(c, r, ref, data)
  BY <1>1, <1>2 DEF Continue
<1>4. IsCall(call[c]) /\ call = [d \in Client |-> call[d]]
  BY DEF CallsOK, CallOK
<1> QED BY <1>2, <1>3, <1>4, ProceedCall

\* What a step that touches neither leases nor links nor mutations has to show.
LEMMA CoreStep ==
    ASSUME Core, RuntimeOK', Grows, HistoryOK', KeysOK', UNCHANGED <<leases, serviceVars>>,
           \/ UNCHANGED call
           \/ \E c \in Client : \E u : call' = [call EXCEPT ![c] = u] /\ CallOK(u)'
    PROVE  Core'
<1>1. /\ leases' = leases /\ links' = links /\ mutations' = mutations
      /\ DOMAIN leases \subseteq DOMAIN leases'
  BY DEF serviceVars
<1>2. LeasesOK'
  BY <1>1, LeasesStay DEF Core
<1>3. LinksOK' /\ MutationsOK'
  BY <1>1, ServiceStays DEF Core
<1>4. CallsOK'
  <2>1. CallsOK
    BY DEF Core
  <2>2. CASE UNCHANGED call
    BY <1>1, <2>1, <2>2, QuietStep
  <2>3. ASSUME NEW c \in Client, NEW u, call' = [call EXCEPT ![c] = u], CallOK(u)' PROVE CallsOK'
    BY <1>1, <2>1, <2>3, CallStep
  <2> QED BY <2>2, <2>3
<1> QED BY <1>2, <1>3, <1>4 DEF Core

\* A step that only moves a request on.
LEMMA RequestOnly ==
    ASSUME Core, UNCHANGED <<runtimeVars, leases, serviceVars>>, NEW c \in Client, NEW u,
           call' = [call EXCEPT ![c] = u], CallOK(u)
    PROVE  Core'
<1>1. RuntimeOK' /\ Grows
  BY NoChange DEF Core
<1>2. HistoryOK'
  BY <1>1, HistoryQuiet DEF Core, runtimeVars
<1>3. KeysOK'
  BY DEF Core, KeysOK, runtimeVars
<1>4. CallOK(u)'
  BY <1>1, CallStays
<1> QED BY <1>1, <1>2, <1>3, <1>4, CoreStep

\* A key stored for an event, for the submission of artifacts or not at all.
LEMMA KeysStay ==
    ASSUME KeysOK, RuntimeOK, Grows, DOMAIN leases \subseteq DOMAIN leases',
           NEW k, NEW type, NEW card, Keyed(k, type, card) \/ UNCHANGED keys,
           type \in {"event", "artifacts"}
    PROVE  KeysOK'
<1> SUFFICES ASSUME NEW j \in DOMAIN keys'
             PROVE  /\ keys'[j].type = "lease" => keys'[j].event \in DOMAIN leases'
                    /\ Isolated /\ j \in Key /\ keys'[j].type = "card" =>
                          cards'[keys'[j].card].shadow
  BY DEF KeysOK
<1>1. CASE j \in DOMAIN keys
  <2>1. keys'[j] = keys[j] /\ keys[j].card \in DOMAIN cards
    BY <1>1 DEF Grows, RuntimeOK
  <2> QED BY <1>1, <2>1, CardsStay DEF KeysOK
<1>2. CASE j \notin DOMAIN keys
  BY <1>2 DEF Keyed
<1> QED BY <1>1, <1>2

RecordType == {"source_executed", "boundary_source_received", "sink_executed",
               "boundary_sink_egressed", "shadow_created", "shadow_completed"}

\* A step that records its event on the card of the request.
LEMMA RecordStep ==
    ASSUME Core, NEW c \in Client, NEW step \in RecordType, At(c, step),
           NEW e, e.type = step, record_event(call[c].card, e), Continue(c, Rest(c)),
           UNCHANGED <<leases, serviceVars>>
    PROVE  Core'
<1>1. RuntimeOK /\ HistoryOK /\ KeysOK /\ CallsOK
  BY DEF Core
<1>2. PICK t : t = call[c]
  OBVIOUS
<1>3. /\ CallOK(t) /\ IsCall(t) /\ t.todo # << >> /\ Head(t.todo) = step
      /\ Rest(c) = Tail(t.todo)
  BY <1>1, <1>2, AtStep
<1>4. /\ t.card \in DOMAIN cards
      /\ t.todo \in {Source1, Source2, Sink1, Sink2, Shadow2, Completing}
      /\ step \in EgressType => Production(t.card)
  BY <1>3, FirstSteps DEF CallOK, RecordType, EgressType, Production
<1>5. EventOK(t.card, e)
  BY <1>4 DEF EventOK, RecordType
<1>6. /\ RuntimeOK' /\ Grows
      /\ UNCHANGED runtimeVars \/ (Appended(t.card, e) /\ Keyed(e.key, "event", t.card))
  BY <1>1, <1>2, <1>4, RecordCall
<1>7. HistoryOK'
  <2>1. CASE UNCHANGED runtimeVars
    BY <1>1, <1>6, <2>1, HistoryQuiet DEF runtimeVars
  <2>2. CASE Appended(t.card, e) /\ Keyed(e.key, "event", t.card)
    <3>1. Recorded(t.card, e, "event")
      BY <1>4, <2>2 DEF Recorded
    <3> QED BY <1>1, <1>5, <1>6, <3>1, HistoryRecorded
  <2> QED BY <1>6, <2>1, <2>2
<1>8. KeysOK'
  <2>1. Keyed(e.key, "event", t.card) \/ UNCHANGED keys
    BY <1>6 DEF runtimeVars
  <2>2. DOMAIN leases \subseteq DOMAIN leases'
    OBVIOUS
  <2> QED BY <1>1, <1>6, <2>1, <2>2, KeysStay
<1>9. PICK r : r = Rest(c)
  OBVIOUS
<1>10. PICK u : /\ call' = [call EXCEPT ![c] = u] /\ IsCall(u) /\ u.todo = r
                /\ r = << >> => u = Idle
                /\ r # << >> => u.card = call[c].card /\ u.data = call[c].data
  BY <1>1, <1>9, ContinueCall
<1>11. CallOK(u)
  <2>1. r = Tail(t.todo)
    BY <1>3, <1>9
  <2>2. CASE r = << >>
    <3>1. u.card = 0
      BY <1>10, <2>2 DEF Idle, MkCall
    <3> QED BY <1>10, <2>2, <3>1 DEF CallOK
  <2>3. CASE t.todo = Source1
    BY <1>2, <1>4, <1>10, <2>1, <2>3, LaterSteps, Unfinished DEF CallOK
  <2>4. CASE t.todo = Sink1
    <3>1. Production(t.card)
      BY <1>3, <1>4, <2>4, FirstSteps DEF EgressType
    <3> QED BY <1>2, <1>10, <2>1, <2>4, <3>1, LaterSteps, Unfinished DEF CallOK
  <2> QED BY <1>4, <2>1, <2>2, <2>3, <2>4, LaterSteps
<1>12. CallOK(u)'
  BY <1>6, <1>11, CallStays
<1> QED BY <1>6, <1>7, <1>8, <1>10, <1>12, CoreStep

\* The six records of adapters and of the shadow service.
LEMMA RecordSteps ==
    ASSUME Core, NEW c \in Client,
           \/ RecordSource(c) \/ RecordSink(c)
           \/ RecordBoundary(c, "boundary_source_received")
           \/ RecordBoundary(c, "boundary_sink_egressed")
           \/ RecordShadow(c, "shadow_created") \/ RecordShadow(c, "shadow_completed")
    PROVE  Core'
<1>1. CASE RecordSource(c)
  <2>1. PICK e : e = MkEvent("source_executed", call[c].node, None, None, None,
                             Suffixed(call[c].key, "source"))
    OBVIOUS
  <2>2. e.type = "source_executed" /\ e.type \in RecordType
    BY <2>1 DEF MkEvent, RecordType
  <2> QED BY <1>1, <2>1, <2>2, RecordStep DEF RecordSource, SourceRecorded
<1>2. CASE RecordSink(c)
  <2>1. PICK e : e = MkEvent("sink_executed", call[c].node, None, None, call[c].ref, call[c].key)
    OBVIOUS
  <2>2. e.type = "sink_executed" /\ e.type \in RecordType
    BY <2>1 DEF MkEvent, RecordType
  <2> QED BY <1>2, <2>1, <2>2, RecordStep DEF RecordSink, SinkRecorded
<1>3. ASSUME NEW type \in {"boundary_source_received", "boundary_sink_egressed"},
             RecordBoundary(c, type)
      PROVE  Core'
  <2>1. PICK e : e = MkEvent(type, call[c].node, None, None, call[c].ref,
                             Suffixed(call[c].key, "event"))
    OBVIOUS
  <2>2. e.type = type /\ e.type \in RecordType
    BY <2>1 DEF MkEvent, RecordType
  <2> QED BY <1>3, <2>1, <2>2, RecordStep DEF RecordBoundary
<1>4. ASSUME NEW type \in {"shadow_created", "shadow_completed"}, RecordShadow(c, type)
      PROVE  Core'
  <2>1. PICK e : e = MkEvent(type, None, None, None, call[c].ref, NoKey)
    OBVIOUS
  <2>2. e.type = type /\ e.type \in RecordType
    BY <2>1 DEF MkEvent, RecordType
  <2> QED BY <1>4, <2>1, <2>2, RecordStep DEF RecordShadow
<1> QED BY <1>1, <1>2, <1>3, <1>4

\* Making a card, or finding it under the key.
LEMMA CreateEffects ==
    ASSUME RuntimeOK, HistoryOK, KeysOK, NEW id, NEW payload, NEW shadow, NEW k, NEW card,
           create_card(id, payload, shadow, k, card),
           UNCHANGED leases, Isolated /\ k \in Key \ {NoKey} => shadow
    PROVE  /\ RuntimeOK' /\ Grows /\ HistoryOK' /\ KeysOK' /\ card \in DOMAIN cards'
           /\ Isolated /\ k \in Key /\ shadow => cards'[card].shadow
           /\ Unreported
<1>1. PICK e : e = MkEvent("card_created", None, None, None, None, k)
  OBVIOUS
<1>2. e.key = k /\ e.type = "card_created"
  BY <1>1 DEF MkEvent
<1>3. /\ RuntimeOK' /\ Grows /\ card \in DOMAIN cards'
      /\ \/ Stored(k, "card") /\ card = keys[k].card /\ UNCHANGED runtimeVars
         \/ /\ card \notin DOMAIN cards /\ DOMAIN cards' = DOMAIN cards \union {card}
            /\ cards'[card].panel \in ActivePanels(id)
            /\ cards'[card].payload = payload /\ cards'[card].shadow = shadow
            /\ history'[card] = <<e>>
            /\ \A i \in DOMAIN cards : cards'[i] = cards[i] /\ history'[i] = history[i]
            /\ Keyed(k, "card", card)
  <2>1. /\ RuntimeOK' /\ Grows /\ registered' = registered
        /\ card \in DOMAIN cards'
        /\ \/ Stored(k, "card") /\ card = keys[k].card /\ UNCHANGED runtimeVars
           \/ /\ card \notin DOMAIN cards /\ DOMAIN cards' = DOMAIN cards \union {card}
              /\ cards'[card].panel \in ActivePanels(id)
              /\ cards'[card].payload = payload /\ cards'[card].shadow = shadow
              /\ history'[card] = <<MkEvent("card_created", None, None, None, None, k)>>
              /\ \A i \in DOMAIN cards : cards'[i] = cards[i] /\ history'[i] = history[i]
              /\ Keyed(k, "card", card)
    BY CreateCall
  <2> QED BY <1>1, <2>1
<1>4. CASE Stored(k, "card") /\ card = keys[k].card /\ UNCHANGED runtimeVars
  <2>1. HistoryOK'
    BY <1>3, <1>4, HistoryQuiet DEF runtimeVars
  <2>2. KeysOK'
    BY <1>4 DEF KeysOK, runtimeVars
  <2>3. Isolated /\ k \in Key => cards'[card].shadow
    BY <1>4 DEF KeysOK, runtimeVars, Stored
  <2>4. Unreported
    BY <1>4 DEF Unreported, runtimeVars
  <2> QED BY <1>3, <2>1, <2>2, <2>3, <2>4
<1>5. CASE /\ card \notin DOMAIN cards /\ DOMAIN cards' = DOMAIN cards \union {card}
           /\ cards'[card].shadow = shadow /\ history'[card] = <<e>>
           /\ \A i \in DOMAIN cards : history'[i] = history[i]
           /\ Keyed(k, "card", card)
  <2>1. Made(card, e)
    BY <1>2, <1>5 DEF Made
  <2>2. HistoryOK'
    BY <1>2, <1>3, <2>1, HistoryMade
  <2>3. KeysOK'
    <3> SUFFICES ASSUME NEW j \in DOMAIN keys'
                 PROVE  /\ keys'[j].type = "lease" => keys'[j].event \in DOMAIN leases'
                        /\ Isolated /\ j \in Key /\ keys'[j].type = "card" =>
                              cards'[keys'[j].card].shadow
      BY DEF KeysOK
    <3>1. CASE j \in DOMAIN keys
      <4>1. keys'[j] = keys[j] /\ keys[j].card \in DOMAIN cards
        BY <1>3, <3>1 DEF Grows, RuntimeOK
      <4> QED BY <1>3, <3>1, <4>1, CardsStay DEF KeysOK
    <3>2. CASE j \notin DOMAIN keys
      BY <1>5, <3>2 DEF Keyed
    <3> QED BY <3>1, <3>2
  <2>4. Unreported
    BY <1>2, <2>1 DEF Unreported
  <2> QED BY <1>3, <1>5, <2>2, <2>3, <2>4
<1> QED BY <1>3, <1>4, <1>5

\* An external event is taken in.
LEMMA BoundarySourceStep ==
    ASSUME Core, NEW c \in Client, NEW p \in registered, NEW n \in Node(Def(p)), NEW payload,
           NEW d \in Dedup, NEW token, BoundarySource(c, p, n, payload, d, token)
    PROVE  Core'
<1>1. PICK k : k = BoundaryKey("boundary-source", p, n, deduplication_key(n, d))
  OBVIOUS
<1>2. k = NoKey \/ k = BoundaryKey("boundary-source", p, n, d)
  BY <1>1 DEF BoundaryKey, deduplication_key
<1>3. Isolated => k \notin Key \ {NoKey}
  BY <1>2 DEF Isolated, Core, RuntimeOK
<1>4. PICK card \in 1..MaxCards :
         /\ create_card(Def(p).id, Ingress(payload, n.id, deduplication_key(n, d)), FALSE, k, card)
         /\ call' = [call EXCEPT ![c] = MkCall(SourceSteps, n.id, card, k, None)]
  BY <1>1 DEF BoundarySource, execute_source
<1>5. UNCHANGED <<leases, serviceVars>>
  BY DEF BoundarySource
<1>6. RuntimeOK' /\ Grows /\ HistoryOK' /\ KeysOK' /\ card \in DOMAIN cards'
  BY <1>3, <1>4, <1>5, CreateEffects DEF Core
<1>7. PICK u : u = MkCall(SourceSteps, n.id, card, k, None)
  OBVIOUS
<1>8. IsCall(u) /\ u.todo = Source1 /\ u.card = card
  BY <1>7, BeginCall DEF SourceSteps, Source1
<1>9. CallOK(u)'
  BY <1>6, <1>8 DEF CallOK
<1> QED BY <1>4, <1>5, <1>6, <1>7, <1>9, CoreStep

\* A client makes a card itself.
LEMMA CreateCardStep ==
    ASSUME Core, NEW p, NEW payload, NEW k \in CardKey, CreateCard(p, payload, k)
    PROVE  Core' /\ Grows /\ Unreported
<1>1. PICK card \in 1..MaxCards :
         create_card(Def(p).id, Ingress(payload, None, NoKey), FALSE, k, card)
  BY DEF CreateCard
<1>2. UNCHANGED call /\ UNCHANGED <<leases, serviceVars>>
  BY DEF CreateCard
<1>3. Isolated => k \notin Key \ {NoKey}
  BY DEF Isolated
<1>4. RuntimeOK' /\ Grows /\ HistoryOK' /\ KeysOK' /\ Unreported
  BY <1>1, <1>2, <1>3, CreateEffects DEF Core
<1> QED BY <1>2, <1>4, CoreStep

\* A boundary sink passes its checks.
LEMMA BoundarySinkStep ==
    ASSUME Core, NEW c \in Client, NEW p \in registered, NEW n \in Node(Def(p)),
           NEW card \in DOMAIN cards, NEW external, NEW token,
           BoundarySink(c, p, n, card, external, token)
    PROVE  Core'
<1>1. PICK k : k = BoundaryKey("boundary-sink", p, n, render_template(n, card, external))
  OBVIOUS
<1>2. PICK v : v = MkCall(<<"sink_executed", "boundary_sink_egressed">>, n.id, card, k, None)
  OBVIOUS
<1>3. PICK u : u = [v EXCEPT !.ref = external]
  OBVIOUS
<1>4. /\ n.type = "sink" /\ shadow_egress_allowed(n, card)
      /\ call' = [call EXCEPT ![c] = u] /\ UNCHANGED <<runtimeVars, leases, serviceVars>>
  BY <1>1, <1>2, <1>3 DEF BoundarySink, execute_sink
<1>5. IsCall(v) /\ v.todo = Sink1 /\ v.card = card
  BY <1>2, BeginCall DEF Sink1
<1>6. IsCall(u) /\ u.todo = Sink1 /\ u.card = card
  BY <1>3, <1>5 DEF IsCall
<1>7. Production(card)
  BY <1>4 DEF Production, Isolated, shadow_egress_allowed, Core, RuntimeOK
<1>8. CallOK(u)
  BY <1>6, <1>7 DEF CallOK
<1> QED BY <1>4, <1>8, RequestOnly

-----------------------------------------------------------------------------
(* The steps of workers.                                                    *)

\* A claim: the lease of the key, or a new one, with its event.
LEMMA ClaimEffects ==
    ASSUME Core, NEW pipe, NEW worker, NEW k, NEW l, claim_card(pipe, worker, k, l)
    PROVE  /\ RuntimeOK' /\ Grows /\ HistoryOK' /\ KeysOK' /\ LeasesOK'
           /\ DOMAIN leases \subseteq DOMAIN leases' /\ l \in DOMAIN leases'
           /\ Unreported
<1>1. RuntimeOK /\ HistoryOK /\ KeysOK /\ LeasesOK
  BY DEF Core
<1>2. CASE Stored(k, "lease") /\ l = keys[k].event /\ UNCHANGED <<runtimeVars, leases>>
  <2>1. RuntimeOK' /\ Grows
    BY <1>1, <1>2, NoChange
  <2>2. HistoryOK' /\ LeasesOK'
    BY <1>1, <1>2, <2>1, HistoryQuiet, LeasesStay DEF runtimeVars
  <2>3. KeysOK'
    BY <1>1, <1>2 DEF KeysOK, runtimeVars
  <2>4. l \in DOMAIN leases
    BY <1>1, <1>2 DEF KeysOK, Stored
  <2>5. Unreported
    BY <1>2 DEF Unreported, runtimeVars
  <2> QED BY <1>2, <2>1, <2>2, <2>3, <2>4, <2>5
<1>3. ASSUME Fresh(k), l = Len(leases) + 1, NEW node, NEW card \in DOMAIN cards,
             leases' = Append(leases, [card |-> card, worker |-> worker, active |-> TRUE,
                                       node |-> node]),
             history' = [history EXCEPT ![card] =
                 Append(@, MkEvent("card_claimed", worker, None, pipe, None, k))],
             store_idempotency(k, "lease", card, l), UNCHANGED <<registered, cards>>
      PROVE  /\ RuntimeOK' /\ Grows /\ HistoryOK' /\ KeysOK' /\ LeasesOK'
             /\ DOMAIN leases \subseteq DOMAIN leases' /\ l \in DOMAIN leases'
             /\ Unreported
  <2>1. PICK e : e = MkEvent("card_claimed", worker, None, pipe, None, k)
    OBVIOUS
  <2>2. e.type = "card_claimed" /\ e.key = k
    BY <2>1 DEF MkEvent
  <2>3. Keyed(k, "lease", card)
    BY <1>3, StoreKey
  <2>4. history' = [history EXCEPT ![card] = Append(history[card], e)]
    BY <1>3, <2>1
  <2>5. RuntimeOK' /\ Grows /\ Appended(card, e)
    BY <1>1, <1>3, <2>3, <2>4, AppendCall
  <2>6. Recorded(card, e, "lease") /\ EventOK(card, e)
    BY <1>3, <2>2, <2>3, <2>5 DEF Recorded, EventOK, EgressType
  <2>7. HistoryOK'
    BY <1>1, <2>5, <2>6, HistoryRecorded
  <2>8. PICK x : x = [card |-> card, worker |-> worker, active |-> TRUE, node |-> node]
    OBVIOUS
  <2>9. IsLease(x) /\ x.card = card
    BY <2>8 DEF IsLease
  <2>10. /\ IsSequence(leases') /\ DOMAIN leases' = DOMAIN leases \union {l}
         /\ leases'[l] = x /\ \A m \in DOMAIN leases : leases'[m] = leases[m]
    BY <1>1, <1>3, <2>8, SequenceAppend DEF LeasesOK
  <2>11. Claimed(card)'
    BY <2>2, <2>5 DEF Claimed, Appended
  <2>12. LeasesOK'
    <3> SUFFICES ASSUME NEW m \in DOMAIN leases'
                 PROVE  /\ IsLease(leases'[m]) /\ leases'[m].card \in DOMAIN cards'
                        /\ Claimed(leases[m].card)'
      BY <2>10 DEF LeasesOK
    <3>1. CASE m = l
      BY <1>3, <2>9, <2>10, <2>11, <3>1
    <3>2. CASE m \in DOMAIN leases
      <4>1. PICK d : d = leases[m].card
        OBVIOUS
      <4>2. IsLease(leases[m]) /\ d \in DOMAIN cards /\ Claimed(d)
        BY <1>1, <3>2, <4>1 DEF LeasesOK
      <4>3. d \in DOMAIN cards' /\ Claimed(d)'
        BY <2>5, <4>2, CardsStay
      <4> QED BY <2>10, <3>2, <4>1, <4>2, <4>3
    <3> QED BY <2>10, <3>1, <3>2
  <2>13. KeysOK'
    <3> SUFFICES ASSUME NEW j \in DOMAIN keys'
                 PROVE  /\ keys'[j].type = "lease" => keys'[j].event \in DOMAIN leases'
                        /\ Isolated /\ j \in Key /\ keys'[j].type = "card" =>
                              cards'[keys'[j].card].shadow
      BY DEF KeysOK
    <3>1. CASE j \in DOMAIN keys
      <4>1. keys'[j] = keys[j] /\ keys[j].card \in DOMAIN cards
        BY <1>1, <2>5, <3>1 DEF Grows, RuntimeOK
      <4> QED BY <1>1, <2>5, <2>10, <3>1, <4>1, CardsStay DEF KeysOK
    <3>2. CASE j \notin DOMAIN keys
      <4>1. j = k /\ k # NoKey /\ keys'[j].type = "lease"
        BY <2>3, <3>2 DEF Keyed
      <4>2. keys'[j].event = l
        BY <1>3, <4>1 DEF store_idempotency
      <4> QED BY <2>10, <4>1, <4>2
    <3> QED BY <3>1, <3>2
  <2>14. Unreported
    BY <2>2, <2>6 DEF Unreported, ReportType
  <2> QED BY <2>5, <2>7, <2>10, <2>12, <2>13, <2>14
<1> QED BY <1>2, <1>3 DEF claim_card

\* execute_worker begins with the claim.
LEMMA ExecuteWorkerStep ==
    ASSUME Core, NEW c \in Client, NEW p, NEW pipe, NEW out, NEW worker, NEW k,
           ExecuteWorker(c, p, pipe, out, worker, k)
    PROVE  Core'
<1>1. PICK n \in WorkerNode(Def(p), pipe), l \in 1..MaxLeases :
          /\ claim_card(pipe, worker, Suffixed(k, "claim"), l)
          /\ call' = [call EXCEPT ![c] =
                MkCall(<<"submit", "check">>, n.id, leases'[l].card, k,
                       [lease |-> l, out |-> out, panel |-> p])]
  BY DEF ExecuteWorker
<1>2. UNCHANGED serviceVars
  BY DEF ExecuteWorker
<1>3. /\ RuntimeOK' /\ Grows /\ HistoryOK' /\ KeysOK' /\ LeasesOK'
      /\ DOMAIN leases \subseteq DOMAIN leases' /\ l \in DOMAIN leases'
  BY <1>1, ClaimEffects
<1>4. PICK d : d = leases'[l].card
  OBVIOUS
<1>5. PICK data : data = [lease |-> l, out |-> out, panel |-> p]
  OBVIOUS
<1>6. PICK u : u = MkCall(<<"submit", "check">>, n.id, d, k, data)
  OBVIOUS
<1>7. IsCall(u) /\ u.todo = Work1 /\ u.card = d /\ u.data = data
  BY <1>6, BeginCall DEF Work1
<1>8. d \in DOMAIN cards' /\ data.lease = l
  BY <1>3, <1>4, <1>5 DEF LeasesOK
<1>9. CallOK(u)'
  BY <1>3, <1>7, <1>8 DEF CallOK
<1>10. CallsOK'
  BY <1>1, <1>3, <1>4, <1>5, <1>6, <1>9, CallStep DEF Core
<1>11. LinksOK' /\ MutationsOK'
  BY <1>2, <1>3, ServiceStays DEF Core, serviceVars
<1> QED BY <1>3, <1>10, <1>11 DEF Core

\* A lease that is not active any more is still a lease.
LEMMA LeaseEnds ==
    ASSUME LeasesOK, Grows, NEW l \in DOMAIN leases,
           leases' = [leases EXCEPT ![l].active = FALSE]
    PROVE  LeasesOK' /\ DOMAIN leases' = DOMAIN leases /\ LeasesKeep
<1>1. IsSequence(leases) /\ leases = [m \in DOMAIN leases |-> leases[m]]
  BY DEF LeasesOK, IsSequence
<1>2. PICK y : y = leases[l]
  OBVIOUS
<1>3. PICK x : x = [y EXCEPT !.active = FALSE]
  OBVIOUS
<1>4. IsLease(x) /\ x.card = y.card
  <2>1. IsLease(y)
    BY <1>2 DEF LeasesOK
  <2> QED BY <1>3, <2>1 DEF IsLease
<1>5. leases' = [m \in DOMAIN leases |-> IF m = l THEN x ELSE leases[m]]
  BY <1>1, <1>2, <1>3
<1>6. IsSequence(leases') /\ DOMAIN leases' = DOMAIN leases
  <2>1. leases' = [m \in DOMAIN leases |-> leases'[m]]
    BY <1>5
  <2> QED BY <1>1, <1>5, <2>1, SequenceMap
<1>7. ASSUME NEW m \in DOMAIN leases'
      PROVE  /\ IsLease(leases'[m]) /\ leases'[m].card \in DOMAIN cards'
             /\ Claimed(leases[m].card)' /\ leases'[m].card = leases[m].card
  <2>1. PICK d : d = leases[m].card
    OBVIOUS
  <2>2. d \in DOMAIN cards /\ Claimed(d) /\ IsLease(leases[m])
    BY <1>6, <2>1 DEF LeasesOK
  <2>3. d \in DOMAIN cards' /\ Claimed(d)'
    BY <2>2, CardsStay
  <2>4. IsLease(leases'[m]) /\ leases'[m].card = d
    BY <1>2, <1>4, <1>5, <1>6, <2>1, <2>2
  <2> QED BY <2>1, <2>3, <2>4
<1>8. LeasesKeep
  BY <1>6, <1>7 DEF LeasesKeep
<1> QED BY <1>6, <1>7, <1>8 DEF LeasesOK

\* A submission: nothing if the key is known, else the card moves on, its
\* lease ends and the event names a claimed card.
LEMMA SubmitEffects ==
    ASSUME Core, NEW l \in DOMAIN leases, NEW out, NEW k, submit_artifact(l, out, k)
    PROVE  /\ RuntimeOK' /\ Grows /\ HistoryOK' /\ KeysOK' /\ LeasesOK'
           /\ DOMAIN leases' = DOMAIN leases /\ LeasesKeep /\ Submitted(leases[l].card, k)
<1>1. RuntimeOK /\ HistoryOK /\ KeysOK /\ LeasesOK
  BY DEF Core
<1>2. CASE Stored(k, "artifacts") /\ UNCHANGED <<runtimeVars, leases>>
  <2>1. RuntimeOK' /\ Grows
    BY <1>1, <1>2, NoChange
  <2>2. HistoryOK' /\ LeasesOK'
    BY <1>1, <1>2, <2>1, HistoryQuiet, LeasesStay DEF runtimeVars
  <2>3. KeysOK'
    BY <1>1, <1>2 DEF KeysOK, runtimeVars
  <2>4. Submitted(leases[l].card, k) /\ LeasesKeep
    BY <1>2 DEF Submitted, LeasesKeep, runtimeVars
  <2> QED BY <1>2, <2>1, <2>2, <2>3, <2>4
<1>3. CASE ~(Stored(k, "artifacts") /\ UNCHANGED <<runtimeVars, leases>>)
  <2>1. PICK card : card = leases[l].card
    OBVIOUS
  <2>2. card \in DOMAIN cards /\ Claimed(card)
    BY <1>1, <2>1 DEF LeasesOK
  <2>3. PICK e : e = MkEvent("artifact_submitted", leases[l].worker, None, out, l, k)
    OBVIOUS
  <2>4. PICK bucket : bucket = pipe_bucket(Def(cards[card].panel), out)
    OBVIOUS
  <2>5. /\ Fresh(k) /\ Resolvable(Def(cards[card].panel), out, "output")
        /\ cards' = [cards EXCEPT ![card].bucket = bucket]
        /\ leases' = [leases EXCEPT ![l].active = FALSE]
        /\ history' = [history EXCEPT ![card] = Append(history[card], e)]
        /\ store_idempotency(k, "artifacts", card, Len(history'[card]))
        /\ registered' = registered
    BY <1>3, <2>1, <2>3, <2>4 DEF submit_artifact
  <2>6. e.type = "artifact_submitted" /\ e.key = k
    BY <2>3 DEF MkEvent
  <2>7. cards[card].panel \in ValidPanels
    BY <1>1, <2>2 DEF RuntimeOK
  <2>8. bucket \in DOMAIN Def(cards[card].panel).buckets
    BY <2>4, <2>5, <2>7, ResolvedBucket
  <2>9. Keyed(k, "artifacts", card)
    BY <2>5, StoreKey
  <2>10. RuntimeOK' /\ Grows /\ Appended(card, e)
    BY <1>1, <2>2, <2>5, <2>8, <2>9, AppendCall
  <2>11. Recorded(card, e, "artifacts") /\ EventOK(card, e)
    BY <2>2, <2>6, <2>9, <2>10 DEF Recorded, EventOK, EgressType
  <2>12. HistoryOK'
    BY <1>1, <2>10, <2>11, HistoryRecorded
  <2>13. LeasesOK' /\ DOMAIN leases' = DOMAIN leases /\ LeasesKeep
    BY <1>1, <2>5, <2>10, LeaseEnds
  <2>14. KeysOK'
    BY <1>1, <2>9, <2>10, <2>13, KeysStay
  <2>15. Submitted(leases[l].card, k)
    BY <2>1, <2>6, <2>11 DEF Submitted
  <2> QED BY <2>10, <2>12, <2>13, <2>14, <2>15
<1> QED BY <1>2, <1>3

\* execute_worker submits.
LEMMA SubmitStep ==
    ASSUME Core, NEW c \in Client, Submit(c)
    PROVE  Core'
<1>1. RuntimeOK /\ CallsOK
  BY DEF Core
<1>2. PICK t : t = call[c]
  OBVIOUS
<1>3. At(c, "submit") /\ Continue(c, Rest(c)) /\ UNCHANGED serviceVars
  BY DEF Submit
<1>4. /\ CallOK(t) /\ IsCall(t) /\ t.todo # << >> /\ Head(t.todo) = "submit"
      /\ Rest(c) = Tail(t.todo)
  BY <1>1, <1>2, <1>3, AtStep
<1>5. t.todo = Work1 /\ t.card \in DOMAIN cards /\ t.data.lease \in DOMAIN leases
  BY <1>4, FirstSteps DEF CallOK
<1>6. /\ RuntimeOK' /\ Grows /\ HistoryOK' /\ KeysOK' /\ LeasesOK'
      /\ DOMAIN leases' = DOMAIN leases
  <2>1. PICK k : k = Suffixed(call[c].key, "submit")
    OBVIOUS
  <2>2. submit_artifact(t.data.lease, t.data.out, k)
    BY <1>2, <2>1 DEF Submit
  <2> QED BY <1>5, <2>2, SubmitEffects
<1>7. PICK r : r = Rest(c)
  OBVIOUS
<1>8. PICK u : /\ call' = [call EXCEPT ![c] = u] /\ IsCall(u) /\ u.todo = r
               /\ r = << >> => u = Idle
               /\ r # << >> => u.card = call[c].card /\ u.data = call[c].data
  BY <1>1, <1>3, <1>7, ContinueCall
<1>9. CallOK(u)
  BY <1>2, <1>4, <1>5, <1>7, <1>8, LaterSteps, Unfinished DEF CallOK
<1>10. CallOK(u)'
  BY <1>6, <1>9, CallStays
<1>11. CallsOK'
  BY <1>1, <1>6, <1>8, <1>10, CallStep
<1>12. LinksOK' /\ MutationsOK'
  BY <1>3, <1>6, ServiceStays DEF Core, serviceVars
<1> QED BY <1>6, <1>11, <1>12 DEF Core

\* A request that has nothing left to do, or goes on with Idle.
LEMMA IdleCall == CallOK(Idle) /\ CallOK(Idle)'
<1>1. PICK u : u = Idle
  OBVIOUS
<1>2. IsCall(u) /\ u.todo = << >> /\ u.card = 0
  BY <1>1 DEF IsCall, Idle, MkCall
<1>3. CallOK(u) /\ CallOK(u)'
  BY <1>2 DEF CallOK
<1> QED BY <1>1, <1>3

\* execute_worker reads the history again.
LEMMA CheckStep ==
    ASSUME Core, NEW c \in Client, Check(c)
    PROVE  Core'
<1>1. CallsOK
  BY DEF Core
<1>2. PICK t : t = call[c]
  OBVIOUS
<1>3. At(c, "check") /\ Continue(c, Rest(c)) /\ UNCHANGED <<runtimeVars, leases, serviceVars>>
  BY DEF Check
<1>4. /\ CallOK(t) /\ t.todo # << >> /\ Head(t.todo) = "check" /\ Rest(c) = Tail(t.todo)
  BY <1>1, <1>2, <1>3, AtStep
<1>5. t.todo = Work2
  BY <1>4, FirstSteps DEF CallOK
<1>6. PICK r : r = Rest(c)
  OBVIOUS
<1>7. PICK u : /\ call' = [call EXCEPT ![c] = u] /\ IsCall(u) /\ u.todo = r
               /\ r = << >> => u = Idle
               /\ r # << >> => u.card = call[c].card /\ u.data = call[c].data
  BY <1>1, <1>3, <1>6, ContinueCall
<1>8. CallOK(u)
  BY <1>4, <1>5, <1>6, <1>7, LaterSteps, IdleCall
<1> QED BY <1>3, <1>7, <1>8, RequestOnly

\* The time of a lease runs out.
LEMMA ExpireStep ==
    ASSUME Core, NEW l \in DOMAIN leases, Expire(l)
    PROVE  Core'
<1>1. RuntimeOK /\ HistoryOK /\ KeysOK /\ LeasesOK /\ CallsOK
  BY DEF Core
<1>2. /\ leases' = [leases EXCEPT ![l].active = FALSE]
      /\ UNCHANGED runtimeVars /\ UNCHANGED call /\ UNCHANGED links /\ UNCHANGED mutations
  BY DEF Expire, serviceVars
<1>3. RuntimeOK' /\ Grows
  BY <1>1, <1>2, NoChange
<1>4. LeasesOK' /\ DOMAIN leases' = DOMAIN leases
  BY <1>1, <1>2, <1>3, LeaseEnds
<1>5. HistoryOK'
  BY <1>1, <1>2, <1>3, HistoryQuiet DEF runtimeVars
<1>6. KeysOK'
  BY <1>1, <1>2, <1>4 DEF KeysOK, runtimeVars
<1>7. LinksOK' /\ MutationsOK'
  BY <1>2, <1>3, ServiceStays DEF Core
<1>8. CallsOK'
  BY <1>1, <1>2, <1>3, <1>4, QuietStep
<1> QED BY <1>3, <1>4, <1>5, <1>6, <1>7, <1>8 DEF Core

-----------------------------------------------------------------------------
(* The steps of the shadow service.                                         *)

\* A shadow request passes the check of the parallel limit.
LEMMA StartShadowStep ==
    ASSUME Core, NEW c \in Client, NEW card \in DOMAIN cards, NEW k \in Key,
           StartShadow(c, card, k)
    PROVE  Core'
<1>1. PICK u : u = MkCall(<<"shadow_card", "shadow_created">>, None, card, k, None)
  OBVIOUS
<1>2. call' = [call EXCEPT ![c] = u] /\ UNCHANGED <<runtimeVars, leases, serviceVars>>
  BY <1>1 DEF StartShadow
<1>3. IsCall(u) /\ u.todo = Shadow1 /\ u.card = card /\ u.key = k
  BY <1>1, BeginCall DEF Shadow1
<1>4. CallOK(u)
  BY <1>3 DEF CallOK
<1> QED BY <1>2, <1>4, RequestOnly

\* One more link.
LEMMA LinkAdded ==
    ASSUME LinksOK, Grows, NEW x, LinkOK(x)', links' = Append(links, x)
    PROVE  LinksOK'
<1>1. /\ IsSequence(links') /\ DOMAIN links' = DOMAIN links \union {Len(links) + 1}
      /\ links'[Len(links) + 1] = x /\ \A i \in DOMAIN links : links'[i] = links[i]
  BY SequenceAppend DEF LinksOK
<1>2. ASSUME NEW i \in DOMAIN links' PROVE LinkOK(links[i])'
  <2>1. PICK y : y = links'[i]
    OBVIOUS
  <2>2. LinkOK(y)'
    <3>1. CASE y = x
      BY <3>1
    <3>2. CASE i \in DOMAIN links /\ y = links[i]
      <4>1. LinkOK(y)
        BY <3>2 DEF LinksOK
      <4> QED BY <4>1, CardsStay DEF LinkOK
    <3> QED BY <1>1, <1>2, <2>1, <3>1, <3>2
  <2> QED BY <2>1, <2>2
<1> QED BY <1>1, <1>2 DEF LinksOK

\* The shadow card is made, or found under its key, and linked.
LEMMA CreateShadowStep ==
    ASSUME Core, NEW c \in Client, CreateShadow(c)
    PROVE  Core'
<1>1. RuntimeOK /\ HistoryOK /\ KeysOK /\ LeasesOK /\ CallsOK /\ LinksOK
  BY DEF Core
<1>2. PICK t : t = call[c]
  OBVIOUS
<1>3. At(c, "shadow_card") /\ UNCHANGED leases /\ UNCHANGED mutations
  BY DEF CreateShadow
<1>4. /\ CallOK(t) /\ IsCall(t) /\ t.todo # << >> /\ Head(t.todo) = "shadow_card"
      /\ Rest(c) = Tail(t.todo)
  BY <1>1, <1>2, <1>3, AtStep
<1>5. t.todo = Shadow1 /\ t.card \in DOMAIN cards /\ t.key \in Key
  BY <1>4, FirstSteps DEF CallOK
<1>6. PICK s \in 1..MaxCards :
         /\ ShadowCard(t.card, t.key, s)
         /\ links' = Append(links, [production |-> t.card, shadow |-> s, status |-> "active"])
         /\ Proceed(c, Rest(c), s, None)
  BY <1>2 DEF CreateShadow
<1>7. /\ RuntimeOK' /\ Grows /\ HistoryOK' /\ KeysOK' /\ s \in DOMAIN cards'
      /\ Isolated => cards'[s].shadow
  <2>1. create_card(split_panel_id(t.card), cards[t.card].payload, TRUE, t.key, s)
    BY <1>6 DEF ShadowCard
  <2>2. /\ RuntimeOK' /\ Grows /\ HistoryOK' /\ KeysOK' /\ s \in DOMAIN cards'
        /\ Isolated /\ t.key \in Key /\ TRUE => cards'[s].shadow
    BY <1>1, <1>3, <2>1, CreateEffects
  <2> QED BY <1>5, <2>2
<1>8. PICK x : x = [production |-> t.card, shadow |-> s, status |-> "active"]
  OBVIOUS
<1>9. LinkOK(x)'
  <2>1. IsLink(x) /\ x.production = t.card /\ x.shadow = s
    BY <1>8 DEF IsLink
  <2>2. t.card \in DOMAIN cards'
    BY <1>5, <1>7 DEF Grows
  <2> QED BY <1>7, <2>1, <2>2 DEF LinkOK
<1>10. LinksOK'
  BY <1>1, <1>6, <1>7, <1>8, <1>9, LinkAdded
<1>11. LeasesOK' /\ MutationsOK'
  BY <1>1, <1>3, <1>7, LeasesStay, ServiceStays DEF Core
<1>12. PICK r : r = Rest(c)
  OBVIOUS
<1>13. r = Shadow2 /\ r # << >>
  BY <1>4, <1>5, <1>12, LaterSteps, Unfinished
<1>14. PICK u : call' = [call EXCEPT ![c] = u] /\ IsCall(u) /\ u.todo = r /\ u.card = call[c].card
  <2>1. IsCall(call[c]) /\ call = [d \in Client |-> call[d]]
    BY <1>1 DEF CallsOK, CallOK
  <2>2. Proceed(c, r, s, None)
    BY <1>6, <1>12
  <2> QED BY <1>13, <2>1, <2>2, ProceedCall
<1>15. CallOK(u)
  BY <1>2, <1>5, <1>13, <1>14 DEF CallOK
<1>16. CallOK(u)'
  BY <1>3, <1>7, <1>15, CallStays
<1>17. CallsOK'
  BY <1>1, <1>3, <1>7, <1>14, <1>16, CallStep
<1> QED BY <1>7, <1>10, <1>11, <1>17 DEF Core

\* Only the status of links changes.
LEMMA LinksRewritten ==
    ASSUME LinksOK, Grows, NEW T \in SUBSET DOMAIN links, NEW status,
           links' = [i \in DOMAIN links |-> IF i \in T THEN [links[i] EXCEPT !.status = status]
                                            ELSE links[i]]
    PROVE  LinksOK'
<1>1. IsSequence(links)
  BY DEF LinksOK
<1>2. IsSequence(links') /\ DOMAIN links' = DOMAIN links
  <2>1. DOMAIN links' = DOMAIN links /\ links' = [i \in DOMAIN links |-> links'[i]]
    OBVIOUS
  <2> QED BY <1>1, <2>1, SequenceMap
<1>3. ASSUME NEW i \in DOMAIN links' PROVE LinkOK(links[i])'
  <2>1. PICK y : y = links[i]
    OBVIOUS
  <2>2. LinkOK(y)
    BY <1>2, <2>1 DEF LinksOK
  <2>3. PICK x : x = [y EXCEPT !.status = status]
    OBVIOUS
  <2>4. IsLink(x) /\ x.production = y.production /\ x.shadow = y.shadow
    BY <2>2, <2>3 DEF LinkOK, IsLink
  <2>5. LinkOK(x)' /\ LinkOK(y)'
    BY <2>2, <2>4, CardsStay DEF LinkOK
  <2>6. links'[i] = x \/ links'[i] = y
    BY <1>2, <1>3, <2>1, <2>3
  <2>7. CASE links'[i] = x
    BY <2>5, <2>7
  <2>8. CASE links'[i] = y
    BY <2>5, <2>8
  <2> QED BY <2>6, <2>7, <2>8
<1> QED BY <1>2, <1>3 DEF LinksOK

\* A shadow is completed.
LEMMA CompleteShadowStep ==
    ASSUME Core, NEW c \in Client, NEW i \in DOMAIN links, CompleteShadow(c, i)
    PROVE  Core'
<1>1. RuntimeOK /\ HistoryOK /\ KeysOK /\ LeasesOK /\ CallsOK /\ LinksOK
  BY DEF Core
<1>2. /\ links' = [links EXCEPT ![i].status = "completed"]
      /\ UNCHANGED runtimeVars /\ UNCHANGED leases /\ UNCHANGED mutations
  BY DEF CompleteShadow
<1>3. RuntimeOK' /\ Grows
  BY <1>1, <1>2, NoChange
<1>4. LinksOK'
  <2>1. links = [j \in DOMAIN links |-> links[j]]
    BY <1>1 DEF LinksOK, IsSequence
  <2>2. {i} \in SUBSET DOMAIN links
    OBVIOUS
  <2>3. links' = [j \in DOMAIN links |-> IF j \in {i} THEN [links[j] EXCEPT !.status = "completed"]
                                         ELSE links[j]]
    BY <1>2, <2>1
  <2> QED BY <1>1, <1>3, <2>2, <2>3, LinksRewritten
<1>5. HistoryOK' /\ LeasesOK' /\ MutationsOK'
  BY <1>1, <1>2, <1>3, HistoryQuiet, LeasesStay, ServiceStays DEF Core, runtimeVars
<1>6. KeysOK'
  BY <1>1, <1>2 DEF KeysOK, runtimeVars
<1>7. PICK v : v = MkCall(<<"shadow_completed">>, None, links[i].production, NoKey, None)
  OBVIOUS
<1>8. PICK u : u = [v EXCEPT !.ref = links[i].shadow]
  OBVIOUS
<1>9. call' = [call EXCEPT ![c] = u]
  BY <1>7, <1>8 DEF CompleteShadow
<1>10. IsCall(v) /\ v.todo = Completing /\ v.card = links[i].production
  BY <1>7, BeginCall DEF Completing
<1>11. IsCall(u) /\ u.todo = Completing /\ u.card = links[i].production
  BY <1>8, <1>10 DEF IsCall
<1>12. links[i].production \in DOMAIN cards
  BY <1>1 DEF LinksOK, LinkOK
<1>13. CallOK(u)
  BY <1>11, <1>12 DEF CallOK
<1>14. CallOK(u)'
  BY <1>2, <1>3, <1>13, CallStays
<1>15. CallsOK'
  BY <1>1, <1>2, <1>3, <1>9, <1>14, CallStep
<1> QED BY <1>3, <1>4, <1>5, <1>6, <1>15 DEF Core

-----------------------------------------------------------------------------
(* Mutations.                                                               *)

\* A step that only changes mutations.
LEMMA MutationStep ==
    ASSUME Core, UNCHANGED <<runtimeVars, call, leases, links>>, MutationsOK'
    PROVE  Core'
<1>1. RuntimeOK /\ HistoryOK /\ KeysOK /\ LeasesOK /\ CallsOK /\ LinksOK /\ MutationsOK
  BY DEF Core
<1>2. RuntimeOK' /\ Grows
  BY <1>1, NoChange
<1>3. HistoryOK' /\ LeasesOK' /\ LinksOK'
  BY <1>1, <1>2, HistoryQuiet, LeasesStay, ServiceStays DEF runtimeVars
<1>4. KeysOK'
  BY <1>1 DEF KeysOK, runtimeVars
<1>5. CallsOK'
  BY <1>1, <1>2, QuietStep
<1> QED BY <1>2, <1>3, <1>4, <1>5 DEF Core

\* A mutation is proposed.
LEMMA ProposeMutationStep ==
    ASSUME Core, ProposeMutation
    PROVE  Core'
<1>1. PICK x : x = [status |-> "shadowing", panel |-> None]
  OBVIOUS
<1>2. mutations' = Append(mutations, x) /\ UNCHANGED <<runtimeVars, call, leases, links>>
  BY <1>1 DEF ProposeMutation
<1>3. IsMutation(x) /\ x.status = "shadowing"
  BY <1>1 DEF IsMutation
<1>4. /\ IsSequence(mutations') /\ DOMAIN mutations' = DOMAIN mutations \union {Len(mutations) + 1}
      /\ mutations'[Len(mutations) + 1] = x
      /\ \A i \in DOMAIN mutations : mutations'[i] = mutations[i]
  BY <1>2, SequenceAppend DEF Core, MutationsOK
<1>5. ASSUME NEW i \in DOMAIN mutations' PROVE MutationOK(mutations[i])'
  <2>1. PICK y : y = mutations'[i]
    OBVIOUS
  <2>2. y = x \/ (i \in DOMAIN mutations /\ y = mutations[i])
    BY <1>4, <1>5, <2>1
  <2>3. MutationOK(x)
    BY <1>3 DEF MutationOK
  <2>4. MutationOK(y)
    BY <2>2, <2>3 DEF Core, MutationsOK
  <2>5. MutationOK(y)'
    BY <1>2, <2>4 DEF MutationOK, runtimeVars
  <2> QED BY <2>1, <2>5
<1>6. MutationsOK'
  BY <1>4, <1>5 DEF MutationsOK
<1> QED BY <1>2, <1>6, MutationStep

\* One mutation is rewritten, the panels registered only grow.
LEMMA MutationRewritten ==
    ASSUME MutationsOK, Grows, NEW i, NEW x, MutationOK(x)',
           mutations' = [mutations EXCEPT ![i] = x]
    PROVE  MutationsOK'
<1>1. IsSequence(mutations) /\ mutations = [j \in DOMAIN mutations |-> mutations[j]]
  BY DEF MutationsOK, IsSequence
<1>2. mutations' = [j \in DOMAIN mutations |-> IF j = i THEN x ELSE mutations[j]]
  BY <1>1
<1>3. IsSequence(mutations') /\ DOMAIN mutations' = DOMAIN mutations
  <2>1. /\ DOMAIN mutations' = DOMAIN mutations
        /\ mutations' = [j \in DOMAIN mutations |-> mutations'[j]]
    BY <1>2
  <2> QED BY <1>1, <2>1, SequenceMap
<1>4. ASSUME NEW j \in DOMAIN mutations' PROVE MutationOK(mutations[j])'
  <2>1. PICK y : y = mutations'[j]
    OBVIOUS
  <2>2. CASE y = x
    BY <2>1, <2>2
  <2>3. CASE y = mutations[j]
    <3>1. MutationOK(y)
      BY <1>3, <2>3 DEF MutationsOK
    <3>2. MutationOK(y)'
      BY <3>1 DEF MutationOK, Grows
    <3> QED BY <2>1, <3>2
  <2> QED BY <1>2, <1>3, <2>1, <2>2, <2>3
<1> QED BY <1>3, <1>4 DEF MutationsOK

\* A mutation is validated or rejected.
LEMMA ValidateMutationStep ==
    ASSUME Core, NEW i \in DOMAIN mutations, NEW accepted \in BOOLEAN,
           ValidateMutation(i, accepted)
    PROVE  Core'
<1>1. RuntimeOK /\ MutationsOK
  BY DEF Core
<1>2. PICK status : status = IF accepted THEN "validated" ELSE "rejected"
  OBVIOUS
<1>3. status = "validated" \/ status = "rejected"
  BY <1>2
<1>4. PICK y : y = mutations[i]
  OBVIOUS
<1>5. PICK x : x = [y EXCEPT !.status = status]
  OBVIOUS
<1>6. /\ mutations' = [mutations EXCEPT ![i] = x]
      /\ UNCHANGED <<runtimeVars, call, leases, links>>
  BY <1>2, <1>4, <1>5 DEF ValidateMutation
<1>7. IsMutation(y)
  BY <1>1, <1>4 DEF MutationsOK, MutationOK
<1>8. IsMutation(x) /\ x.status = status
  BY <1>5, <1>7 DEF IsMutation
<1>9. MutationOK(x)'
  BY <1>3, <1>8 DEF MutationOK
<1>10. Grows
  BY <1>1, <1>6, NoChange
<1>11. MutationsOK'
  BY <1>1, <1>6, <1>9, <1>10, MutationRewritten
<1> QED BY <1>6, <1>11, MutationStep

\* A promotion copies its mutation.
LEMMA StartPromotionStep ==
    ASSUME Core, NEW c \in Client, NEW i, NEW p, StartPromotion(c, i, p)
    PROVE  Core'
<1>1. PICK data : data = [mutation |-> i, panel |-> p]
  OBVIOUS
<1>2. PICK u : u = MkCall(PromotionSteps, None, 0, NoKey, data)
  OBVIOUS
<1>3. call' = [call EXCEPT ![c] = u] /\ UNCHANGED <<runtimeVars, leases, serviceVars>>
  BY <1>1, <1>2 DEF StartPromotion, serviceVars
<1>4. IsCall(u) /\ u.todo = Promoting1 /\ u.card = 0
  BY <1>2, BeginCall DEF Promoting1, PromotionSteps
<1>5. CallOK(u)
  BY <1>4 DEF CallOK
<1> QED BY <1>3, <1>5, RequestOnly

\* The panel is registered.
LEMMA RegisterPromotedStep ==
    ASSUME Core, NEW c \in Client, RegisterPromoted(c)
    PROVE  Core'
<1>1. RuntimeOK /\ HistoryOK /\ KeysOK /\ CallsOK
  BY DEF Core
<1>2. PICK t : t = call[c]
  OBVIOUS
<1>3. /\ At(c, "register") /\ register_patch_panel(t.data.panel) /\ Continue(c, Rest(c))
      /\ UNCHANGED <<leases, serviceVars>>
  BY <1>2 DEF RegisterPromoted
<1>4. PICK p : p = t.data.panel
  OBVIOUS
<1>5. /\ RuntimeOK' /\ Grows /\ UNCHANGED <<cards, history, keys>>
      /\ \E q \in registered' : SameVersion(q, p)
  BY <1>1, <1>3, <1>4, RegisterCall
<1>6. HistoryOK'
  BY <1>1, <1>5, HistoryQuiet
<1>7. KeysOK'
  BY <1>1, <1>3, <1>5 DEF KeysOK
<1>8. /\ CallOK(t) /\ IsCall(t) /\ t.todo # << >> /\ Head(t.todo) = "register"
      /\ Rest(c) = Tail(t.todo)
  BY <1>1, <1>2, <1>3, AtStep
<1>9. t.todo = Promoting1 /\ t.card = 0
  BY <1>8, FirstSteps DEF CallOK
<1>10. PICK r : r = Rest(c)
  OBVIOUS
<1>11. PICK u : /\ call' = [call EXCEPT ![c] = u] /\ IsCall(u) /\ u.todo = r
                /\ r = << >> => u = Idle
                /\ r # << >> => u.card = call[c].card /\ u.data = call[c].data
  BY <1>1, <1>3, <1>10, ContinueCall
<1>12. u.todo = Promoting2 /\ u.card = 0 /\ u.data.panel = p
  BY <1>2, <1>4, <1>8, <1>9, <1>10, <1>11, LaterSteps, Unfinished
<1>13. CallOK(u)'
  BY <1>5, <1>11, <1>12 DEF CallOK
<1> QED BY <1>3, <1>5, <1>6, <1>7, <1>11, <1>13, CoreStep

\* The mutation is marked: its panel is in force by then.
LEMMA MarkPromotedStep ==
    ASSUME Core, NEW c \in Client, MarkPromoted(c)
    PROVE  Core'
<1>1. RuntimeOK /\ HistoryOK /\ KeysOK /\ LeasesOK /\ CallsOK /\ LinksOK /\ MutationsOK
  BY DEF Core
<1>2. PICK t : t = call[c]
  OBVIOUS
<1>3. /\ At(c, "promoted") /\ Continue(c, Rest(c))
      /\ UNCHANGED runtimeVars /\ UNCHANGED leases /\ UNCHANGED links
  BY DEF MarkPromoted
<1>4. /\ CallOK(t) /\ IsCall(t) /\ t.todo # << >> /\ Head(t.todo) = "promoted"
      /\ Rest(c) = Tail(t.todo)
  BY <1>1, <1>2, <1>3, AtStep
<1>5. PICK p : p = t.data.panel
  OBVIOUS
<1>6. t.todo = Promoting2 /\ \E q \in registered : SameVersion(q, p)
  BY <1>4, <1>5, FirstSteps DEF CallOK
<1>7. RuntimeOK' /\ Grows
  BY <1>1, <1>3, NoChange
<1>8. PICK x : x = [status |-> "promoted", panel |-> p]
  OBVIOUS
<1>9. IsMutation(x) /\ x.status = "promoted" /\ x.panel = p
  BY <1>8 DEF IsMutation
<1>10. mutations' = [mutations EXCEPT ![t.data.mutation] = x]
  BY <1>2, <1>5, <1>8 DEF MarkPromoted
<1>11. MutationOK(x)'
  BY <1>6, <1>7, <1>9 DEF MutationOK, Grows
<1>12. MutationsOK'
  BY <1>1, <1>7, <1>10, <1>11, MutationRewritten
<1>13. HistoryOK' /\ LeasesOK' /\ LinksOK'
  BY <1>1, <1>3, <1>7, HistoryQuiet, LeasesStay, ServiceStays DEF runtimeVars
<1>14. KeysOK'
  BY <1>1, <1>3 DEF KeysOK, runtimeVars
<1>15. PICK r : r = Rest(c)
  OBVIOUS
<1>16. PICK u : /\ call' = [call EXCEPT ![c] = u] /\ IsCall(u) /\ u.todo = r
                /\ r = << >> => u = Idle
                /\ r # << >> => u.card = call[c].card /\ u.data = call[c].data
  BY <1>1, <1>3, <1>15, ContinueCall
<1>17. CallOK(u)'
  BY <1>4, <1>6, <1>15, <1>16, LaterSteps, IdleCall
<1>18. CallsOK'
  BY <1>1, <1>3, <1>7, <1>16, <1>17, CallStep
<1> QED BY <1>7, <1>12, <1>13, <1>14, <1>18 DEF Core

-----------------------------------------------------------------------------
(* Every step.                                                              *)

\* A request ends where it is.
LEMMA EndStep ==
    ASSUME Core, NEW c \in Client, End(c)
    PROVE  Core'
<1>1. call' = [call EXCEPT ![c] = Idle] /\ UNCHANGED <<runtimeVars, leases, serviceVars>>
  BY DEF End, Abort
<1> QED BY <1>1, IdleCall, RequestOnly

\* A restart ends all of them and forgets links and mutations.
LEMMA RestartStep ==
    ASSUME Core, Restart
    PROVE  Core'
<1>1. RuntimeOK /\ HistoryOK /\ KeysOK /\ LeasesOK /\ LinksOK /\ MutationsOK
  BY DEF Core
<1>2. /\ UNCHANGED runtimeVars /\ UNCHANGED leases /\ call' = [c \in Client |-> Idle]
      /\ links' = [i \in DOMAIN links |-> [links[i] EXCEPT !.status = "lost"]]
      /\ mutations' = [i \in DOMAIN mutations |-> [mutations[i] EXCEPT !.status = "lost"]]
  BY DEF Restart
<1>3. RuntimeOK' /\ Grows
  BY <1>1, <1>2, NoChange
<1>4. HistoryOK' /\ LeasesOK'
  BY <1>1, <1>2, <1>3, HistoryQuiet, LeasesStay DEF runtimeVars
<1>5. KeysOK'
  BY <1>1, <1>2 DEF KeysOK, runtimeVars
<1>6. LinksOK'
  <2>1. PICK T : T = DOMAIN links
    OBVIOUS
  <2>2. T \in SUBSET DOMAIN links
    BY <2>1
  <2>3. links' = [i \in DOMAIN links |-> IF i \in T THEN [links[i] EXCEPT !.status = "lost"]
                                         ELSE links[i]]
    BY <1>2, <2>1
  <2> QED BY <1>1, <1>3, <2>2, <2>3, LinksRewritten
<1>7. MutationsOK'
  <2>1. IsSequence(mutations') /\ DOMAIN mutations' = DOMAIN mutations
    <3>1. /\ DOMAIN mutations' = DOMAIN mutations
          /\ mutations' = [i \in DOMAIN mutations |-> mutations'[i]]
      BY <1>2
    <3> QED BY <1>1, <3>1, SequenceMap DEF MutationsOK
  <2>2. ASSUME NEW i \in DOMAIN mutations' PROVE MutationOK(mutations[i])'
    <3>1. PICK y : y = mutations[i]
      OBVIOUS
    <3>2. PICK x : x = [y EXCEPT !.status = "lost"]
      OBVIOUS
    <3>3. IsMutation(y)
      BY <1>1, <2>1, <3>1 DEF MutationsOK, MutationOK
    <3>4. IsMutation(x) /\ x.status = "lost"
      BY <3>2, <3>3 DEF IsMutation
    <3>5. mutations'[i] = x
      BY <1>2, <2>1, <3>1, <3>2
    <3>6. MutationOK(x)'
      BY <3>4 DEF MutationOK
    <3> QED BY <3>5, <3>6
  <2> QED BY <2>1, <2>2 DEF MutationsOK
<1>8. CallsOK'
  <2>1. ASSUME NEW c \in Client PROVE CallOK(call[c])'
    <3>1. call'[c] = Idle
      BY <1>2
    <3> QED BY <3>1, IdleCall
  <2> QED BY <1>2, <2>1 DEF CallsOK
<1> QED BY <1>3, <1>4, <1>5, <1>6, <1>7, <1>8 DEF Core

\* A new deployment.
LEMMA CoreInit == Init => Core
<1> SUFFICES ASSUME Init PROVE Core
  OBVIOUS
<1>1. IsSequence(<< >>) /\ DOMAIN << >> = {}
  BY DEF IsSequence
<1>2. /\ registered \subseteq ValidPanels /\ cards = << >> /\ history = << >> /\ keys = << >>
      /\ leases = << >> /\ links = << >> /\ mutations = << >>
      /\ call = [c \in Client |-> Idle]
  BY DEF Init
<1>3. RuntimeOK
  BY <1>1, <1>2 DEF RuntimeOK
<1>4. HistoryOK /\ KeysOK
  BY <1>1, <1>2 DEF HistoryOK, KeysOK, OneEventPerKey
<1>5. LeasesOK /\ LinksOK /\ MutationsOK
  BY <1>1, <1>2 DEF LeasesOK, LinksOK, MutationsOK
<1>6. CallsOK
  BY <1>2, IdleCall DEF CallsOK
<1> QED BY <1>3, <1>4, <1>5, <1>6 DEF Core

\* Every step keeps the invariant.
LEMMA CoreNext ==
    ASSUME Core, Next
    PROVE  Core'
<1>1. ASSUME NEW c \in Client,
             \E p \in registered, payload \in Payload, d \in Dedup, token \in Token :
                \E n \in Node(Def(p)) : BoundarySource(c, p, n, payload, d, token)
      PROVE  Core'
  BY <1>1, BoundarySourceStep
<1>2. ASSUME NEW c \in Client,
             \E p \in registered, card \in DOMAIN cards, external \in External, token \in Token :
                \E n \in Node(Def(p)) : BoundarySink(c, p, n, card, external, token)
      PROVE  Core'
  BY <1>2, BoundarySinkStep
<1>3. ASSUME NEW c \in Client,
             \/ RecordSource(c) \/ RecordSink(c)
             \/ RecordBoundary(c, "boundary_source_received")
             \/ RecordBoundary(c, "boundary_sink_egressed")
             \/ RecordShadow(c, "shadow_created") \/ RecordShadow(c, "shadow_completed")
      PROVE  Core'
  BY <1>3, RecordSteps
<1>4. ASSUME NEW c \in Client,
             \E p \in registered, worker \in Worker, k \in Key :
                \E n \in Node(Def(p)) :
                   \E pipe \in Elements(n.input_pipes), out \in Elements(n.output_pipes) :
                      ExecuteWorker(c, p, pipe, out, worker, k)
      PROVE  Core'
  BY <1>4, ExecuteWorkerStep
<1>5. ASSUME NEW c \in Client,
             \/ Submit(c) \/ Check(c) \/ CreateShadow(c)
             \/ RegisterPromoted(c) \/ MarkPromoted(c) \/ End(c)
      PROVE  Core'
  BY <1>5, SubmitStep, CheckStep, CreateShadowStep, RegisterPromotedStep, MarkPromotedStep,
     EndStep
<1>6. ASSUME NEW c \in Client,
             \/ \E card \in DOMAIN cards, k \in Key : StartShadow(c, card, k)
             \/ \E i \in DOMAIN links : CompleteShadow(c, i)
             \/ \E i \in DOMAIN mutations, p \in Release : StartPromotion(c, i, p)
      PROVE  Core'
  BY <1>6, StartShadowStep, CompleteShadowStep, StartPromotionStep
<1>7. CASE \E l \in DOMAIN leases : Expire(l)
  BY <1>7, ExpireStep
<1>8. CASE ProposeMutation
  BY <1>8, ProposeMutationStep
<1>9. CASE \E i \in DOMAIN mutations, accepted \in BOOLEAN : ValidateMutation(i, accepted)
  BY <1>9, ValidateMutationStep
<1>10. CASE Restart
  BY <1>10, RestartStep
<1>11. CASE \E p \in registered, payload \in Payload, k \in CardKey : CreateCard(p, payload, k)
  BY <1>11, CreateCardStep
<1> QED BY <1>1, <1>2, <1>3, <1>4, <1>5, <1>6, <1>7, <1>8, <1>9, <1>10, <1>11 DEF Next

\* So does a step of anything else.
LEMMA CoreStutters ==
    ASSUME Core, UNCHANGED vars
    PROVE  Core'
<1>1. UNCHANGED <<runtimeVars, call, leases, links>> /\ UNCHANGED mutations
  BY DEF vars, serviceVars
<1>2. RuntimeOK /\ LinksOK /\ MutationsOK
  BY DEF Core
<1>3. Grows
  BY <1>1, <1>2, NoChange
<1>4. MutationsOK'
  BY <1>1, <1>2, <1>3, ServiceStays
<1> QED BY <1>1, <1>4, MutationStep

\* The inductive invariant of deliveries, workers, shadows and mutations, for
\* any number of requests that race, repeat each other and are cut short.
THEOREM DeliveryInvariant == Spec => []Core
<1>1. Core /\ [Next]_vars => Core'
  BY CoreNext, CoreStutters
<1> QED BY <1>1, CoreInit, PTL DEF Spec

-----------------------------------------------------------------------------
(* What follows from it.                                                    *)

\* The tables, the links and the requests under way name cards that exist,
\* and only valid panels are registered.
THEOREM DeliveryTypes == Spec => []TypeOK
<1>1. Core => TypeOK
  <2> SUFFICES ASSUME Core PROVE TypeOK
    OBVIOUS
  <2>1. /\ registered \subseteq ValidPanels /\ DOMAIN history = DOMAIN cards
        /\ \A i \in DOMAIN cards : /\ cards[i].panel \in registered
                                   /\ cards[i].bucket \in DOMAIN Def(cards[i].panel).buckets
        /\ \A k \in DOMAIN keys : keys[k].card \in DOMAIN cards
    BY DEF Core, RuntimeOK
  <2>2. \A l \in DOMAIN leases : leases[l].card \in DOMAIN cards
    BY DEF Core, LeasesOK
  <2>3. \A i \in DOMAIN links : {links[i].production, links[i].shadow} \subseteq DOMAIN cards
    BY DEF Core, LinksOK, LinkOK
  <2>4. \A i \in DOMAIN mutations :
           mutations[i].status \in {"shadowing", "validated", "rejected", "promoted", "lost"}
    BY DEF Core, MutationsOK, MutationOK
  <2>5. \A c \in Client : call[c].card \in DOMAIN cards \union {0}
    BY DEF Core, CallsOK, CallOK, Production
  <2> QED BY <2>1, <2>2, <2>3, <2>4, <2>5 DEF TypeOK
<1> QED BY <1>1, DeliveryInvariant, PTL

\* promote_mutation never answers for a panel that is not in force, whatever
\* happens to the mutation between the copy and the write.
THEOREM PromotedAreRegistered == Spec => []PromotedIsRegistered
<1>1. Core => PromotedIsRegistered
  BY DEF Core, MutationsOK, MutationOK, PromotedIsRegistered
<1> QED BY <1>1, DeliveryInvariant, PTL

\* Shadow work stays inside: where no sink is configured to let shadows out
\* and clients keep off the keys of boundary sources, every linked shadow is
\* marked and no sink ever runs on a marked card.
THEOREM ShadowsStayInside ==
    ASSUME Isolated
    PROVE  Spec => []ShadowsHaveNoEgress
<1>1. Core => ShadowsHaveNoEgress
  <2> SUFFICES ASSUME Core PROVE ShadowsHaveNoEgress
    OBVIOUS
  <2>1. \A i \in DOMAIN links : cards[links[i].shadow].shadow
    BY DEF Core, LinksOK, LinkOK
  <2>2. ASSUME NEW card \in DOMAIN cards, cards[card].shadow, NEW e \in Events(card)
        PROVE  e.type \notin {"sink_executed", "boundary_sink_egressed"}
    <3>1. PICK x \in DOMAIN history[card] : e = history[card][x]
      BY ElementAt DEF Events
    <3> QED BY <2>2, <3>1 DEF Core, HistoryOK, Production, EgressType
  <2> QED BY <2>1, <2>2 DEF ShadowsHaveNoEgress
<1> QED BY <1>1, DeliveryInvariant, PTL

\* A worker's submission is always preceded by a claim of the card, also when
\* the request that submits is a retry or its lease has run out meanwhile.
THEOREM SubmissionsFollowClaims ==
    Spec => [](\A card \in DOMAIN cards : Before(card, "card_claimed", "artifact_submitted"))
<1>1. Core => \A card \in DOMAIN cards : Before(card, "card_claimed", "artifact_submitted")
  BY DEF Core, HistoryOK
<1> QED BY <1>1, DeliveryInvariant, PTL

-----------------------------------------------------------------------------
(* The order of the evidence.                                               *)

\* Keys are made of segments: deduplication keys are texts and panel ids have
\* no colon.
KeySegments ==
    /\ \A d \in Dedup : IsSequence(d)
    /\ \A p \in ValidPanels : IsSequence(Def(p).id) /\ Len(Def(p).id) = 1

\* The contracts name the card: an egress key template is absent or begins
\* with card_id, as the default does ("card_id + sink_id").  Without this two
\* cards may share the key of a sink, and the second is answered with the
\* execution of the first.
KeysNameCards ==
    /\ KeySegments
    /\ \A p \in ValidPanels : \A n \in Node(Def(p)) : n.type = "sink" =>
          /\ IsSequence(n.config.boundary.egress_key)
          /\ n.config.boundary.egress_key = << >> \/ n.config.boundary.egress_key[1] = "card_id"

\* The history of the card has an event of this type.
Ran(card, type) == \E x \in DOMAIN history[card] : history[card][x].type = type

\* A request's key: a source's stands for the card it made, a sink's names
\* the card it runs on.
SourceKey(k, card) ==
    \/ k = NoKey
    \/ /\ IsSequence(k) /\ k # NoKey /\ k[1] = "boundary-source"
       /\ Stored(k, "card") /\ keys[k].card = card

SinkKey(k, card) ==
    \/ k = NoKey
    \/ IsSequence(k) /\ k # NoKey /\ Len(k) >= 4 /\ k[1] = "boundary-sink" /\ k[4] = card

\* The key of an event is one that the adapters made, and what they made it
\* for has been executed on the card.
EventKey(k) ==
    /\ k[1] = "boundary-source" =>
          /\ \E j \in DOMAIN keys, s \in {"source", "event"} :
                SourceKey(j, keys[k].card) /\ k = Append(j, s)
          /\ Ran(keys[k].card, "source_executed")
    /\ k[1] = "boundary-sink" => k[4] = keys[k].card /\ Ran(keys[k].card, "sink_executed")

KeyTrace ==
    /\ NoKey \notin DOMAIN keys
    /\ \A k \in DOMAIN keys : keys[k].type = "event" => EventKey(k)

\* A request that is about to report an execution finds it in the history.
RequestTrace(t) ==
    /\ t.todo = Source1 \/ t.todo = Source2 => SourceKey(t.key, t.card)
    /\ t.todo = Source2 => Ran(t.card, "source_executed")
    /\ t.todo = Sink1 \/ t.todo = Sink2 => SinkKey(t.key, t.card)
    /\ t.todo = Sink2 => Ran(t.card, "sink_executed")

ReportsInOrder ==
    \A card \in DOMAIN cards : /\ Before(card, "source_executed", "boundary_source_received")
                               /\ Before(card, "sink_executed", "boundary_sink_egressed")

Trace == KeyTrace /\ ReportsInOrder /\ \A c \in Client : RequestTrace(call[c])

\* Appending to two sequences with the same result means appending the same
\* to the same.
LEMMA AppendInjective ==
    ASSUME NEW s, IsSequence(s), NEW t, IsSequence(t), NEW d, NEW e, Append(s, d) = Append(t, e)
    PROVE  s = t /\ d = e
<1>1. /\ Len(s) \in Nat /\ DOMAIN s = 1..Len(s)
      /\ DOMAIN Append(s, d) = DOMAIN s \union {Len(s) + 1} /\ Append(s, d)[Len(s) + 1] = d
      /\ \A i \in DOMAIN s : Append(s, d)[i] = s[i]
  BY SequenceAppend
<1>2. /\ Len(t) \in Nat /\ DOMAIN t = 1..Len(t)
      /\ DOMAIN Append(t, e) = DOMAIN t \union {Len(t) + 1} /\ Append(t, e)[Len(t) + 1] = e
      /\ \A i \in DOMAIN t : Append(t, e)[i] = t[i]
  BY SequenceAppend
<1>3. PICK a : a = Append(s, d)
  OBVIOUS
<1>4. a = Append(t, e)
  BY <1>3
<1>5. PICK m \in Nat : m = Len(s)
  BY <1>1
<1>6. PICK n \in Nat : n = Len(t)
  BY <1>2
<1>7. DOMAIN a = (1..m) \union {m + 1} /\ DOMAIN a = (1..n) \union {n + 1}
  BY <1>1, <1>2, <1>3, <1>4, <1>5, <1>6
<1>8. m = n
  <2>1. m + 1 \in (1..n) \union {n + 1} /\ n + 1 \in (1..m) \union {m + 1}
    BY <1>7
  <2> QED BY <2>1
<1>9. d = e
  BY <1>1, <1>2, <1>3, <1>4, <1>5, <1>6, <1>8
<1>10. \A i \in DOMAIN s : s[i] = t[i]
  BY <1>1, <1>2, <1>3, <1>4, <1>5, <1>6, <1>8
<1>11. s = [i \in 1..m |-> s[i]] /\ t = [i \in 1..m |-> t[i]]
  BY <1>1, <1>2, <1>5, <1>6, <1>8 DEF IsSequence
<1> QED BY <1>1, <1>5, <1>9, <1>10, <1>11

\* Two sequences one after the other, and four parts of a key.
Joined(s, t) == s \o t

Segments(kind, id, x, key) == Joined(Joined(Joined(<<kind>>, id), <<x>>), key)

\* j is s and then t.
IsJoin(S, s, t, j) ==
    /\ j \in Seq(S) /\ Len(j) = Len(s) + Len(t)
    /\ \A i \in 1..Len(s) : j[i] = s[i]
    /\ \A i \in 1..Len(t) : j[Len(s) + i] = t[i]

\* What joining two sequences gives.
LEMMA JoinedParts ==
    ASSUME NEW S, NEW s \in Seq(S), NEW t \in Seq(S)
    PROVE  IsJoin(S, s, t, Joined(s, t))
BY DEF Joined, IsJoin

\* A sequence is one of its elements, and of anything more.
LEMMA SequenceOver ==
    ASSUME NEW S, NEW s
    PROVE  /\ IsSequence(s) /\ Elements(s) \subseteq S => s \in Seq(S)
           /\ s \in Seq(S) => IsSequence(s)
<1>1. ASSUME IsSequence(s), Elements(s) \subseteq S PROVE s \in Seq(S)
  <2>1. \A i \in 1..Len(s) : s[i] \in S
    BY <1>1 DEF Elements, IsSequence
  <2> QED BY <1>1, <2>1 DEF IsSequence
<1>2. ASSUME s \in Seq(S) PROVE IsSequence(s)
  <2>1. \A i \in 1..Len(s) : s[i] \in Elements(s)
    BY <1>2 DEF Elements
  <2>2. s \in Seq(Elements(s))
    BY <1>2, <2>1
  <2> QED BY <2>2 DEF IsSequence
<1> QED BY <1>1, <1>2

\* A key of this kind with this at the fourth place.
IsKeyOf(k, kind, fourth) ==
    IsSequence(k) /\ k # NoKey /\ Len(k) >= 4 /\ k[1] = kind /\ k[4] = fourth

\* Four such parts, the second of one segment, are such a key.
LEMMA FourthSegment ==
    ASSUME NEW S, NEW kind \in S, NEW id \in Seq(S), Len(id) = 1, NEW x \in S,
           NEW key \in Seq(S), Len(key) > 0, NEW k, k = Segments(kind, id, x, key)
    PROVE  IsKeyOf(k, kind, key[1])
<1>1. PICK a : a = <<kind>>
  OBVIOUS
<1>2. a \in Seq(S) /\ Len(a) = 1 /\ a[1] = kind
  BY <1>1
<1>3. PICK b : b = <<x>>
  OBVIOUS
<1>4. b \in Seq(S) /\ Len(b) = 1
  BY <1>3
<1>5. PICK s : s = Joined(a, id)
  OBVIOUS
<1>6. IsJoin(S, a, id, s)
  BY <1>2, <1>5, JoinedParts
<1>7. s \in Seq(S) /\ Len(s) = 2 /\ s[1] = kind
  BY <1>2, <1>6 DEF IsJoin
<1>8. PICK t : t = Joined(s, b)
  OBVIOUS
<1>9. IsJoin(S, s, b, t)
  BY <1>4, <1>7, <1>8, JoinedParts
<1>10. t \in Seq(S) /\ Len(t) = 3 /\ t[1] = kind
  BY <1>4, <1>7, <1>9 DEF IsJoin
<1>11. k = Joined(t, key)
  BY <1>1, <1>3, <1>5, <1>8, Zenon DEF Segments
<1>12. IsJoin(S, t, key, k)
  BY <1>10, <1>11, JoinedParts
<1>13. k \in Seq(S) /\ Len(k) = 3 + Len(key) /\ k[1] = kind /\ k[3 + 1] = key[1]
  BY <1>10, <1>12 DEF IsJoin
<1>14. Len(k) >= 4 /\ k[4] = key[1]
  BY <1>13
<1>15. k # NoKey
  BY <1>14 DEF NoKey
<1>16. IsSequence(k)
  BY <1>13, SequenceOver
<1> QED BY <1>13, <1>14, <1>15, <1>16 DEF IsKeyOf

\* A boundary's key begins with what it is the key of; the name of the panel
\* and that of the node come next.
LEMMA BoundaryKeyParts ==
    ASSUME KeySegments, NEW kind, NEW p \in ValidPanels, NEW n, NEW key, IsSequence(key),
           key # NoKey, NEW k, k = BoundaryKey(kind, p, n, key)
    PROVE  IsKeyOf(k, kind, key[1])
<1>1. PICK id : id = Def(p).id
  OBVIOUS
<1>2. IsSequence(id) /\ Len(id) = 1
  BY <1>1 DEF KeySegments
<1>3. PICK x : x = n.id
  OBVIOUS
<1>4. PICK S : S = {kind, x} \union Elements(id) \union Elements(key)
  OBVIOUS
<1>5. kind \in S /\ x \in S /\ Elements(id) \subseteq S /\ Elements(key) \subseteq S
  BY <1>4
<1>6. id \in Seq(S) /\ key \in Seq(S)
  BY <1>2, <1>5, SequenceOver
<1>7. Len(key) > 0
  BY <1>6 DEF NoKey
<1>8. k = Segments(kind, id, x, key)
  BY <1>1, <1>3, Zenon DEF BoundaryKey, Segments, Joined
<1> QED BY <1>2, <1>5, <1>6, <1>7, <1>8, FourthSegment

\* The key of a boundary source.
LEMMA SourceKeyParts ==
    ASSUME KeySegments, NEW p \in ValidPanels, NEW n, NEW d \in Dedup, NEW dedup \in {d, NoKey},
           NEW k, k = BoundaryKey("boundary-source", p, n, dedup)
    PROVE  k = NoKey \/ (IsSequence(k) /\ k # NoKey /\ k[1] = "boundary-source")
<1>1. CASE dedup = NoKey
  BY <1>1 DEF BoundaryKey
<1>2. CASE dedup # NoKey
  <2>1. IsSequence(dedup)
    BY <1>2 DEF KeySegments
  <2>2. IsKeyOf(k, "boundary-source", dedup[1])
    BY <1>2, <2>1, BoundaryKeyParts
  <2> QED BY <2>2 DEF IsKeyOf
<1> QED BY <1>1, <1>2

\* The key of a boundary sink names the card.
LEMMA SinkKeyParts ==
    ASSUME KeysNameCards, NEW p \in ValidPanels, NEW n \in Node(Def(p)), n.type = "sink",
           NEW card, NEW external, NEW k,
           k = BoundaryKey("boundary-sink", p, n, render_template(n, card, external))
    PROVE  SinkKey(k, card)
<1>1. PICK key : key = render_template(n, card, external)
  OBVIOUS
<1>2. PICK names : names = egress_template(n)
  OBVIOUS
<1>3. IsSequence(names) /\ names[1] = "card_id"
  <2>1. CASE n.config.boundary.egress_key = << >>
    <3>1. names = <<"card_id", "sink_id">>
      BY <1>2, <2>1 DEF egress_template
    <3>2. names \in Seq({"card_id", "sink_id"}) /\ names[1] = "card_id"
      BY <3>1
    <3> QED BY <3>2, SequenceOver
  <2>2. CASE n.config.boundary.egress_key # << >>
    BY <1>2, <2>2 DEF egress_template, KeysNameCards
  <2> QED BY <2>1, <2>2
<1>4. key = [i \in DOMAIN names |-> RenderedName(names[i], n, card, external)]
  BY <1>1, <1>2 DEF render_template
<1>5. IsSequence(key) /\ Len(key) = Len(names)
  <2>1. key = [i \in DOMAIN names |-> key[i]]
    BY <1>4
  <2> QED BY <1>3, <2>1, SequenceMap
<1>6. CASE key = NoKey
  BY <1>1, <1>6 DEF BoundaryKey, SinkKey
<1>7. CASE key # NoKey
  <2>1. Len(names) \in Nat /\ Len(names) > 0 /\ DOMAIN names = 1..Len(names)
    BY <1>3, <1>5, <1>7 DEF IsSequence, NoKey
  <2>2. 1 \in DOMAIN names /\ names[1] = "card_id"
    BY <1>3, <2>1
  <2>3. key[1] = card
    BY <1>4, <2>2 DEF RenderedName
  <2>4. IsKeyOf(k, "boundary-sink", key[1])
    BY <1>1, <1>5, <1>7, BoundaryKeyParts DEF KeysNameCards
  <2> QED BY <2>3, <2>4 DEF SinkKey, IsKeyOf
<1> QED BY <1>6, <1>7

-----------------------------------------------------------------------------
(* What stays true of the trace.                                            *)

\* What ran stays in the history.
LEMMA RanStays ==
    ASSUME Grows, NEW card \in DOMAIN cards, NEW type, Ran(card, type)
    PROVE  Ran(card, type)'
BY DEF Ran, Grows

\* A source's key keeps standing for its card.
LEMMA SourceKeyStays ==
    ASSUME Grows, NEW k, NEW card, SourceKey(k, card)
    PROVE  SourceKey(k, card)'
BY DEF SourceKey, Grows, Stored

\* So does the key of an event.
LEMMA EventKeyStays ==
    ASSUME RuntimeOK, Grows, NEW k \in DOMAIN keys, EventKey(k)
    PROVE  EventKey(k)'
<1>1. PICK card : card = keys[k].card
  OBVIOUS
<1>2. card \in DOMAIN cards /\ keys'[k].card = card
  BY <1>1 DEF RuntimeOK, Grows
<1>3. ASSUME k[1] = "boundary-source"
      PROVE  /\ \E j \in DOMAIN keys', s \in {"source", "event"} :
                   SourceKey(j, card)' /\ k = Append(j, s)
             /\ Ran(card, "source_executed")'
  <2>1. PICK j \in DOMAIN keys, s \in {"source", "event"} :
           SourceKey(j, card) /\ k = Append(j, s)
    BY <1>1, <1>3 DEF EventKey
  <2>2. j \in DOMAIN keys' /\ SourceKey(j, card)'
    BY <2>1, SourceKeyStays DEF Grows
  <2>3. Ran(card, "source_executed")'
    BY <1>1, <1>2, <1>3, RanStays DEF EventKey
  <2> QED BY <2>1, <2>2, <2>3
<1>4. ASSUME k[1] = "boundary-sink" PROVE k[4] = card /\ Ran(card, "sink_executed")'
  BY <1>1, <1>2, <1>4, RanStays DEF EventKey
<1> QED BY <1>2, <1>3, <1>4 DEF EventKey

\* What a waiting request knows stays true.
LEMMA RequestStays ==
    ASSUME Grows, NEW t, CallOK(t), RequestTrace(t)
    PROVE  RequestTrace(t)'
<1>1. t.todo = Source1 \/ t.todo = Source2 => SourceKey(t.key, t.card)'
  BY SourceKeyStays DEF RequestTrace
<1>2. t.todo = Source2 => Ran(t.card, "source_executed")'
  <2>1. t.todo = Source2 => t.card \in DOMAIN cards
    BY FirstSteps, Unfinished DEF CallOK
  <2> QED BY <2>1, RanStays DEF RequestTrace
<1>3. t.todo = Sink1 \/ t.todo = Sink2 => SinkKey(t.key, t.card)'
  BY DEF RequestTrace, SinkKey
<1>4. t.todo = Sink2 => Ran(t.card, "sink_executed")'
  <2>1. t.todo = Sink2 => t.card \in DOMAIN cards
    BY FirstSteps, Unfinished DEF CallOK, Production
  <2> QED BY <2>1, RanStays DEF RequestTrace
<1> QED BY <1>1, <1>2, <1>3, <1>4 DEF RequestTrace

\* What a step has to show.
LEMMA TraceStep ==
    ASSUME Core, Trace, Grows, KeyTrace', ReportsInOrder',
           \/ UNCHANGED call
           \/ \E c \in Client : \E u : call' = [call EXCEPT ![c] = u] /\ RequestTrace(u)'
    PROVE  Trace'
<1>1. call = [d \in Client |-> call[d]] /\ \A d \in Client : CallOK(call[d])
  BY DEF Core, CallsOK
<1>2. ASSUME NEW d \in Client, call'[d] = call[d] PROVE RequestTrace(call[d])'
  <2>1. PICK t : t = call[d]
    OBVIOUS
  <2>2. CallOK(t) /\ RequestTrace(t)
    BY <1>1, <2>1 DEF Trace
  <2>3. RequestTrace(t)'
    BY <2>2, RequestStays
  <2> QED BY <1>2, <2>1, <2>3
<1>3. CASE UNCHANGED call
  BY <1>2, <1>3 DEF Trace
<1>4. ASSUME NEW c \in Client, NEW u, call' = [call EXCEPT ![c] = u], RequestTrace(u)'
      PROVE  Trace'
  <2>1. call' = [d \in Client |-> IF d = c THEN u ELSE call[d]]
    BY <1>1, <1>4
  <2>2. ASSUME NEW d \in Client PROVE RequestTrace(call[d])'
    <3>1. CASE d = c
      <4>1. call'[d] = u
        BY <2>1, <3>1
      <4> QED BY <1>4, <4>1
    <3>2. CASE d # c
      BY <1>2, <2>1, <3>2
    <3> QED BY <3>1, <3>2
  <2> QED BY <2>2 DEF Trace
<1> QED BY <1>3, <1>4

\* What requests that will report have still to do.
Reporting == {Source1, Source2, Sink1, Sink2}

\* The other requests have something else to do.
LEMMA OtherSteps ==
    /\ << >> \notin Reporting /\ Work1 \notin Reporting /\ Work2 \notin Reporting
    /\ Shadow1 \notin Reporting /\ Shadow2 \notin Reporting /\ Completing \notin Reporting
    /\ Promoting1 \notin Reporting /\ Promoting2 \notin Reporting
BY FirstSteps, Unfinished DEF Reporting

\* So they keep the trace.
LEMMA OtherRequest ==
    ASSUME NEW u, u.todo \notin Reporting
    PROVE  RequestTrace(u)'
BY DEF RequestTrace, Reporting

\* A report after what it reports keeps the order.
LEMMA BeforeAppended ==
    ASSUME RuntimeOK, NEW card \in DOMAIN cards, NEW e, Appended(card, e),
           NEW first, NEW second, \A i \in DOMAIN cards : Before(i, first, second),
           e.type = second => Ran(card, first), NEW i \in DOMAIN cards'
    PROVE  Before(i, first, second)'
<1>1. i \in DOMAIN cards /\ DOMAIN history[i] = 1..Len(history[i]) /\ Len(history[i]) \in Nat
  BY DEF Appended, RuntimeOK, IsSequence
<1> SUFFICES ASSUME NEW y \in DOMAIN history'[i], history'[i][y].type = second
             PROVE  \E x \in 1..(y - 1) : history'[i][x].type = first
  BY DEF Before
<1>2. CASE y \in DOMAIN history[i] /\ history'[i][y] = history[i][y]
  <2>1. PICK x \in 1..(y - 1) : history[i][x].type = first
    BY <1>1, <1>2 DEF Before
  <2>2. x \in DOMAIN history[i]
    BY <1>1, <1>2, <2>1
  <2>3. history'[i][x] = history[i][x]
    BY <1>1, <2>2 DEF Appended
  <2> QED BY <2>1, <2>3
<1>3. CASE i = card /\ y = Len(history[card]) + 1
  <2>1. history'[i][y] = e
    BY <1>3 DEF Appended
  <2>2. PICK x \in DOMAIN history[card] : history[card][x].type = first
    BY <2>1 DEF Ran
  <2>3. history'[card][x] = history[card][x]
    BY <2>2 DEF Appended
  <2>4. x \in 1..(y - 1)
    BY <1>1, <1>3, <2>2
  <2> QED BY <1>3, <2>2, <2>3, <2>4
<1> QED BY <1>1, <1>2, <1>3 DEF Appended

\* An event under a key that names what was executed.
LEMMA TraceRecorded ==
    ASSUME RuntimeOK, Grows, KeyTrace, ReportsInOrder, NEW card \in DOMAIN cards, NEW e, NEW type,
           Appended(card, e), Keyed(e.key, type, card),
           e.type = "boundary_source_received" => Ran(card, "source_executed"),
           e.type = "boundary_sink_egressed" => Ran(card, "sink_executed"),
           type = "event" /\ e.key # NoKey => EventKey(e.key)'
    PROVE  KeyTrace' /\ ReportsInOrder'
<1>1. ReportsInOrder'
  <2>1. ASSUME NEW i \in DOMAIN cards'
        PROVE  /\ Before(i, "source_executed", "boundary_source_received")'
               /\ Before(i, "sink_executed", "boundary_sink_egressed")'
    <3>1. Before(i, "source_executed", "boundary_source_received")'
      BY BeforeAppended DEF ReportsInOrder
    <3>2. Before(i, "sink_executed", "boundary_sink_egressed")'
      BY BeforeAppended DEF ReportsInOrder
    <3> QED BY <3>1, <3>2
  <2> QED BY <2>1 DEF ReportsInOrder
<1>2. PICK key : key = e.key
  OBVIOUS
<1>3. Keyed(key, type, card) /\ (type = "event" /\ key # NoKey => EventKey(key)')
  BY <1>2
<1>4. NoKey \notin DOMAIN keys'
  BY <1>3 DEF Keyed, KeyTrace
<1>5. ASSUME NEW k \in DOMAIN keys', keys'[k].type = "event" PROVE EventKey(k)'
  <2>1. CASE k \in DOMAIN keys
    <3>1. EventKey(k)
      BY <1>3, <1>5, <2>1 DEF Keyed, KeyTrace
    <3> QED BY <2>1, <3>1, EventKeyStays
  <2>2. CASE k \notin DOMAIN keys
    <3>1. k = key /\ key # NoKey /\ type = "event"
      BY <1>3, <1>5, <2>2 DEF Keyed
    <3> QED BY <1>3, <3>1
  <2> QED BY <2>1, <2>2
<1> QED BY <1>1, <1>4, <1>5 DEF KeyTrace

\* A call that leaves the reports alone.
LEMMA TraceUnreported ==
    ASSUME RuntimeOK, Grows, KeyTrace, ReportsInOrder, Unreported
    PROVE  KeyTrace' /\ ReportsInOrder'
<1>1. CASE UNCHANGED <<cards, history, keys>>
  <2>1. ReportsInOrder'
    BY <1>1 DEF ReportsInOrder, Before
  <2>2. ASSUME NEW k \in DOMAIN keys', keys'[k].type = "event" PROVE EventKey(k)'
    <3>1. k \in DOMAIN keys /\ EventKey(k)
      BY <1>1, <2>2 DEF KeyTrace
    <3> QED BY <3>1, EventKeyStays
  <2>3. NoKey \notin DOMAIN keys'
    BY <1>1 DEF KeyTrace
  <2> QED BY <2>1, <2>2, <2>3 DEF KeyTrace
<1>2. ASSUME NEW card, NEW e, NEW type, Recorded(card, e, type), e.type \notin ReportType,
             type # "card", type # "event" \/ e.key = NoKey
      PROVE  KeyTrace' /\ ReportsInOrder'
  <2>1. card \in DOMAIN cards /\ Appended(card, e) /\ Keyed(e.key, type, card)
    BY <1>2 DEF Recorded
  <2>2. e.type # "boundary_source_received" /\ e.type # "boundary_sink_egressed"
    BY <1>2 DEF ReportType
  <2> QED BY <1>2, <2>1, <2>2, TraceRecorded
<1>3. ASSUME NEW card, NEW e, Made(card, e), e.type = "card_created"
      PROVE  KeyTrace' /\ ReportsInOrder'
  <2>1. PICK key : key = e.key
    OBVIOUS
  <2>2. /\ card \notin DOMAIN cards /\ DOMAIN cards' = DOMAIN cards \union {card}
        /\ DOMAIN history'[card] = {1} /\ history'[card][1] = e
        /\ \A i \in DOMAIN cards : history'[i] = history[i]
        /\ Keyed(key, "card", card)
    BY <1>3, <2>1 DEF Made
  <2>3. ReportsInOrder'
    BY <1>3, <2>2 DEF ReportsInOrder, Before
  <2>4. NoKey \notin DOMAIN keys'
    BY <2>2 DEF Keyed, KeyTrace
  <2>5. ASSUME NEW k \in DOMAIN keys', keys'[k].type = "event" PROVE EventKey(k)'
    <3>1. k \in DOMAIN keys
      BY <2>2, <2>5 DEF Keyed
    <3>2. EventKey(k)
      BY <2>2, <2>5, <3>1 DEF Keyed, KeyTrace
    <3> QED BY <3>1, <3>2, EventKeyStays
  <2> QED BY <2>3, <2>4, <2>5 DEF KeyTrace
<1> QED BY <1>1, <1>2, <1>3 DEF Unreported

\* A submission leaves the reports alone, too.
LEMMA TraceSubmitted ==
    ASSUME RuntimeOK, Grows, KeyTrace, ReportsInOrder, NEW card, NEW k, Submitted(card, k)
    PROVE  KeyTrace' /\ ReportsInOrder'
<1>1. CASE UNCHANGED <<cards, history, keys>>
  <2>1. Unreported
    BY <1>1 DEF Unreported
  <2> QED BY <2>1, TraceUnreported
<1>2. ASSUME NEW e, Recorded(card, e, "artifacts"), e.type = "artifact_submitted"
      PROVE  KeyTrace' /\ ReportsInOrder'
  <2>1. card \in DOMAIN cards /\ Appended(card, e) /\ Keyed(e.key, "artifacts", card)
    BY <1>2 DEF Recorded
  <2> QED BY <1>2, <2>1, TraceRecorded
<1> QED BY <1>1, <1>2 DEF Submitted

-----------------------------------------------------------------------------
(* The four reports.                                                        *)

\* The segments a suffix leaves in their places.
LEMMA SuffixedParts ==
    ASSUME NEW k, IsSequence(k), k # NoKey, NEW s, NEW a, a = Suffixed(k, s)
    PROVE  /\ a = Append(k, s) /\ a # NoKey /\ IsSequence(a) /\ a[1] = k[1]
           /\ Len(k) >= 4 => a[4] = k[4]
<1>1. a = Append(k, s)
  BY DEF Suffixed
<1>2. Len(k) \in Nat /\ Len(k) > 0
  BY DEF IsSequence, NoKey
<1>3. /\ IsSequence(Append(k, s)) /\ Len(k) \in Nat /\ DOMAIN k = 1..Len(k)
      /\ DOMAIN Append(k, s) = DOMAIN k \union {Len(k) + 1}
      /\ \A i \in DOMAIN k : Append(k, s)[i] = k[i]
  BY SequenceAppend
<1>4. a[1] = k[1] /\ (Len(k) >= 4 => a[4] = k[4])
  BY <1>1, <1>2, <1>3
<1>5. a # NoKey
  <2>1. 1 \in DOMAIN a
    BY <1>1, <1>2, <1>3
  <2> QED BY <2>1 DEF NoKey
<1> QED BY <1>1, <1>3, <1>4, <1>5

\* A source's request that is answered from the key of its event had its
\* card's execution recorded: the key of an event determines the key of the
\* card.
LEMMA SourceAnswered ==
    ASSUME KeyTrace, NEW k, NEW card, SourceKey(k, card), NEW s, NEW a, a = Suffixed(k, s),
           Stored(a, "event")
    PROVE  Ran(card, "source_executed")
<1>1. a \in DOMAIN keys /\ keys[a].type = "event" /\ NoKey \notin DOMAIN keys
  BY DEF Stored, KeyTrace
<1>2. k # NoKey
  BY <1>1 DEF Suffixed
<1>3. IsSequence(k) /\ k[1] = "boundary-source" /\ keys[k].card = card
  BY <1>2 DEF SourceKey
<1>4. a = Append(k, s) /\ a[1] = "boundary-source"
  BY <1>2, <1>3, SuffixedParts
<1>5. EventKey(a)
  BY <1>1 DEF KeyTrace
<1>6. PICK j \in DOMAIN keys, r \in {"source", "event"} :
         SourceKey(j, keys[a].card) /\ a = Append(j, r)
  BY <1>4, <1>5 DEF EventKey
<1>7. IsSequence(j) /\ keys[j].card = keys[a].card
  BY <1>1, <1>6 DEF SourceKey
<1>8. j = k
  <2>1. Append(j, r) = Append(k, s)
    BY <1>4, <1>6
  <2> QED BY <1>3, <1>7, <2>1, AppendInjective
<1>9. keys[a].card = card
  BY <1>3, <1>7, <1>8
<1> QED BY <1>4, <1>5, <1>9 DEF EventKey

\* The request after a report.
LEMMA ReportedCall ==
    ASSUME Core, NEW c \in Client, Continue(c, Rest(c)), NEW t, t = call[c], NEW r, r = Rest(c)
    PROVE  \E u : /\ call' = [call EXCEPT ![c] = u] /\ u.todo = r
                  /\ r # << >> => u.card = t.card /\ u.key = t.key /\ u.node = t.node
<1>1. PICK ref : ref = call[c].ref
  OBVIOUS
<1>2. PICK data : data = call[c].data
  OBVIOUS
<1>3. Proceed(c, r, ref, data)
  BY <1>1, <1>2 DEF Continue
<1>4. IsCall(call[c]) /\ call = [d \in Client |-> call[d]]
  BY DEF Core, CallsOK, CallOK
<1> QED BY <1>3, <1>4, ProceedCall

\* A source records its execution, or what it received.
LEMMA SourceReport ==
    ASSUME Core, Trace, NEW c \in Client, NEW step \in {"source_executed", "boundary_source_received"},
           At(c, step), NEW s \in {"source", "event"}, NEW e, e.type = step,
           e.key = Suffixed(call[c].key, s), record_event(call[c].card, e), Continue(c, Rest(c))
    PROVE  Trace'
<1>1. RuntimeOK /\ CallsOK /\ KeyTrace /\ ReportsInOrder
  BY DEF Core, Trace
<1>2. PICK t : t = call[c]
  OBVIOUS
<1>3. /\ CallOK(t) /\ IsCall(t) /\ t.todo # << >> /\ Head(t.todo) = step
      /\ Rest(c) = Tail(t.todo)
  BY <1>1, <1>2, AtStep
<1>4. RequestTrace(t)
  BY <1>2 DEF Trace
<1>5. /\ t.card \in DOMAIN cards
      /\ \/ t.todo = Source1 /\ step = "source_executed"
         \/ t.todo = Source2 /\ step = "boundary_source_received"
  BY <1>3, FirstSteps DEF CallOK
<1>6. /\ SourceKey(t.key, t.card)
      /\ step = "boundary_source_received" => Ran(t.card, "source_executed")
  BY <1>4, <1>5 DEF RequestTrace
<1>7. PICK a : a = Suffixed(t.key, s)
  OBVIOUS
<1>8. e.key = a
  BY <1>2, <1>7
<1>9. /\ RuntimeOK' /\ Grows
      /\ \/ Stored(a, "event") /\ UNCHANGED runtimeVars
         \/ Appended(t.card, e) /\ Keyed(a, "event", t.card)
  <2>1. record_event(t.card, e)
    BY <1>2
  <2> QED BY <1>1, <1>5, <1>8, <2>1, RecordCall
<1>10. Ran(t.card, "source_executed")'
  <2>1. CASE step = "boundary_source_received"
    BY <1>5, <1>6, <1>9, <2>1, RanStays
  <2>2. CASE Stored(a, "event")
    <3>1. Ran(t.card, "source_executed")
      BY <1>1, <1>6, <1>7, <2>2, SourceAnswered
    <3> QED BY <1>5, <1>9, <3>1, RanStays
  <2>3. CASE step = "source_executed" /\ Appended(t.card, e)
    BY <2>3 DEF Ran, Appended
  <2> QED BY <1>9, <2>1, <2>2, <2>3
<1>11. KeyTrace' /\ ReportsInOrder'
  <2>1. CASE UNCHANGED runtimeVars
    <3>1. Unreported
      BY <2>1 DEF Unreported, runtimeVars
    <3> QED BY <1>1, <1>9, <3>1, TraceUnreported
  <2>2. CASE Appended(t.card, e) /\ Keyed(a, "event", t.card)
    <3>1. a # NoKey => EventKey(a)'
      <4> SUFFICES ASSUME a # NoKey PROVE EventKey(a)'
        OBVIOUS
      <4>1. t.key # NoKey
        BY <1>7 DEF Suffixed
      <4>2. IsSequence(t.key) /\ t.key[1] = "boundary-source" /\ t.key \in DOMAIN keys
        BY <1>6, <4>1 DEF SourceKey, Stored
      <4>3. a = Append(t.key, s) /\ a[1] = "boundary-source"
        BY <1>7, <4>1, <4>2, SuffixedParts
      <4>4. SourceKey(t.key, t.card)' /\ t.key \in DOMAIN keys'
        BY <1>6, <1>9, <4>2, SourceKeyStays DEF Grows
      <4>5. keys'[a].card = t.card
        BY <2>2 DEF Keyed
      <4> QED BY <1>10, <4>3, <4>4, <4>5 DEF EventKey
    <3>2. e.type = "boundary_source_received" => Ran(t.card, "source_executed")
      BY <1>6
    <3>3. e.type # "boundary_sink_egressed"
      OBVIOUS
    <3>4. Keyed(e.key, "event", t.card) /\ (e.key # NoKey => EventKey(e.key)')
      BY <1>8, <2>2, <3>1
    <3> QED BY <1>1, <1>5, <1>9, <2>2, <3>2, <3>3, <3>4, TraceRecorded
  <2> QED BY <1>9, <2>1, <2>2
<1>12. PICK r : r = Rest(c)
  OBVIOUS
<1>13. PICK u : /\ call' = [call EXCEPT ![c] = u] /\ u.todo = r
                /\ r # << >> => u.card = t.card /\ u.key = t.key /\ u.node = t.node
  BY <1>2, <1>12, ReportedCall
<1>14. RequestTrace(u)'
  <2>1. CASE t.todo = Source1
    <3>1. u.todo = Source2 /\ u.card = t.card /\ u.key = t.key
      BY <1>3, <1>12, <1>13, <2>1, LaterSteps, Unfinished
    <3>2. SourceKey(t.key, t.card)'
      BY <1>6, <1>9, SourceKeyStays
    <3>3. Source2 # Sink1 /\ Source2 # Sink2
      BY FirstSteps
    <3> QED BY <1>10, <3>1, <3>2, <3>3 DEF RequestTrace
  <2>2. CASE t.todo = Source2
    BY <1>3, <1>12, <1>13, <2>2, LaterSteps, OtherSteps, OtherRequest
  <2> QED BY <1>5, <2>1, <2>2
<1> QED BY <1>9, <1>11, <1>13, <1>14, TraceStep

\* A sink records its execution, or what it sent.
LEMMA SinkReport ==
    ASSUME Core, Trace, NEW c \in Client, NEW step \in {"sink_executed", "boundary_sink_egressed"},
           At(c, step), NEW e, e.type = step,
           e.key \in {call[c].key, Suffixed(call[c].key, "event")},
           record_event(call[c].card, e), Continue(c, Rest(c))
    PROVE  Trace'
<1>1. RuntimeOK /\ CallsOK /\ KeyTrace /\ ReportsInOrder
  BY DEF Core, Trace
<1>2. PICK t : t = call[c]
  OBVIOUS
<1>3. /\ CallOK(t) /\ IsCall(t) /\ t.todo # << >> /\ Head(t.todo) = step
      /\ Rest(c) = Tail(t.todo)
  BY <1>1, <1>2, AtStep
<1>4. RequestTrace(t)
  BY <1>2 DEF Trace
<1>5. /\ t.card \in DOMAIN cards
      /\ \/ t.todo = Sink1 /\ step = "sink_executed"
         \/ t.todo = Sink2 /\ step = "boundary_sink_egressed"
  BY <1>3, FirstSteps DEF CallOK, Production
<1>6. /\ SinkKey(t.key, t.card)
      /\ step = "boundary_sink_egressed" => Ran(t.card, "sink_executed")
  BY <1>4, <1>5 DEF RequestTrace
<1>7. PICK a : a = e.key
  OBVIOUS
<1>8. a = NoKey \/ (a # NoKey /\ a[1] = "boundary-sink" /\ a[4] = t.card)
  <2>1. CASE t.key = NoKey
    BY <1>2, <1>7, <2>1 DEF Suffixed
  <2>2. CASE t.key # NoKey
    <3>1. /\ IsSequence(t.key) /\ Len(t.key) >= 4 /\ t.key[1] = "boundary-sink"
          /\ t.key[4] = t.card
      BY <1>6, <2>2 DEF SinkKey
    <3>2. PICK b : b = Suffixed(t.key, "event")
      OBVIOUS
    <3>3. b[1] = t.key[1] /\ b[4] = t.key[4]
      BY <2>2, <3>1, <3>2, SuffixedParts
    <3>4. a = t.key \/ a = b
      BY <1>2, <1>7, <3>2
    <3> QED BY <3>1, <3>3, <3>4
  <2> QED BY <2>1, <2>2
<1>9. /\ RuntimeOK' /\ Grows
      /\ \/ Stored(a, "event") /\ UNCHANGED runtimeVars
         \/ Appended(t.card, e) /\ Keyed(a, "event", t.card)
  <2>1. record_event(t.card, e)
    BY <1>2
  <2> QED BY <1>1, <1>5, <1>7, <2>1, RecordCall
<1>10. Ran(t.card, "sink_executed")'
  <2>1. CASE step = "boundary_sink_egressed"
    BY <1>5, <1>6, <1>9, <2>1, RanStays
  <2>2. CASE Stored(a, "event")
    <3>1. Ran(t.card, "sink_executed")
      BY <1>1, <1>8, <2>2 DEF KeyTrace, Stored, EventKey
    <3> QED BY <1>5, <1>9, <3>1, RanStays
  <2>3. CASE step = "sink_executed" /\ Appended(t.card, e)
    BY <2>3 DEF Ran, Appended
  <2> QED BY <1>9, <2>1, <2>2, <2>3
<1>11. KeyTrace' /\ ReportsInOrder'
  <2>1. CASE UNCHANGED runtimeVars
    <3>1. Unreported
      BY <2>1 DEF Unreported, runtimeVars
    <3> QED BY <1>1, <1>9, <3>1, TraceUnreported
  <2>2. CASE Appended(t.card, e) /\ Keyed(a, "event", t.card)
    <3>1. a # NoKey => EventKey(a)'
      <4> SUFFICES ASSUME a # NoKey PROVE EventKey(a)'
        OBVIOUS
      <4>1. keys'[a].card = t.card
        BY <2>2 DEF Keyed
      <4> QED BY <1>8, <1>10, <4>1 DEF EventKey
    <3>2. e.type = "boundary_sink_egressed" => Ran(t.card, "sink_executed")
      BY <1>6
    <3>3. e.type # "boundary_source_received"
      OBVIOUS
    <3>4. Keyed(e.key, "event", t.card) /\ (e.key # NoKey => EventKey(e.key)')
      BY <1>7, <2>2, <3>1
    <3> QED BY <1>1, <1>5, <1>9, <2>2, <3>2, <3>3, <3>4, TraceRecorded
  <2> QED BY <1>9, <2>1, <2>2
<1>12. PICK r : r = Rest(c)
  OBVIOUS
<1>13. PICK u : /\ call' = [call EXCEPT ![c] = u] /\ u.todo = r
                /\ r # << >> => u.card = t.card /\ u.key = t.key /\ u.node = t.node
  BY <1>2, <1>12, ReportedCall
<1>14. RequestTrace(u)'
  <2>1. CASE t.todo = Sink1
    <3>1. u.todo = Sink2 /\ u.card = t.card /\ u.key = t.key
      BY <1>3, <1>12, <1>13, <2>1, LaterSteps, Unfinished
    <3>2. SinkKey(t.key, t.card)'
      BY <1>6 DEF SinkKey
    <3>3. Sink2 # Source1 /\ Sink2 # Source2
      BY FirstSteps
    <3> QED BY <1>10, <3>1, <3>2, <3>3 DEF RequestTrace
  <2>2. CASE t.todo = Sink2
    BY <1>3, <1>12, <1>13, <2>2, LaterSteps, OtherSteps, OtherRequest
  <2> QED BY <1>5, <2>1, <2>2
<1> QED BY <1>9, <1>11, <1>13, <1>14, TraceStep

-----------------------------------------------------------------------------
(* Every step keeps the trace.                                              *)

\* A step whose calls report nothing.
LEMMA UnreportedStep ==
    ASSUME Core, Trace, Grows, Unreported,
           \/ UNCHANGED call
           \/ \E c \in Client : \E u : call' = [call EXCEPT ![c] = u] /\ RequestTrace(u)'
    PROVE  Trace'
<1>1. KeyTrace' /\ ReportsInOrder'
  BY TraceUnreported DEF Core, Trace
<1> QED BY <1>1, TraceStep

\* A step that calls the runtime for nothing.
LEMMA QuietTrace ==
    ASSUME Core, Trace, UNCHANGED runtimeVars,
           \/ UNCHANGED call
           \/ \E c \in Client : \E u : call' = [call EXCEPT ![c] = u] /\ u.todo \notin Reporting
    PROVE  Trace'
<1>1. Grows
  BY NoChange DEF Core
<1>2. Unreported
  BY DEF Unreported, runtimeVars
<1> QED BY <1>1, <1>2, OtherRequest, UnreportedStep

\* The shadow service records something else, under no key.
LEMMA ShadowTrace ==
    ASSUME Core, Trace, NEW c \in Client, NEW step \in {"shadow_created", "shadow_completed"},
           RecordShadow(c, step)
    PROVE  Trace'
<1>1. RuntimeOK /\ CallsOK
  BY DEF Core
<1>2. PICK t : t = call[c]
  OBVIOUS
<1>3. PICK e : e = MkEvent(step, None, None, None, call[c].ref, NoKey)
  OBVIOUS
<1>4. At(c, step) /\ record_event(t.card, e) /\ Continue(c, Rest(c))
  BY <1>2, <1>3 DEF RecordShadow
<1>5. e.type = step /\ e.key = NoKey
  BY <1>3 DEF MkEvent
<1>6. /\ CallOK(t) /\ t.todo # << >> /\ Head(t.todo) = step /\ Rest(c) = Tail(t.todo)
  BY <1>1, <1>2, <1>4, AtStep
<1>7. t.card \in DOMAIN cards /\ t.todo \in {Shadow2, Completing}
  BY <1>6, FirstSteps DEF CallOK
<1>8. /\ RuntimeOK' /\ Grows
      /\ UNCHANGED runtimeVars \/ (Appended(t.card, e) /\ Keyed(e.key, "event", t.card))
  BY <1>1, <1>4, <1>7, RecordCall
<1>9. Unreported
  <2>1. CASE UNCHANGED runtimeVars
    BY <2>1 DEF Unreported, runtimeVars
  <2>2. CASE Appended(t.card, e) /\ Keyed(e.key, "event", t.card)
    <3>1. Recorded(t.card, e, "event") /\ e.type \notin ReportType
      BY <1>5, <1>7, <2>2 DEF Recorded, ReportType
    <3> QED BY <1>5, <3>1 DEF Unreported
  <2> QED BY <1>8, <2>1, <2>2
<1>10. PICK r : r = Rest(c)
  OBVIOUS
<1>11. PICK u : /\ call' = [call EXCEPT ![c] = u] /\ u.todo = r
                /\ r # << >> => u.card = t.card /\ u.key = t.key /\ u.node = t.node
  BY <1>2, <1>4, <1>10, ReportedCall
<1>12. u.todo = << >>
  BY <1>6, <1>7, <1>10, <1>11, LaterSteps
<1>13. RequestTrace(u)'
  BY <1>12, OtherSteps, OtherRequest
<1> QED BY <1>8, <1>9, <1>11, <1>13, UnreportedStep

\* The six records of adapters and of the shadow service.
LEMMA RecordTraces ==
    ASSUME Core, Trace, NEW c \in Client,
           \/ RecordSource(c) \/ RecordSink(c)
           \/ RecordBoundary(c, "boundary_source_received")
           \/ RecordBoundary(c, "boundary_sink_egressed")
           \/ RecordShadow(c, "shadow_created") \/ RecordShadow(c, "shadow_completed")
    PROVE  Trace'
<1>1. CASE RecordSource(c)
  <2>1. PICK e : e = MkEvent("source_executed", call[c].node, None, None, None,
                             Suffixed(call[c].key, "source"))
    OBVIOUS
  <2>2. e.type = "source_executed" /\ e.key = Suffixed(call[c].key, "source")
    BY <2>1 DEF MkEvent
  <2>3. At(c, "source_executed") /\ record_event(call[c].card, e) /\ Continue(c, Rest(c))
    BY <1>1, <2>1 DEF RecordSource, SourceRecorded
  <2> QED BY <2>2, <2>3, SourceReport
<1>2. CASE RecordSink(c)
  <2>1. PICK e : e = MkEvent("sink_executed", call[c].node, None, None, call[c].ref, call[c].key)
    OBVIOUS
  <2>2. e.type = "sink_executed" /\ e.key \in {call[c].key, Suffixed(call[c].key, "event")}
    BY <2>1 DEF MkEvent
  <2>3. At(c, "sink_executed") /\ record_event(call[c].card, e) /\ Continue(c, Rest(c))
    BY <1>2, <2>1 DEF RecordSink, SinkRecorded
  <2> QED BY <2>2, <2>3, SinkReport
<1>3. CASE RecordBoundary(c, "boundary_source_received")
  <2>1. PICK e : e = MkEvent("boundary_source_received", call[c].node, None, None, call[c].ref,
                             Suffixed(call[c].key, "event"))
    OBVIOUS
  <2>2. e.type = "boundary_source_received" /\ e.key = Suffixed(call[c].key, "event")
    BY <2>1 DEF MkEvent
  <2>3. /\ At(c, "boundary_source_received") /\ record_event(call[c].card, e)
        /\ Continue(c, Rest(c))
    BY <1>3, <2>1 DEF RecordBoundary
  <2> QED BY <2>2, <2>3, SourceReport
<1>4. CASE RecordBoundary(c, "boundary_sink_egressed")
  <2>1. PICK e : e = MkEvent("boundary_sink_egressed", call[c].node, None, None, call[c].ref,
                             Suffixed(call[c].key, "event"))
    OBVIOUS
  <2>2. /\ e.type = "boundary_sink_egressed"
        /\ e.key \in {call[c].key, Suffixed(call[c].key, "event")}
    BY <2>1 DEF MkEvent
  <2>3. /\ At(c, "boundary_sink_egressed") /\ record_event(call[c].card, e)
        /\ Continue(c, Rest(c))
    BY <1>4, <2>1 DEF RecordBoundary
  <2> QED BY <2>2, <2>3, SinkReport
<1> QED BY <1>1, <1>2, <1>3, <1>4, ShadowTrace

\* The card is what the key is stored with.
KeyOfCard(k, card) == Stored(k, "card") /\ keys[k].card = card

\* It is after the card was made, or found under the key.
LEMMA CreatedUnderKey ==
    ASSUME RuntimeOK, NEW id, NEW payload, NEW shadow, NEW k, k # NoKey, NEW card,
           create_card(id, payload, shadow, k, card)
    PROVE  KeyOfCard(k, card)'
<1>1. /\ RuntimeOK' /\ Grows /\ registered' = registered
      /\ card \in DOMAIN cards'
      /\ \/ Stored(k, "card") /\ card = keys[k].card /\ UNCHANGED runtimeVars
         \/ /\ card \notin DOMAIN cards /\ DOMAIN cards' = DOMAIN cards \union {card}
            /\ cards'[card].panel \in ActivePanels(id)
            /\ cards'[card].payload = payload /\ cards'[card].shadow = shadow
            /\ history'[card] = <<MkEvent("card_created", None, None, None, None, k)>>
            /\ \A i \in DOMAIN cards : cards'[i] = cards[i] /\ history'[i] = history[i]
            /\ Keyed(k, "card", card)
  BY CreateCall
<1>2. CASE Stored(k, "card") /\ card = keys[k].card /\ UNCHANGED runtimeVars
  BY <1>2 DEF runtimeVars, Stored, KeyOfCard
<1>3. CASE Keyed(k, "card", card)
  BY <1>3 DEF Keyed, Stored, KeyOfCard
<1> QED BY <1>1, <1>2, <1>3

\* The card of a delivery is the one its key is stored with.
LEMMA BoundarySourceTrace ==
    ASSUME KeysNameCards, Core, Trace, NEW c \in Client, NEW p \in registered,
           NEW n \in Node(Def(p)), NEW payload, NEW d \in Dedup, NEW token,
           BoundarySource(c, p, n, payload, d, token)
    PROVE  Trace'
<1>1. PICK dedup : dedup = deduplication_key(n, d)
  OBVIOUS
<1>2. PICK k : k = BoundaryKey("boundary-source", p, n, dedup)
  OBVIOUS
<1>3. dedup \in {d, NoKey} /\ (k = NoKey \/ k = BoundaryKey("boundary-source", p, n, d))
  BY <1>1, <1>2 DEF BoundaryKey, deduplication_key
<1>4. p \in ValidPanels
  BY DEF Core, RuntimeOK
<1>5. Isolated => k \notin Key \ {NoKey}
  BY <1>3, <1>4 DEF Isolated
<1>6. PICK card \in 1..MaxCards :
         /\ create_card(Def(p).id, Ingress(payload, n.id, dedup), FALSE, k, card)
         /\ call' = [call EXCEPT ![c] = MkCall(SourceSteps, n.id, card, k, None)]
  BY <1>1, <1>2 DEF BoundarySource, execute_source
<1>7. /\ Grows /\ Unreported
      /\ k # NoKey => Stored(k, "card")' /\ keys'[k].card = card
  <2>1. UNCHANGED leases
    BY DEF BoundarySource
  <2>2. RuntimeOK /\ HistoryOK /\ KeysOK
    BY DEF Core
  <2>3. Grows /\ Unreported
    BY <1>5, <1>6, <2>1, <2>2, CreateEffects
  <2>4. ASSUME k # NoKey PROVE KeyOfCard(k, card)'
    BY <1>6, <2>2, <2>4, CreatedUnderKey
  <2> QED BY <2>3, <2>4 DEF KeyOfCard
<1>8. SourceKey(k, card)'
  <2>1. k = NoKey \/ (IsSequence(k) /\ k # NoKey /\ k[1] = "boundary-source")
    BY <1>2, <1>3, <1>4, SourceKeyParts DEF KeysNameCards
  <2> QED BY <1>7, <2>1 DEF SourceKey
<1>9. PICK u : u = MkCall(SourceSteps, n.id, card, k, None)
  OBVIOUS
<1>10. u.todo = Source1 /\ u.card = card /\ u.key = k
  BY <1>9, BeginCall DEF SourceSteps, Source1
<1>11. RequestTrace(u)'
  <2>1. Source1 # Source2 /\ Source1 # Sink1 /\ Source1 # Sink2
    BY FirstSteps
  <2> QED BY <1>8, <1>10, <2>1 DEF RequestTrace
<1> QED BY <1>6, <1>7, <1>9, <1>11, UnreportedStep

\* The key of an egress names the card.
LEMMA BoundarySinkTrace ==
    ASSUME KeysNameCards, Core, Trace, NEW c \in Client, NEW p \in registered,
           NEW n \in Node(Def(p)), NEW card \in DOMAIN cards, NEW external, NEW token,
           BoundarySink(c, p, n, card, external, token)
    PROVE  Trace'
<1>1. PICK k : k = BoundaryKey("boundary-sink", p, n, render_template(n, card, external))
  OBVIOUS
<1>2. PICK v : v = MkCall(<<"sink_executed", "boundary_sink_egressed">>, n.id, card, k, None)
  OBVIOUS
<1>3. PICK u : u = [v EXCEPT !.ref = external]
  OBVIOUS
<1>4. n.type = "sink" /\ call' = [call EXCEPT ![c] = u] /\ UNCHANGED runtimeVars
  BY <1>1, <1>2, <1>3 DEF BoundarySink, execute_sink
<1>5. IsCall(v) /\ v.todo = Sink1 /\ v.card = card /\ v.key = k
  BY <1>2, BeginCall DEF Sink1
<1>6. u.todo = Sink1 /\ u.card = card /\ u.key = k
  BY <1>3, <1>5 DEF IsCall
<1>7. p \in ValidPanels
  BY DEF Core, RuntimeOK
<1>8. SinkKey(k, card)
  BY <1>1, <1>4, <1>7, SinkKeyParts
<1>9. RequestTrace(u)'
  <2>1. SinkKey(k, card)'
    BY <1>8 DEF SinkKey
  <2>2. Sink1 # Source1 /\ Sink1 # Source2 /\ Sink1 # Sink2
    BY FirstSteps
  <2> QED BY <1>6, <2>1, <2>2 DEF RequestTrace
<1>10. Grows
  BY <1>4, NoChange DEF Core
<1>11. Unreported
  BY <1>4 DEF Unreported, runtimeVars
<1> QED BY <1>4, <1>9, <1>10, <1>11, UnreportedStep

\* Workers report nothing of adapters.
LEMMA WorkerTrace ==
    ASSUME Core, Trace, NEW c \in Client,
           \/ \E p, pipe, out, worker, k : ExecuteWorker(c, p, pipe, out, worker, k)
           \/ Submit(c) \/ Check(c)
    PROVE  Trace'
<1>1. CallsOK
  BY DEF Core
<1>2. ASSUME NEW p, NEW pipe, NEW out, NEW worker, NEW k, ExecuteWorker(c, p, pipe, out, worker, k)
      PROVE  Trace'
  <2>1. PICK n \in WorkerNode(Def(p), pipe), l \in 1..MaxLeases :
            /\ claim_card(pipe, worker, Suffixed(k, "claim"), l)
            /\ call' = [call EXCEPT ![c] =
                  MkCall(<<"submit", "check">>, n.id, leases'[l].card, k,
                         [lease |-> l, out |-> out, panel |-> p])]
    BY <1>2 DEF ExecuteWorker
  <2>2. Grows /\ Unreported
    BY <2>1, ClaimEffects
  <2>3. PICK u : u = MkCall(<<"submit", "check">>, n.id, leases'[l].card, k,
                            [lease |-> l, out |-> out, panel |-> p])
    OBVIOUS
  <2>4. u.todo = Work1
    BY <2>3 DEF MkCall, Work1
  <2>5. RequestTrace(u)'
    BY <2>4, OtherSteps, OtherRequest
  <2> QED BY <2>1, <2>2, <2>3, <2>5, UnreportedStep
<1>3. PICK t : t = call[c]
  OBVIOUS
<1>4. PICK r : r = Rest(c)
  OBVIOUS
<1>5. CASE Submit(c)
  <2>1. At(c, "submit") /\ Continue(c, Rest(c))
    BY <1>5 DEF Submit
  <2>2. CallOK(t) /\ t.todo # << >> /\ Head(t.todo) = "submit" /\ Rest(c) = Tail(t.todo)
    BY <1>1, <1>3, <2>1, AtStep
  <2>3. t.todo = Work1 /\ t.data.lease \in DOMAIN leases
    BY <2>2, FirstSteps DEF CallOK
  <2>4. Grows /\ KeyTrace' /\ ReportsInOrder'
    <3>1. PICK k : k = Suffixed(call[c].key, "submit")
      OBVIOUS
    <3>2. submit_artifact(t.data.lease, t.data.out, k)
      BY <1>3, <1>5, <3>1 DEF Submit
    <3>3. PICK l \in DOMAIN leases : l = t.data.lease
      BY <2>3
    <3>4. Grows /\ Submitted(leases[l].card, k)
      BY <3>2, <3>3, SubmitEffects
    <3> QED BY <3>4, TraceSubmitted DEF Core, Trace
  <2>5. PICK u : /\ call' = [call EXCEPT ![c] = u] /\ u.todo = r
                 /\ r # << >> => u.card = t.card /\ u.key = t.key /\ u.node = t.node
    BY <1>3, <1>4, <2>1, ReportedCall
  <2>6. u.todo = Work2
    BY <1>4, <2>2, <2>3, <2>5, LaterSteps
  <2>7. RequestTrace(u)'
    BY <2>6, OtherSteps, OtherRequest
  <2> QED BY <2>4, <2>5, <2>7, TraceStep
<1>6. CASE Check(c)
  <2>1. At(c, "check") /\ Continue(c, Rest(c)) /\ UNCHANGED runtimeVars
    BY <1>6 DEF Check
  <2>2. CallOK(t) /\ t.todo # << >> /\ Head(t.todo) = "check" /\ Rest(c) = Tail(t.todo)
    BY <1>1, <1>3, <2>1, AtStep
  <2>3. t.todo = Work2
    BY <2>2, FirstSteps DEF CallOK
  <2>4. PICK u : /\ call' = [call EXCEPT ![c] = u] /\ u.todo = r
                 /\ r # << >> => u.card = t.card /\ u.key = t.key /\ u.node = t.node
    BY <1>3, <1>4, <2>1, ReportedCall
  <2>5. u.todo \notin Reporting
    BY <1>4, <2>2, <2>3, <2>4, LaterSteps, OtherSteps
  <2> QED BY <2>1, <2>4, <2>5, QuietTrace
<1> QED BY <1>2, <1>5, <1>6

\* Nor does the shadow service, ...
LEMMA ShadowServiceTrace ==
    ASSUME Core, Trace, NEW c \in Client,
           \/ \E card, k : StartShadow(c, card, k)
           \/ CreateShadow(c)
           \/ \E i : CompleteShadow(c, i)
    PROVE  Trace'
<1>1. ASSUME NEW card, NEW k, StartShadow(c, card, k) PROVE Trace'
  <2>1. PICK u : u = MkCall(<<"shadow_card", "shadow_created">>, None, card, k, None)
    OBVIOUS
  <2>2. call' = [call EXCEPT ![c] = u] /\ UNCHANGED runtimeVars
    BY <1>1, <2>1 DEF StartShadow
  <2>3. u.todo = Shadow1
    BY <2>1 DEF MkCall, Shadow1
  <2> QED BY <2>2, <2>3, OtherSteps, QuietTrace
<1>2. CASE CreateShadow(c)
  <2>1. PICK t : t = call[c]
    OBVIOUS
  <2>2. At(c, "shadow_card") /\ UNCHANGED leases
    BY <1>2 DEF CreateShadow
  <2>3. CallOK(t) /\ IsCall(t) /\ t.todo # << >> /\ Head(t.todo) = "shadow_card"
        /\ Rest(c) = Tail(t.todo)
    BY <2>1, <2>2, AtStep DEF Core
  <2>4. t.todo = Shadow1
    BY <2>3, FirstSteps DEF CallOK
  <2>5. PICK s \in 1..MaxCards :
           ShadowCard(t.card, t.key, s) /\ Proceed(c, Rest(c), s, None)
    BY <1>2, <2>1 DEF CreateShadow
  <2>6. Grows /\ Unreported
    <3>1. create_card(split_panel_id(t.card), cards[t.card].payload, TRUE, t.key, s)
      BY <2>5 DEF ShadowCard
    <3>2. RuntimeOK /\ HistoryOK /\ KeysOK
      BY DEF Core
    <3> QED BY <2>2, <3>1, <3>2, CreateEffects
  <2>7. PICK r : r = Rest(c)
    OBVIOUS
  <2>8. r = Shadow2 /\ r # << >>
    BY <2>3, <2>4, <2>7, LaterSteps, Unfinished
  <2>9. PICK u : call' = [call EXCEPT ![c] = u] /\ u.todo = r
    <3>1. IsCall(call[c]) /\ call = [d \in Client |-> call[d]]
      BY DEF Core, CallsOK, CallOK
    <3>2. Proceed(c, r, s, None)
      BY <2>5, <2>7
    <3> QED BY <2>8, <3>1, <3>2, ProceedCall
  <2>10. RequestTrace(u)'
    BY <2>8, <2>9, OtherSteps, OtherRequest
  <2> QED BY <2>6, <2>9, <2>10, UnreportedStep
<1>3. ASSUME NEW i, CompleteShadow(c, i) PROVE Trace'
  <2>1. PICK v : v = MkCall(<<"shadow_completed">>, None, links[i].production, NoKey, None)
    OBVIOUS
  <2>2. PICK u : u = [v EXCEPT !.ref = links[i].shadow]
    OBVIOUS
  <2>3. call' = [call EXCEPT ![c] = u] /\ UNCHANGED runtimeVars
    BY <1>3, <2>1, <2>2 DEF CompleteShadow
  <2>4. IsCall(v) /\ v.todo = Completing
    BY <2>1, BeginCall DEF Completing
  <2>5. u.todo = Completing
    BY <2>2, <2>4 DEF IsCall
  <2> QED BY <2>3, <2>5, OtherSteps, QuietTrace
<1> QED BY <1>1, <1>2, <1>3

\* ... a promotion, or a request that ends where it is.
LEMMA PromotionTrace ==
    ASSUME Core, Trace, NEW c \in Client,
           (\E i, p : StartPromotion(c, i, p)) \/ RegisterPromoted(c) \/ MarkPromoted(c) \/ End(c)
    PROVE  Trace'
<1>1. ASSUME NEW i, NEW p, StartPromotion(c, i, p) PROVE Trace'
  <2>1. PICK data : data = [mutation |-> i, panel |-> p]
    OBVIOUS
  <2>2. PICK u : u = MkCall(PromotionSteps, None, 0, NoKey, data)
    OBVIOUS
  <2>3. call' = [call EXCEPT ![c] = u] /\ UNCHANGED runtimeVars
    BY <1>1, <2>1, <2>2 DEF StartPromotion
  <2>4. u.todo = Promoting1
    BY <2>2 DEF MkCall, Promoting1, PromotionSteps
  <2> QED BY <2>3, <2>4, OtherSteps, QuietTrace
<1>2. CASE RegisterPromoted(c)
  <2>1. PICK t : t = call[c]
    OBVIOUS
  <2>2. At(c, "register") /\ register_patch_panel(t.data.panel) /\ Continue(c, Rest(c))
    BY <1>2, <2>1 DEF RegisterPromoted
  <2>3. PICK p : p = t.data.panel
    OBVIOUS
  <2>4. /\ RuntimeOK' /\ Grows /\ UNCHANGED <<cards, history, keys>>
        /\ \E q \in registered' : SameVersion(q, p)
    BY <2>2, <2>3, RegisterCall DEF Core
  <2>5. Unreported
    BY <2>4 DEF Unreported
  <2>6. CallOK(t) /\ t.todo # << >> /\ Head(t.todo) = "register" /\ Rest(c) = Tail(t.todo)
    BY <2>1, <2>2, AtStep DEF Core
  <2>7. t.todo = Promoting1
    BY <2>6, FirstSteps DEF CallOK
  <2>8. PICK r : r = Rest(c)
    OBVIOUS
  <2>9. PICK u : /\ call' = [call EXCEPT ![c] = u] /\ u.todo = r
                 /\ r # << >> => u.card = t.card /\ u.key = t.key /\ u.node = t.node
    BY <2>1, <2>2, <2>8, ReportedCall
  <2>10. RequestTrace(u)'
    BY <2>6, <2>7, <2>8, <2>9, LaterSteps, OtherSteps, OtherRequest
  <2> QED BY <2>4, <2>5, <2>9, <2>10, UnreportedStep
<1>4. CASE MarkPromoted(c)
  <2>1. PICK t : t = call[c]
    OBVIOUS
  <2>2. At(c, "promoted") /\ Continue(c, Rest(c)) /\ UNCHANGED runtimeVars
    BY <1>4 DEF MarkPromoted
  <2>3. CallOK(t) /\ t.todo # << >> /\ Head(t.todo) = "promoted" /\ Rest(c) = Tail(t.todo)
    BY <2>1, <2>2, AtStep DEF Core
  <2>4. t.todo = Promoting2
    BY <2>3, FirstSteps DEF CallOK
  <2>5. PICK r : r = Rest(c)
    OBVIOUS
  <2>6. PICK u : /\ call' = [call EXCEPT ![c] = u] /\ u.todo = r
                 /\ r # << >> => u.card = t.card /\ u.key = t.key /\ u.node = t.node
    BY <2>1, <2>2, <2>5, ReportedCall
  <2>7. u.todo \notin Reporting
    BY <2>3, <2>4, <2>5, <2>6, LaterSteps, OtherSteps
  <2> QED BY <2>2, <2>6, <2>7, QuietTrace
<1>3. CASE End(c)
  <2>1. call' = [call EXCEPT ![c] = Idle] /\ UNCHANGED runtimeVars
    BY <1>3 DEF End, Abort
  <2>2. PICK u : u = Idle
    OBVIOUS
  <2>3. u.todo = << >>
    BY <2>2 DEF Idle, MkCall
  <2> QED BY <2>1, <2>2, <2>3, OtherSteps, QuietTrace
<1> QED BY <1>1, <1>2, <1>3, <1>4

\* A restart leaves no request.
LEMMA RestartTrace ==
    ASSUME Core, Trace, Restart
    PROVE  Trace'
<1>1. UNCHANGED runtimeVars /\ call' = [c \in Client |-> Idle]
  BY DEF Restart
<1>2. KeyTrace' /\ ReportsInOrder'
  <2>1. Grows
    BY <1>1, NoChange DEF Core
  <2>2. Unreported
    BY <1>1 DEF Unreported, runtimeVars
  <2> QED BY <2>1, <2>2, TraceUnreported DEF Core, Trace
<1>3. ASSUME NEW c \in Client PROVE RequestTrace(call[c])'
  <2>1. PICK u : u = Idle
    OBVIOUS
  <2>2. u.todo = << >>
    BY <2>1 DEF Idle, MkCall
  <2>3. RequestTrace(u)'
    BY <2>2, OtherSteps, OtherRequest
  <2>4. call'[c] = u
    BY <1>1, <2>1
  <2> QED BY <2>3, <2>4
<1> QED BY <1>2, <1>3 DEF Trace

\* A new deployment has reported nothing.
LEMMA TraceInit == Init => Trace
<1> SUFFICES ASSUME Init PROVE Trace
  OBVIOUS
<1>1. DOMAIN << >> = {}
  OBVIOUS
<1>2. cards = << >> /\ keys = << >> /\ call = [c \in Client |-> Idle]
  BY DEF Init
<1>3. KeyTrace /\ ReportsInOrder
  BY <1>1, <1>2 DEF KeyTrace, ReportsInOrder
<1>4. ASSUME NEW c \in Client PROVE RequestTrace(call[c])
  <2>1. call[c].todo = << >>
    BY <1>2 DEF Idle, MkCall
  <2> QED BY <2>1, Unfinished DEF RequestTrace
<1> QED BY <1>3, <1>4 DEF Trace

\* Every step keeps the trace.
LEMMA TraceNext ==
    ASSUME KeysNameCards, Core, Trace, [Next]_vars
    PROVE  Trace'
<1>1. ASSUME NEW c \in Client,
             \E p \in registered, payload \in Payload, d \in Dedup, token \in Token :
                \E n \in Node(Def(p)) : BoundarySource(c, p, n, payload, d, token)
      PROVE  Trace'
  BY <1>1, BoundarySourceTrace
<1>2. ASSUME NEW c \in Client,
             \E p \in registered, card \in DOMAIN cards, external \in External, token \in Token :
                \E n \in Node(Def(p)) : BoundarySink(c, p, n, card, external, token)
      PROVE  Trace'
  BY <1>2, BoundarySinkTrace
<1>3. ASSUME NEW c \in Client,
             \/ RecordSource(c) \/ RecordSink(c)
             \/ RecordBoundary(c, "boundary_source_received")
             \/ RecordBoundary(c, "boundary_sink_egressed")
             \/ RecordShadow(c, "shadow_created") \/ RecordShadow(c, "shadow_completed")
      PROVE  Trace'
  BY <1>3, RecordTraces
<1>4. ASSUME NEW c \in Client,
             \E p \in registered, worker \in Worker, k \in Key :
                \E n \in Node(Def(p)) :
                   \E pipe \in Elements(n.input_pipes), out \in Elements(n.output_pipes) :
                      ExecuteWorker(c, p, pipe, out, worker, k)
      PROVE  Trace'
  BY <1>4, WorkerTrace
<1>5. ASSUME NEW c \in Client,
             \/ Submit(c) \/ Check(c) \/ CreateShadow(c)
             \/ RegisterPromoted(c) \/ MarkPromoted(c) \/ End(c)
      PROVE  Trace'
  BY <1>5, WorkerTrace, ShadowServiceTrace, PromotionTrace
<1>6. ASSUME NEW c \in Client,
             \/ \E card \in DOMAIN cards, k \in Key : StartShadow(c, card, k)
             \/ \E i \in DOMAIN links : CompleteShadow(c, i)
             \/ \E i \in DOMAIN mutations, p \in Release : StartPromotion(c, i, p)
      PROVE  Trace'
  BY <1>6, ShadowServiceTrace, PromotionTrace
<1>7. CASE \/ \E l \in DOMAIN leases : Expire(l)
           \/ ProposeMutation
           \/ \E i \in DOMAIN mutations, accepted \in BOOLEAN : ValidateMutation(i, accepted)
           \/ UNCHANGED vars
  <2>1. UNCHANGED runtimeVars /\ UNCHANGED call
    BY <1>7 DEF Expire, ProposeMutation, ValidateMutation, vars
  <2> QED BY <2>1, QuietTrace
<1>8. CASE Restart
  BY <1>8, RestartTrace
<1>9. CASE \E p \in registered, payload \in Payload, k \in CardKey : CreateCard(p, payload, k)
  <2>1. Grows /\ Unreported
    BY <1>9, CreateCardStep
  <2>2. UNCHANGED call
    BY <1>9 DEF CreateCard
  <2> QED BY <2>1, <2>2, UnreportedStep
<1> QED BY <1>1, <1>2, <1>3, <1>4, <1>5, <1>6, <1>7, <1>8, <1>9 DEF Next

\* The evidence of every card is in order, whoever writes it and however often
\* a delivery is repeated, answered from its key or cut short between the
\* steps: an adapter's event follows the execution it reports, a submission
\* its claim.
THEOREM EvidenceIsInOrder ==
    ASSUME KeysNameCards
    PROVE  Spec => []EvidenceInOrder
<1>1. Core /\ Trace /\ [Next]_vars => Trace'
  BY TraceNext
<1>2. Core /\ Trace => EvidenceInOrder
  BY DEF Core, HistoryOK, Trace, ReportsInOrder, EvidenceInOrder
<1> QED BY <1>1, <1>2, TraceInit, DeliveryInvariant, PTL DEF Spec

-----------------------------------------------------------------------------
(* Where cards and evidence come from.                                      *)

\* The key of the delivery that a card was made for.
DeliveryKey(card) ==
    BoundaryKey("boundary-source", cards[card].panel, [id |-> cards[card].payload.source],
                cards[card].payload.dedup)

\* The key of an execution of a sink on the card.
EgressKey(k, card, sink) ==
    \E p \in ValidPanels : \E n \in Node(Def(p)), external \in External :
        /\ n.type = "sink" /\ n.id = sink
        /\ k = BoundaryKey("boundary-sink", p, n, render_template(n, card, external))

\* The lease that the key k of a worker's request stands for is of the card.
ClaimedUnder(k, card) ==
    k # NoKey => /\ k \in Key /\ Stored(Append(k, "claim"), "lease")
                 /\ keys[Append(k, "claim")].event \in DOMAIN leases
                 /\ leases[keys[Append(k, "claim")].event].card = card

\* The first event of a card has the key that the card was made under.
FirstKey(card) == history[card][1].key

CardOrigin(card) ==
    /\ 1 \in DOMAIN history[card]
    /\ Delivered(card) => cards[card].payload.dedup \in Dedup /\ FirstKey(card) = DeliveryKey(card)

\* A source's events have keys made from it, a sink's the key of its
\* execution, a submission the key of the request that claimed.
EventOrigin(card, e) ==
    /\ e.type = "source_executed" => e.key = Suffixed(FirstKey(card), "source")
    /\ e.type = "boundary_source_received" => e.key = Suffixed(FirstKey(card), "event")
    /\ e.type = "sink_executed" => EgressKey(e.key, card, e.actor)
    /\ e.type = "boundary_sink_egressed" =>
          \E k : EgressKey(k, card, e.actor) /\ e.key = Suffixed(k, "event")
    /\ e.type = "artifact_submitted" =>
          \E k : ClaimedUnder(k, card) /\ e.key = Suffixed(k, "submit")

KeyOrigin(k) == keys[k].type = "card" => FirstKey(keys[k].card) = k

\* A request has the key that its events will be made from.
CallOrigin(t) ==
    /\ t.todo = Source1 \/ t.todo = Source2 => t.key = FirstKey(t.card)
    /\ t.todo = Sink1 \/ t.todo = Sink2 => EgressKey(t.key, t.card, t.node)
    /\ t.todo = Work1 \/ t.todo = Work2 => ClaimedUnder(t.key, t.card)
    /\ t.todo = Work1 => leases[t.data.lease].card = t.card

Origin ==
    /\ \A i \in DOMAIN cards : CardOrigin(i)
    /\ \A i \in DOMAIN cards : \A x \in DOMAIN history[i] : EventOrigin(i, history[i][x])
    /\ \A k \in DOMAIN keys : KeyOrigin(k)
    /\ \A c \in Client : CallOrigin(call[c])

\* The key a card was made under stays.
LEMMA FirstKeyStays ==
    ASSUME Grows, NEW card \in DOMAIN cards, CardOrigin(card)
    PROVE  FirstKey(card)' = FirstKey(card) /\ CardOrigin(card)'
<1>1. /\ 1 \in DOMAIN history'[card] /\ history'[card][1] = history[card][1]
      /\ cards'[card].panel = cards[card].panel /\ cards'[card].payload = cards[card].payload
      /\ cards'[card].shadow = cards[card].shadow
  BY DEF Grows, CardOrigin
<1>2. FirstKey(card)' = FirstKey(card)
  BY <1>1 DEF FirstKey
<1>3. DeliveryKey(card)' = DeliveryKey(card) /\ Delivered(card)' = Delivered(card)
  BY <1>1 DEF DeliveryKey, BoundaryKey, Delivered
<1> QED BY <1>1, <1>2, <1>3 DEF CardOrigin

\* So does the key of an egress, ...
LEMMA EgressKeyStays ==
    ASSUME Grows, NEW card \in DOMAIN cards, NEW k, NEW sink, EgressKey(k, card, sink)
    PROVE  EgressKey(k, card, sink)'
<1>1. PICK p \in ValidPanels : \E n \in Node(Def(p)), external \in External :
          /\ n.type = "sink" /\ n.id = sink
          /\ k = BoundaryKey("boundary-sink", p, n, render_template(n, card, external))
  BY DEF EgressKey
<1>2. PICK n \in Node(Def(p)), external \in External :
          /\ n.type = "sink" /\ n.id = sink
          /\ k = BoundaryKey("boundary-sink", p, n, render_template(n, card, external))
  BY <1>1
<1>3. cards'[card].panel = cards[card].panel
  BY DEF Grows
<1>4. render_template(n, card, external)' = render_template(n, card, external)
  BY <1>3 DEF render_template, RenderedName
<1>5. k = BoundaryKey("boundary-sink", p, n, render_template(n, card, external)')
  BY <1>2, <1>4
<1> QED BY <1>2, <1>5 DEF EgressKey

\* ... and the card of a claim.
LEMMA ClaimStays ==
    ASSUME Grows, LeasesKeep, NEW k, NEW card, ClaimedUnder(k, card)
    PROVE  ClaimedUnder(k, card)'
<1>1. PICK j : j = Append(k, "claim")
  OBVIOUS
<1>2. CASE k # NoKey
  <2>1. /\ k \in Key /\ j \in DOMAIN keys /\ keys[j].type = "lease"
        /\ keys[j].event \in DOMAIN leases /\ leases[keys[j].event].card = card
    BY <1>1, <1>2 DEF ClaimedUnder, Stored
  <2>2. j \in DOMAIN keys' /\ keys'[j] = keys[j]
    BY <2>1 DEF Grows
  <2>3. PICK l : l = keys[j].event
    OBVIOUS
  <2>4. l \in DOMAIN leases' /\ leases'[l].card = card
    BY <2>1, <2>3 DEF LeasesKeep
  <2> QED BY <1>1, <1>2, <2>1, <2>2, <2>3, <2>4 DEF ClaimedUnder, Stored
<1> QED BY <1>2 DEF ClaimedUnder

\* So where an event comes from stays, ...
LEMMA EventOriginStays ==
    ASSUME Grows, LeasesKeep, NEW card \in DOMAIN cards, CardOrigin(card), NEW e,
           EventOrigin(card, e)
    PROVE  EventOrigin(card, e)'
<1>1. FirstKey(card)' = FirstKey(card)
  BY FirstKeyStays
<1>2. /\ e.type = "source_executed" => e.key = Suffixed(FirstKey(card)', "source")
      /\ e.type = "boundary_source_received" => e.key = Suffixed(FirstKey(card)', "event")
  BY <1>1 DEF EventOrigin
<1>3. e.type = "sink_executed" => EgressKey(e.key, card, e.actor)'
  BY EgressKeyStays DEF EventOrigin
<1>4. e.type = "boundary_sink_egressed" =>
         \E k : EgressKey(k, card, e.actor)' /\ e.key = Suffixed(k, "event")
  BY EgressKeyStays DEF EventOrigin
<1>5. e.type = "artifact_submitted" =>
         \E k : ClaimedUnder(k, card)' /\ e.key = Suffixed(k, "submit")
  BY ClaimStays DEF EventOrigin
<1> QED BY <1>2, <1>3, <1>4, <1>5 DEF EventOrigin

\* ... and what a request that waits knows of its key.
LEMMA CallOriginStays ==
    ASSUME Grows, LeasesKeep, \A i \in DOMAIN cards : CardOrigin(i), NEW t, CallOK(t),
           CallOrigin(t)
    PROVE  CallOrigin(t)'
<1>1. t.todo \in {Source1, Source2, Sink1, Sink2, Work1, Work2} => t.card \in DOMAIN cards
  BY FirstSteps, Unfinished DEF CallOK, Production
<1>2. ASSUME t.todo = Source1 \/ t.todo = Source2 PROVE t.key = FirstKey(t.card)'
  <2>1. t.card \in DOMAIN cards
    BY <1>1, <1>2
  <2>2. FirstKey(t.card)' = FirstKey(t.card)
    BY <2>1, FirstKeyStays
  <2> QED BY <1>2, <2>2 DEF CallOrigin
<1>3. t.todo = Sink1 \/ t.todo = Sink2 => EgressKey(t.key, t.card, t.node)'
  BY <1>1, EgressKeyStays DEF CallOrigin
<1>4. t.todo = Work1 \/ t.todo = Work2 => ClaimedUnder(t.key, t.card)'
  BY ClaimStays DEF CallOrigin
<1>5. ASSUME t.todo = Work1 PROVE leases'[t.data.lease].card = t.card
  <2>1. t.data.lease \in DOMAIN leases
    BY <1>5, FirstSteps, Unfinished DEF CallOK
  <2> QED BY <1>5, <2>1 DEF CallOrigin, LeasesKeep
<1> QED BY <1>2, <1>3, <1>4, <1>5 DEF CallOrigin

\* What a step adds to the tables has an origin.
Explained ==
    \/ UNCHANGED <<cards, history, keys>>
    \/ \E card, e, type : Recorded(card, e, type) /\ type # "card" /\ EventOrigin(card, e)'
    \/ \E card, e : Made(card, e) /\ e.type = "card_created" /\ CardOrigin(card)'

\* Then everything in the tables has.
LEMMA TablesOrigin ==
    ASSUME RuntimeOK, Origin, Grows, LeasesKeep, Explained
    PROVE  /\ \A i \in DOMAIN cards' : CardOrigin(i)'
           /\ \A i \in DOMAIN cards' : \A x \in DOMAIN history'[i] : EventOrigin(i, history[i][x])'
           /\ \A k \in DOMAIN keys' : KeyOrigin(k)'
<1>1. ASSUME NEW i \in DOMAIN cards
      PROVE  /\ CardOrigin(i)' /\ FirstKey(i)' = FirstKey(i)
             /\ \A x \in DOMAIN history[i] : EventOrigin(i, history[i][x])'
  <2>1. CardOrigin(i)
    BY DEF Origin
  <2>2. CardOrigin(i)' /\ FirstKey(i)' = FirstKey(i)
    BY <2>1, FirstKeyStays
  <2>3. ASSUME NEW x \in DOMAIN history[i] PROVE EventOrigin(i, history[i][x])'
    <3>1. PICK e : e = history[i][x]
      OBVIOUS
    <3>2. EventOrigin(i, e)'
      BY <2>1, <3>1, EventOriginStays DEF Origin
    <3>3. history'[i][x] = e
      BY <3>1 DEF Grows
    <3> QED BY <3>2, <3>3
  <2> QED BY <2>2, <2>3
<1>2. ASSUME NEW k \in DOMAIN keys PROVE KeyOrigin(k)'
  <2>1. keys'[k] = keys[k] /\ keys[k].card \in DOMAIN cards
    BY DEF Grows, RuntimeOK
  <2>2. PICK i \in DOMAIN cards : i = keys[k].card
    BY <2>1
  <2>3. FirstKey(i)' = FirstKey(i)
    BY <1>1
  <2>4. keys[k].type = "card" => FirstKey(i) = k
    BY <2>2 DEF Origin, KeyOrigin
  <2>5. keys'[k].card = i /\ (keys'[k].type = "card" => FirstKey(i)' = k)
    BY <2>1, <2>2, <2>3, <2>4
  <2> QED BY <2>5 DEF KeyOrigin
<1>3. CASE UNCHANGED <<cards, history, keys>>
  BY <1>1, <1>2, <1>3
<1>4. ASSUME NEW card, NEW e, NEW type, Recorded(card, e, type), type # "card",
             EventOrigin(card, e)'
      PROVE  /\ \A i \in DOMAIN cards' : CardOrigin(i)'
             /\ \A i \in DOMAIN cards' : \A x \in DOMAIN history'[i] :
                   EventOrigin(i, history[i][x])'
             /\ \A k \in DOMAIN keys' : KeyOrigin(k)'
  <2>1. /\ card \in DOMAIN cards /\ DOMAIN cards' = DOMAIN cards
        /\ DOMAIN history'[card] = DOMAIN history[card] \union {Len(history[card]) + 1}
        /\ history'[card][Len(history[card]) + 1] = e
        /\ \A i \in DOMAIN cards : i # card => history'[i] = history[i]
    BY <1>4 DEF Recorded, Appended
  <2>2. ASSUME NEW i \in DOMAIN cards', NEW x \in DOMAIN history'[i]
        PROVE  EventOrigin(i, history[i][x])'
    <3>1. CASE x \in DOMAIN history[i]
      BY <1>1, <2>1, <3>1
    <3>2. CASE i = card /\ history'[i][x] = e
      BY <1>4, <3>2
    <3> QED BY <2>1, <3>1, <3>2
  <2>3. ASSUME NEW k \in DOMAIN keys', k \notin DOMAIN keys PROVE KeyOrigin(k)'
    BY <1>4, <2>3 DEF Recorded, Keyed, KeyOrigin
  <2> QED BY <1>1, <1>2, <2>1, <2>2, <2>3
<1>5. ASSUME NEW card, NEW e, Made(card, e), e.type = "card_created", CardOrigin(card)'
      PROVE  /\ \A i \in DOMAIN cards' : CardOrigin(i)'
             /\ \A i \in DOMAIN cards' : \A x \in DOMAIN history'[i] :
                   EventOrigin(i, history[i][x])'
             /\ \A k \in DOMAIN keys' : KeyOrigin(k)'
  <2>1. /\ DOMAIN cards' = DOMAIN cards \union {card}
        /\ DOMAIN history'[card] = {1} /\ history'[card][1] = e
        /\ \A i \in DOMAIN cards : history'[i] = history[i]
        /\ Keyed(e.key, "card", card)
    BY <1>5 DEF Made
  <2>2. EventOrigin(card, e)'
    BY <1>5 DEF EventOrigin
  <2>3. ASSUME NEW i \in DOMAIN cards', NEW x \in DOMAIN history'[i]
        PROVE  EventOrigin(i, history[i][x])'
    <3>1. CASE i \in DOMAIN cards
      BY <1>1, <2>1, <3>1
    <3>2. CASE i = card /\ history'[i][x] = e
      BY <2>2, <3>2
    <3> QED BY <2>1, <3>1, <3>2
  <2>4. ASSUME NEW k \in DOMAIN keys', k \notin DOMAIN keys PROVE KeyOrigin(k)'
    <3>1. k = e.key /\ keys'[k].card = card
      BY <2>1, <2>4 DEF Keyed
    <3>2. FirstKey(card)' = k
      BY <2>1, <3>1 DEF FirstKey
    <3> QED BY <3>1, <3>2 DEF KeyOrigin
  <2> QED BY <1>1, <1>2, <1>5, <2>1, <2>3, <2>4
<1> QED BY <1>3, <1>4, <1>5 DEF Explained

\* What a step has to show.
LEMMA OriginStep ==
    ASSUME Core, Origin, Grows, LeasesKeep, Explained,
           \/ UNCHANGED call
           \/ \E c \in Client : \E u : call' = [call EXCEPT ![c] = u] /\ CallOrigin(u)'
    PROVE  Origin'
<1>1. call = [d \in Client |-> call[d]] /\ \A d \in Client : CallOK(call[d])
  BY DEF Core, CallsOK
<1>2. /\ \A i \in DOMAIN cards' : CardOrigin(i)'
      /\ \A i \in DOMAIN cards' : \A x \in DOMAIN history'[i] : EventOrigin(i, history[i][x])'
      /\ \A k \in DOMAIN keys' : KeyOrigin(k)'
  BY TablesOrigin DEF Core
<1>3. ASSUME NEW d \in Client, call'[d] = call[d] PROVE CallOrigin(call[d])'
  <2>1. PICK t : t = call[d]
    OBVIOUS
  <2>2. CallOK(t) /\ CallOrigin(t) /\ \A i \in DOMAIN cards : CardOrigin(i)
    BY <1>1, <2>1 DEF Origin
  <2>3. CallOrigin(t)'
    BY <2>2, CallOriginStays
  <2> QED BY <1>3, <2>1, <2>3
<1>4. ASSUME NEW d \in Client PROVE CallOrigin(call[d])'
  <2>1. CASE UNCHANGED call
    BY <1>3, <2>1
  <2>2. ASSUME NEW c \in Client, NEW u, call' = [call EXCEPT ![c] = u], CallOrigin(u)'
        PROVE  CallOrigin(call[d])'
    <3>1. call' = [b \in Client |-> IF b = c THEN u ELSE call[b]]
      BY <1>1, <2>2
    <3>2. CASE d = c
      <4>1. call'[d] = u
        BY <3>1, <3>2
      <4> QED BY <2>2, <4>1
    <3>3. CASE d # c
      BY <1>3, <3>1, <3>3
    <3> QED BY <3>2, <3>3
  <2> QED BY <2>1, <2>2
<1> QED BY <1>2, <1>4 DEF Origin

\* What the requests with a key of their events have still to do.
Keying == {Source1, Source2, Sink1, Sink2, Work1, Work2}

\* The others have something else to do, ...
LEMMA KeylessSteps ==
    /\ << >> \notin Keying /\ Shadow1 \notin Keying /\ Shadow2 \notin Keying
    /\ Completing \notin Keying /\ Promoting1 \notin Keying /\ Promoting2 \notin Keying
BY FirstSteps, Unfinished DEF Keying

\* ... and nothing to know.
LEMMA KeylessRequest ==
    ASSUME NEW u, u.todo \notin Keying
    PROVE  CallOrigin(u)'
BY DEF CallOrigin, Keying

\* Steps that leave runtime and leases alone.
LEMMA QuietOrigin ==
    ASSUME Core, Origin, UNCHANGED runtimeVars, LeasesKeep,
           \/ UNCHANGED call
           \/ \E c \in Client : \E u : call' = [call EXCEPT ![c] = u] /\ u.todo \notin Keying
    PROVE  Origin'
<1>1. Grows
  BY NoChange DEF Core
<1>2. Explained
  BY DEF Explained, runtimeVars
<1> QED BY <1>1, <1>2, KeylessRequest, OriginStep

\* Making a card, or finding it under its key: the first event has the key.
LEMMA CreateOrigin ==
    ASSUME RuntimeOK, Origin, NEW id, NEW payload, NEW shadow, NEW k, NEW card,
           create_card(id, payload, shadow, k, card),
           ~shadow /\ payload.dedup # NoKey =>
              /\ payload.dedup \in Dedup
              /\ \A p \in registered : Def(p).id = id =>
                    k = BoundaryKey("boundary-source", p, [id |-> payload.source], payload.dedup)
    PROVE  Grows /\ Explained /\ FirstKey(card)' = k
<1>1. /\ RuntimeOK' /\ Grows /\ registered' = registered
      /\ card \in DOMAIN cards'
      /\ \/ Stored(k, "card") /\ card = keys[k].card /\ UNCHANGED runtimeVars
         \/ /\ card \notin DOMAIN cards /\ DOMAIN cards' = DOMAIN cards \union {card}
            /\ cards'[card].panel \in ActivePanels(id)
            /\ cards'[card].payload = payload /\ cards'[card].shadow = shadow
            /\ history'[card] = <<MkEvent("card_created", None, None, None, None, k)>>
            /\ \A i \in DOMAIN cards : cards'[i] = cards[i] /\ history'[i] = history[i]
            /\ Keyed(k, "card", card)
  BY CreateCall
<1>2. CASE Stored(k, "card") /\ card = keys[k].card /\ UNCHANGED runtimeVars
  <2>1. FirstKey(card) = k
    BY <1>2 DEF Origin, KeyOrigin, Stored
  <2>2. FirstKey(card)' = k
    BY <1>2, <2>1 DEF FirstKey, runtimeVars
  <2> QED BY <1>1, <1>2, <2>2 DEF Explained, runtimeVars
<1>3. CASE /\ card \notin DOMAIN cards /\ DOMAIN cards' = DOMAIN cards \union {card}
           /\ cards'[card].panel \in ActivePanels(id)
           /\ cards'[card].payload = payload /\ cards'[card].shadow = shadow
           /\ history'[card] = <<MkEvent("card_created", None, None, None, None, k)>>
           /\ \A i \in DOMAIN cards : cards'[i] = cards[i] /\ history'[i] = history[i]
           /\ Keyed(k, "card", card)
  <2>1. PICK e : e = MkEvent("card_created", None, None, None, None, k)
    OBVIOUS
  <2>2. e.key = k /\ e.type = "card_created"
    BY <2>1 DEF MkEvent
  <2>3. history'[card] = <<e>>
    BY <1>3, <2>1
  <2>4. Made(card, e)
    BY <1>3, <2>2, <2>3 DEF Made
  <2>5. 1 \in DOMAIN history'[card] /\ FirstKey(card)' = k
    BY <2>2, <2>3 DEF FirstKey
  <2>6. ASSUME Delivered(card)'
        PROVE  cards'[card].payload.dedup \in Dedup /\ k = DeliveryKey(card)'
    <3>1. ~shadow /\ payload.dedup # NoKey
      BY <1>3, <2>6 DEF Delivered
    <3>2. PICK p \in registered : p = cards'[card].panel /\ Def(p).id = id
      BY <1>3 DEF ActivePanels
    <3>3. k = BoundaryKey("boundary-source", p, [id |-> payload.source], payload.dedup)
      BY <3>1, <3>2
    <3> QED BY <1>3, <3>1, <3>2, <3>3 DEF DeliveryKey
  <2>7. CardOrigin(card)'
    BY <2>5, <2>6 DEF CardOrigin
  <2> QED BY <1>1, <2>2, <2>4, <2>5, <2>7 DEF Explained
<1> QED BY <1>1, <1>2, <1>3

-----------------------------------------------------------------------------
(* Every step keeps it.                                                     *)

\* Leases that nobody touches.
LEMMA LeasesUntouched ==
    ASSUME UNCHANGED leases
    PROVE  LeasesKeep
BY DEF LeasesKeep

\* A delivery is taken in under its key.
LEMMA BoundarySourceOrigin ==
    ASSUME Core, Origin, NEW c \in Client, NEW p \in registered, NEW n \in Node(Def(p)),
           NEW payload, NEW d \in Dedup, NEW token, BoundarySource(c, p, n, payload, d, token)
    PROVE  Origin'
<1>1. PICK dedup : dedup = deduplication_key(n, d)
  OBVIOUS
<1>2. PICK k : k = BoundaryKey("boundary-source", p, n, dedup)
  OBVIOUS
<1>3. PICK x : x = Ingress(payload, n.id, dedup)
  OBVIOUS
<1>4. PICK card \in 1..MaxCards :
         /\ create_card(Def(p).id, x, FALSE, k, card)
         /\ call' = [call EXCEPT ![c] = MkCall(SourceSteps, n.id, card, k, None)]
  BY <1>1, <1>2, <1>3 DEF BoundarySource, execute_source
<1>5. LeasesKeep
  BY LeasesUntouched DEF BoundarySource
<1>6. x.dedup = dedup /\ x.source = n.id
  BY <1>3 DEF Ingress
<1>7. x.dedup # NoKey => x.dedup \in Dedup
  BY <1>1, <1>6 DEF deduplication_key
<1>8. \A q \in registered : Def(q).id = Def(p).id =>
         k = BoundaryKey("boundary-source", q, [id |-> x.source], x.dedup)
  BY <1>2, <1>6 DEF BoundaryKey
<1>9. RuntimeOK
  BY DEF Core
<1>10. Grows /\ Explained /\ FirstKey(card)' = k
  <2>1. PICK id : id = Def(p).id
    OBVIOUS
  <2>2. create_card(id, x, FALSE, k, card)
    BY <1>4, <2>1
  <2>3. ~FALSE /\ x.dedup # NoKey =>
           /\ x.dedup \in Dedup
           /\ \A q \in registered : Def(q).id = id =>
                 k = BoundaryKey("boundary-source", q, [id |-> x.source], x.dedup)
    BY <1>7, <1>8, <2>1
  <2> QED BY <1>9, <2>2, <2>3, CreateOrigin
<1>11. PICK u : u = MkCall(SourceSteps, n.id, card, k, None)
  OBVIOUS
<1>12. u.todo = Source1 /\ u.card = card /\ u.key = k
  BY <1>11, BeginCall DEF SourceSteps, Source1
<1>13. CallOrigin(u)'
  <2>1. Source1 \notin {Sink1, Sink2, Work1, Work2}
    BY FirstSteps
  <2>2. u.key = FirstKey(u.card)'
    BY <1>10, <1>12
  <2> QED BY <1>12, <2>1, <2>2 DEF CallOrigin
<1> QED BY <1>4, <1>5, <1>10, <1>11, <1>13, OriginStep

\* A client's own card was made for no delivery.
LEMMA CreateCardOrigin ==
    ASSUME Core, Origin, NEW p, NEW payload, NEW k, CreateCard(p, payload, k)
    PROVE  Origin'
<1>1. PICK x : x = Ingress(payload, None, NoKey)
  OBVIOUS
<1>2. PICK card \in 1..MaxCards : create_card(Def(p).id, x, FALSE, k, card)
  BY <1>1 DEF CreateCard
<1>3. x.dedup = NoKey
  BY <1>1 DEF Ingress
<1>4. RuntimeOK /\ UNCHANGED call /\ LeasesKeep
  BY LeasesUntouched DEF Core, CreateCard
<1>5. Grows /\ Explained /\ FirstKey(card)' = k
  BY <1>2, <1>3, <1>4, CreateOrigin
<1> QED BY <1>4, <1>5, OriginStep

\* A sink is asked to send a card out.
LEMMA BoundarySinkOrigin ==
    ASSUME Core, Origin, NEW c \in Client, NEW p \in registered, NEW n \in Node(Def(p)),
           NEW card \in DOMAIN cards, NEW external \in External, NEW token,
           BoundarySink(c, p, n, card, external, token)
    PROVE  Origin'
<1>1. PICK k : k = BoundaryKey("boundary-sink", p, n, render_template(n, card, external))
  OBVIOUS
<1>2. PICK v : v = MkCall(<<"sink_executed", "boundary_sink_egressed">>, n.id, card, k, None)
  OBVIOUS
<1>3. PICK u : u = [v EXCEPT !.ref = external]
  OBVIOUS
<1>4. n.type = "sink" /\ call' = [call EXCEPT ![c] = u] /\ UNCHANGED runtimeVars
  BY <1>1, <1>2, <1>3 DEF BoundarySink, execute_sink
<1>5. LeasesKeep
  BY LeasesUntouched DEF BoundarySink
<1>6. IsCall(v) /\ v.todo = Sink1 /\ v.card = card /\ v.key = k /\ v.node = n.id
  BY <1>2, BeginCall DEF Sink1
<1>7. u.todo = Sink1 /\ u.card = card /\ u.key = k /\ u.node = n.id
  BY <1>3, <1>6 DEF IsCall
<1>8. Grows
  BY <1>4, NoChange DEF Core
<1>9. EgressKey(k, card, n.id)
  BY <1>1, <1>4 DEF EgressKey, Core, RuntimeOK
<1>10. EgressKey(k, card, n.id)'
  BY <1>8, <1>9, EgressKeyStays
<1>11. CallOrigin(u)'
  <2>1. Sink1 \notin {Source1, Source2, Work1, Work2}
    BY FirstSteps
  <2> QED BY <1>7, <1>10, <2>1 DEF CallOrigin
<1>12. Explained
  BY <1>4 DEF Explained, runtimeVars
<1> QED BY <1>4, <1>5, <1>8, <1>11, <1>12, OriginStep

\* A request records an event that has an origin, and goes on or is answered.
LEMMA RecordOrigin ==
    ASSUME Core, Origin, NEW c \in Client, NEW t, t = call[c], t.todo # << >>,
           t.card \in DOMAIN cards, NEW e, record_event(t.card, e), EventOrigin(t.card, e),
           Continue(c, Rest(c)), UNCHANGED leases,
           \/ Tail(t.todo) \notin Keying
           \/ t.todo = Source1 \/ t.todo = Sink1
    PROVE  Origin'
<1>1. RuntimeOK /\ CallsOK /\ LeasesKeep
  BY LeasesUntouched DEF Core
<1>2. /\ RuntimeOK' /\ Grows
      /\ UNCHANGED runtimeVars \/ (Appended(t.card, e) /\ Keyed(e.key, "event", t.card))
  BY <1>1, RecordCall
<1>3. CardOrigin(t.card) /\ CallOrigin(t)
  BY DEF Origin
<1>4. EventOrigin(t.card, e)'
  BY <1>1, <1>2, <1>3, EventOriginStays
<1>5. Explained
  <2>1. CASE UNCHANGED runtimeVars
    BY <2>1 DEF Explained, runtimeVars
  <2>2. CASE Appended(t.card, e) /\ Keyed(e.key, "event", t.card)
    <3>1. Recorded(t.card, e, "event")
      BY <2>2 DEF Recorded
    <3> QED BY <1>4, <3>1 DEF Explained
  <2> QED BY <1>2, <2>1, <2>2
<1>6. PICK r : r = Rest(c)
  OBVIOUS
<1>7. PICK u : /\ call' = [call EXCEPT ![c] = u] /\ u.todo = r
               /\ r # << >> => u.card = t.card /\ u.key = t.key /\ u.node = t.node
  BY <1>6, ReportedCall
<1>8. r = Tail(t.todo)
  BY <1>6 DEF Rest
<1>9. CallOrigin(u)'
  <2>1. CASE Tail(t.todo) \notin Keying
    BY <1>7, <1>8, <2>1, KeylessRequest
  <2>2. CASE t.todo = Source1
    <3>1. u.todo = Source2 /\ u.card = t.card /\ u.key = t.key
      BY <1>7, <1>8, <2>2, LaterSteps, Unfinished
    <3>2. Source2 \notin {Sink1, Sink2, Work1, Work2}
      BY FirstSteps
    <3>3. t.key = FirstKey(t.card)
      BY <1>3, <2>2 DEF CallOrigin
    <3>4. FirstKey(t.card)' = FirstKey(t.card)
      BY <1>2, <1>3, FirstKeyStays
    <3>5. u.key = FirstKey(u.card)'
      BY <3>1, <3>3, <3>4
    <3> QED BY <3>1, <3>2, <3>5 DEF CallOrigin
  <2>3. CASE t.todo = Sink1
    <3>1. u.todo = Sink2 /\ u.card = t.card /\ u.key = t.key /\ u.node = t.node
      BY <1>7, <1>8, <2>3, LaterSteps, Unfinished
    <3>2. Sink2 \notin {Source1, Source2, Work1, Work2}
      BY FirstSteps
    <3>3. EgressKey(t.key, t.card, t.node)
      BY <1>3, <2>3 DEF CallOrigin
    <3>4. EgressKey(t.key, t.card, t.node)'
      BY <1>2, <3>3, EgressKeyStays
    <3> QED BY <3>1, <3>2, <3>4 DEF CallOrigin
  <2> QED BY <2>1, <2>2, <2>3
<1> QED BY <1>1, <1>2, <1>5, <1>7, <1>9, OriginStep

\* The six records of adapters and of the shadow service.
LEMMA RecordOrigins ==
    ASSUME Core, Origin, NEW c \in Client,
           \/ RecordSource(c) \/ RecordSink(c)
           \/ RecordBoundary(c, "boundary_source_received")
           \/ RecordBoundary(c, "boundary_sink_egressed")
           \/ RecordShadow(c, "shadow_created") \/ RecordShadow(c, "shadow_completed")
    PROVE  Origin'
<1>1. PICK t : t = call[c]
  OBVIOUS
<1>2. CallsOK /\ CallOrigin(t)
  BY <1>1 DEF Core, Origin
<1>3. ASSUME NEW step \in RecordType, At(c, step)
      PROVE  /\ t.todo # << >> /\ t.card \in DOMAIN cards /\ Head(t.todo) = step
             /\ t.todo \in {Source1, Source2, Sink1, Sink2, Shadow2, Completing}
             /\ Tail(t.todo) \notin Keying \/ t.todo = Source1 \/ t.todo = Sink1
  <2>1. CallOK(t) /\ t.todo # << >> /\ Head(t.todo) = step
    BY <1>1, <1>2, <1>3, AtStep
  <2>2. /\ t.card \in DOMAIN cards
        /\ t.todo \in {Source1, Source2, Sink1, Sink2, Shadow2, Completing}
    BY <2>1, FirstSteps DEF CallOK, RecordType, Production
  <2>3. Tail(t.todo) \notin Keying \/ t.todo = Source1 \/ t.todo = Sink1
    BY <2>2, LaterSteps, KeylessSteps
  <2> QED BY <2>1, <2>2, <2>3
<1>4. CASE RecordSource(c)
  <2>1. PICK e : e = MkEvent("source_executed", t.node, None, None, None,
                             Suffixed(t.key, "source"))
    OBVIOUS
  <2>2. e.type = "source_executed" /\ e.key = Suffixed(t.key, "source")
    BY <2>1 DEF MkEvent
  <2>3. /\ At(c, "source_executed") /\ record_event(t.card, e) /\ Continue(c, Rest(c))
        /\ UNCHANGED leases
    BY <1>1, <1>4, <2>1 DEF RecordSource, SourceRecorded
  <2>4. t.todo = Source1 /\ t.todo # << >> /\ t.card \in DOMAIN cards
    BY <1>3, <2>3, FirstSteps DEF RecordType
  <2>5. t.key = FirstKey(t.card)
    BY <1>2, <2>4 DEF CallOrigin
  <2>6. EventOrigin(t.card, e)
    BY <2>2, <2>5 DEF EventOrigin
  <2> QED BY <1>1, <2>3, <2>4, <2>6, RecordOrigin
<1>5. CASE RecordBoundary(c, "boundary_source_received")
  <2>1. PICK e : e = MkEvent("boundary_source_received", t.node, None, None, t.ref,
                             Suffixed(t.key, "event"))
    OBVIOUS
  <2>2. e.type = "boundary_source_received" /\ e.key = Suffixed(t.key, "event")
    BY <2>1 DEF MkEvent
  <2>3. /\ At(c, "boundary_source_received") /\ record_event(t.card, e)
        /\ Continue(c, Rest(c)) /\ UNCHANGED leases
    BY <1>1, <1>5, <2>1 DEF RecordBoundary
  <2>4. t.todo = Source2 /\ t.todo # << >> /\ t.card \in DOMAIN cards
    BY <1>3, <2>3, FirstSteps DEF RecordType
  <2>5. t.key = FirstKey(t.card)
    BY <1>2, <2>4 DEF CallOrigin
  <2>6. EventOrigin(t.card, e)
    BY <2>2, <2>5 DEF EventOrigin
  <2>7. Tail(t.todo) \notin Keying
    BY <2>4, LaterSteps, KeylessSteps
  <2> QED BY <1>1, <2>3, <2>4, <2>6, <2>7, RecordOrigin
<1>6. CASE RecordSink(c)
  <2>1. PICK e : e = MkEvent("sink_executed", t.node, None, None, t.ref, t.key)
    OBVIOUS
  <2>2. e.type = "sink_executed" /\ e.key = t.key /\ e.actor = t.node
    BY <2>1 DEF MkEvent
  <2>3. /\ At(c, "sink_executed") /\ record_event(t.card, e) /\ Continue(c, Rest(c))
        /\ UNCHANGED leases
    BY <1>1, <1>6, <2>1 DEF RecordSink, SinkRecorded
  <2>4. t.todo = Sink1 /\ t.todo # << >> /\ t.card \in DOMAIN cards
    BY <1>3, <2>3, FirstSteps DEF RecordType
  <2>5. EgressKey(t.key, t.card, t.node)
    BY <1>2, <2>4 DEF CallOrigin
  <2>6. EventOrigin(t.card, e)
    BY <2>2, <2>5 DEF EventOrigin
  <2> QED BY <1>1, <2>3, <2>4, <2>6, RecordOrigin
<1>7. CASE RecordBoundary(c, "boundary_sink_egressed")
  <2>1. PICK e : e = MkEvent("boundary_sink_egressed", t.node, None, None, t.ref,
                             Suffixed(t.key, "event"))
    OBVIOUS
  <2>2. e.type = "boundary_sink_egressed" /\ e.key = Suffixed(t.key, "event") /\ e.actor = t.node
    BY <2>1 DEF MkEvent
  <2>3. /\ At(c, "boundary_sink_egressed") /\ record_event(t.card, e)
        /\ Continue(c, Rest(c)) /\ UNCHANGED leases
    BY <1>1, <1>7, <2>1 DEF RecordBoundary
  <2>4. t.todo = Sink2 /\ t.todo # << >> /\ t.card \in DOMAIN cards
    BY <1>3, <2>3, FirstSteps DEF RecordType
  <2>5. EgressKey(t.key, t.card, t.node)
    BY <1>2, <2>4 DEF CallOrigin
  <2>6. EventOrigin(t.card, e)
    BY <2>2, <2>5 DEF EventOrigin
  <2>7. Tail(t.todo) \notin Keying
    BY <2>4, LaterSteps, KeylessSteps
  <2> QED BY <1>1, <2>3, <2>4, <2>6, <2>7, RecordOrigin
<1>8. ASSUME NEW type \in {"shadow_created", "shadow_completed"}, RecordShadow(c, type)
      PROVE  Origin'
  <2>1. PICK e : e = MkEvent(type, None, None, None, t.ref, NoKey)
    OBVIOUS
  <2>2. e.type = type
    BY <2>1 DEF MkEvent
  <2>3. /\ At(c, type) /\ record_event(t.card, e) /\ Continue(c, Rest(c)) /\ UNCHANGED leases
    BY <1>1, <1>8, <2>1 DEF RecordShadow
  <2>4. /\ t.todo # << >> /\ t.card \in DOMAIN cards
        /\ Tail(t.todo) \notin Keying \/ t.todo = Source1 \/ t.todo = Sink1
    BY <1>3, <2>3 DEF RecordType
  <2>5. EventOrigin(t.card, e)
    BY <1>8, <2>2 DEF EventOrigin
  <2> QED BY <1>1, <2>3, <2>4, <2>5, RecordOrigin
<1> QED BY <1>4, <1>5, <1>6, <1>7, <1>8

\* The lease that a key is stored with.
LeaseOfKey(k, l) == Stored(k, "lease") /\ keys[k].event = l

\* A claim gives the lease of its key, and takes none away.
LEMMA ClaimOrigin ==
    ASSUME Core, Origin, NEW pipe, NEW worker, NEW k, NEW l, claim_card(pipe, worker, k, l)
    PROVE  /\ LeasesKeep /\ Explained
           /\ k # NoKey => LeaseOfKey(k, l)'
<1>1. RuntimeOK /\ LeasesOK
  BY DEF Core
<1>2. CASE Stored(k, "lease") /\ l = keys[k].event /\ UNCHANGED <<runtimeVars, leases>>
  BY <1>2 DEF LeasesKeep, Explained, LeaseOfKey, Stored, runtimeVars
<1>3. ASSUME Fresh(k), l = Len(leases) + 1, NEW node, NEW card \in DOMAIN cards,
             leases' = Append(leases, [card |-> card, worker |-> worker, active |-> TRUE,
                                       node |-> node]),
             history' = [history EXCEPT ![card] =
                 Append(@, MkEvent("card_claimed", worker, None, pipe, None, k))],
             store_idempotency(k, "lease", card, l), UNCHANGED <<registered, cards>>
      PROVE  LeasesKeep /\ Explained /\ (k # NoKey => LeaseOfKey(k, l)')
  <2>1. PICK e : e = MkEvent("card_claimed", worker, None, pipe, None, k)
    OBVIOUS
  <2>2. e.type = "card_claimed" /\ e.key = k
    BY <2>1 DEF MkEvent
  <2>3. Keyed(k, "lease", card)
    BY <1>3, StoreKey
  <2>4. history' = [history EXCEPT ![card] = Append(history[card], e)]
    BY <1>3, <2>1
  <2>5. RuntimeOK' /\ Grows /\ Appended(card, e)
    BY <1>1, <1>3, <2>3, <2>4, AppendCall
  <2>6. Recorded(card, e, "lease")
    BY <1>3, <2>2, <2>3, <2>5 DEF Recorded
  <2>7. EventOrigin(card, e)'
    BY <2>2 DEF EventOrigin
  <2>8. LeasesKeep
    <3>1. PICK x : x = [card |-> card, worker |-> worker, active |-> TRUE, node |-> node]
      OBVIOUS
    <3>2. DOMAIN leases' = DOMAIN leases \union {l} /\ \A m \in DOMAIN leases : leases'[m] = leases[m]
      BY <1>1, <1>3, <3>1, SequenceAppend DEF LeasesOK
    <3> QED BY <3>2 DEF LeasesKeep
  <2>9. ASSUME k # NoKey PROVE LeaseOfKey(k, l)'
    <3>1. keys'[k].event = l
      BY <1>3, <2>9 DEF store_idempotency
    <3> QED BY <2>3, <2>9, <3>1 DEF LeaseOfKey, Stored, Keyed
  <2> QED BY <2>6, <2>7, <2>8, <2>9 DEF Explained
<1> QED BY <1>2, <1>3 DEF claim_card

\* Keys of clients are texts, too.
ClientKeys == \A k \in Key : IsSequence(k)

\* A worker claims under the key of its request.
LEMMA ExecuteWorkerOrigin ==
    ASSUME ClientKeys, Core, Origin, NEW c \in Client, NEW p, NEW pipe, NEW out, NEW worker,
           NEW k \in Key, ExecuteWorker(c, p, pipe, out, worker, k)
    PROVE  Origin'
<1>1. PICK n \in WorkerNode(Def(p), pipe), l \in 1..MaxLeases :
          /\ claim_card(pipe, worker, Suffixed(k, "claim"), l)
          /\ call' = [call EXCEPT ![c] =
                MkCall(<<"submit", "check">>, n.id, leases'[l].card, k,
                       [lease |-> l, out |-> out, panel |-> p])]
  BY DEF ExecuteWorker
<1>2. PICK j : j = Suffixed(k, "claim")
  OBVIOUS
<1>3. Grows /\ l \in DOMAIN leases'
  BY <1>1, ClaimEffects
<1>4. claim_card(pipe, worker, j, l)
  BY <1>1, <1>2
<1>5. LeasesKeep /\ Explained /\ (j # NoKey => LeaseOfKey(j, l)')
  BY <1>4, ClaimOrigin
<1>6. PICK d : d = leases'[l].card
  OBVIOUS
<1>7. PICK data : data = [lease |-> l, out |-> out, panel |-> p]
  OBVIOUS
<1>8. PICK u : u = MkCall(<<"submit", "check">>, n.id, d, k, data)
  OBVIOUS
<1>9. u.todo = Work1 /\ u.card = d /\ u.key = k /\ u.data = data
  BY <1>8, BeginCall DEF Work1
<1>10. ClaimedUnder(k, d)'
  <2> SUFFICES ASSUME k # NoKey
               PROVE  /\ Stored(Append(k, "claim"), "lease")'
                      /\ keys'[Append(k, "claim")].event \in DOMAIN leases'
                      /\ leases'[keys'[Append(k, "claim")].event].card = d
    BY DEF ClaimedUnder
  <2>1. j = Append(k, "claim") /\ j # NoKey
    BY <1>2, SuffixedParts DEF ClientKeys
  <2>2. Stored(j, "lease")' /\ keys'[j].event = l
    BY <1>5, <2>1 DEF LeaseOfKey
  <2> QED BY <1>3, <1>6, <2>1, <2>2
<1>11. CallOrigin(u)'
  <2>1. Work1 \notin {Source1, Source2, Sink1, Sink2}
    BY FirstSteps
  <2>2. leases'[u.data.lease].card = u.card
    BY <1>6, <1>7, <1>9
  <2> QED BY <1>9, <1>10, <2>1, <2>2 DEF CallOrigin
<1>12. call' = [call EXCEPT ![c] = u]
  BY <1>1, <1>6, <1>7, <1>8
<1> QED BY <1>3, <1>5, <1>11, <1>12, OriginStep

\* It submits the card it claimed.
LEMMA SubmitOrigin ==
    ASSUME Core, Origin, NEW c \in Client, Submit(c)
    PROVE  Origin'
<1>1. RuntimeOK /\ CallsOK
  BY DEF Core
<1>2. PICK t : t = call[c]
  OBVIOUS
<1>3. At(c, "submit") /\ Continue(c, Rest(c))
  BY DEF Submit
<1>4. CallOK(t) /\ t.todo # << >> /\ Head(t.todo) = "submit" /\ Rest(c) = Tail(t.todo)
  BY <1>1, <1>2, <1>3, AtStep
<1>5. t.todo = Work1 /\ t.card \in DOMAIN cards /\ t.data.lease \in DOMAIN leases
  BY <1>4, FirstSteps DEF CallOK
<1>6. CallOrigin(t)
  BY <1>2 DEF Origin
<1>7. ClaimedUnder(t.key, t.card) /\ leases[t.data.lease].card = t.card
  BY <1>5, <1>6 DEF CallOrigin
<1>8. PICK k : k = Suffixed(t.key, "submit")
  OBVIOUS
<1>9. Grows /\ LeasesKeep /\ Submitted(t.card, k)
  <2>1. submit_artifact(t.data.lease, t.data.out, k)
    BY <1>2, <1>8 DEF Submit
  <2>2. PICK l \in DOMAIN leases : l = t.data.lease
    BY <1>5
  <2>3. Grows /\ LeasesKeep /\ Submitted(leases[l].card, k)
    BY <2>1, <2>2, SubmitEffects
  <2> QED BY <1>7, <2>2, <2>3
<1>10. ClaimedUnder(t.key, t.card)'
  BY <1>7, <1>9, ClaimStays
<1>11. Explained
  <2>1. CASE UNCHANGED <<cards, history, keys>>
    BY <2>1 DEF Explained
  <2>2. ASSUME NEW e, Recorded(t.card, e, "artifacts"), e.type = "artifact_submitted", e.key = k
        PROVE  Explained
    <3>1. EventOrigin(t.card, e)'
      BY <1>8, <1>10, <2>2 DEF EventOrigin
    <3> QED BY <2>2, <3>1 DEF Explained
  <2> QED BY <1>9, <2>1, <2>2 DEF Submitted
<1>12. PICK r : r = Rest(c)
  OBVIOUS
<1>13. PICK u : /\ call' = [call EXCEPT ![c] = u] /\ u.todo = r
                /\ r # << >> => u.card = t.card /\ u.key = t.key /\ u.node = t.node
  BY <1>2, <1>3, <1>12, ReportedCall
<1>14. u.todo = Work2 /\ u.card = t.card /\ u.key = t.key
  BY <1>4, <1>5, <1>12, <1>13, LaterSteps, Unfinished
<1>15. CallOrigin(u)'
  <2>1. Work2 \notin {Source1, Source2, Sink1, Sink2, Work1}
    BY FirstSteps
  <2> QED BY <1>10, <1>14, <2>1 DEF CallOrigin
<1> QED BY <1>9, <1>11, <1>13, <1>15, OriginStep

\* The shadow of a card was made for no delivery.
LEMMA CreateShadowOrigin ==
    ASSUME Core, Origin, NEW c \in Client, CreateShadow(c)
    PROVE  Origin'
<1>1. PICK t : t = call[c]
  OBVIOUS
<1>2. At(c, "shadow_card") /\ LeasesKeep
  BY LeasesUntouched DEF CreateShadow
<1>3. CallOK(t) /\ IsCall(t) /\ t.todo # << >> /\ Head(t.todo) = "shadow_card"
      /\ Rest(c) = Tail(t.todo)
  BY <1>1, <1>2, AtStep DEF Core
<1>4. t.todo = Shadow1
  BY <1>3, FirstSteps DEF CallOK
<1>5. PICK s \in 1..MaxCards : ShadowCard(t.card, t.key, s) /\ Proceed(c, Rest(c), s, None)
  BY <1>1 DEF CreateShadow
<1>6. Grows /\ Explained
  <2>1. create_card(split_panel_id(t.card), cards[t.card].payload, TRUE, t.key, s)
    BY <1>5 DEF ShadowCard
  <2>2. RuntimeOK
    BY DEF Core
  <2> QED BY <2>1, <2>2, CreateOrigin
<1>7. PICK r : r = Rest(c)
  OBVIOUS
<1>8. r = Shadow2 /\ r # << >>
  BY <1>3, <1>4, <1>7, LaterSteps, Unfinished
<1>9. PICK u : call' = [call EXCEPT ![c] = u] /\ u.todo = r
  <2>1. IsCall(call[c]) /\ call = [d \in Client |-> call[d]]
    BY DEF Core, CallsOK, CallOK
  <2>2. Proceed(c, r, s, None)
    BY <1>5, <1>7
  <2> QED BY <1>8, <2>1, <2>2, ProceedCall
<1>10. CallOrigin(u)'
  BY <1>8, <1>9, KeylessSteps, KeylessRequest
<1> QED BY <1>2, <1>6, <1>9, <1>10, OriginStep

\* The steps that call the runtime for nothing: a worker looks, a shadow is
\* asked for or completed, a promotion begins, registers or marks, a request
\* ends.
LEMMA OtherOrigins ==
    ASSUME Core, Origin, NEW c \in Client,
           \/ Check(c) \/ (\E card, k : StartShadow(c, card, k)) \/ (\E i : CompleteShadow(c, i))
           \/ (\E i, p : StartPromotion(c, i, p)) \/ RegisterPromoted(c) \/ MarkPromoted(c)
           \/ End(c)
    PROVE  Origin'
<1>1. CallsOK
  BY DEF Core
<1>2. PICK t : t = call[c]
  OBVIOUS
<1>3. PICK r : r = Rest(c)
  OBVIOUS
<1>4. ASSUME NEW step, At(c, step), Continue(c, Rest(c)),
             NEW todo, todo \in {Work2, Promoting1, Promoting2}, Head(todo) = step
      PROVE  \E u : call' = [call EXCEPT ![c] = u] /\ u.todo \notin Keying
  <2>1. CallOK(t) /\ t.todo # << >> /\ Head(t.todo) = step /\ Rest(c) = Tail(t.todo)
    BY <1>1, <1>2, <1>4, AtStep
  <2>2. t.todo = todo
    BY <1>4, <2>1, FirstSteps DEF CallOK
  <2>3. PICK u : /\ call' = [call EXCEPT ![c] = u] /\ u.todo = r
                 /\ r # << >> => u.card = t.card /\ u.key = t.key /\ u.node = t.node
    BY <1>2, <1>3, <1>4, ReportedCall
  <2>4. u.todo \notin Keying
    BY <1>3, <1>4, <2>1, <2>2, <2>3, LaterSteps, KeylessSteps
  <2> QED BY <2>3, <2>4
<1>5. CASE Check(c)
  <2>1. At(c, "check") /\ Continue(c, Rest(c)) /\ UNCHANGED runtimeVars /\ LeasesKeep
    BY <1>5, LeasesUntouched DEF Check
  <2>2. \E u : call' = [call EXCEPT ![c] = u] /\ u.todo \notin Keying
    BY <1>4, <2>1, FirstSteps
  <2> QED BY <2>1, <2>2, QuietOrigin
<1>6. CASE MarkPromoted(c)
  <2>1. At(c, "promoted") /\ Continue(c, Rest(c)) /\ UNCHANGED runtimeVars /\ LeasesKeep
    BY <1>6, LeasesUntouched DEF MarkPromoted
  <2>2. \E u : call' = [call EXCEPT ![c] = u] /\ u.todo \notin Keying
    BY <1>4, <2>1, FirstSteps
  <2> QED BY <2>1, <2>2, QuietOrigin
<1>7. CASE RegisterPromoted(c)
  <2>1. /\ At(c, "register") /\ register_patch_panel(t.data.panel) /\ Continue(c, Rest(c))
        /\ LeasesKeep
    BY <1>2, <1>7, LeasesUntouched DEF RegisterPromoted
  <2>2. PICK p : p = t.data.panel
    OBVIOUS
  <2>3. /\ RuntimeOK' /\ Grows /\ UNCHANGED <<cards, history, keys>>
        /\ \E q \in registered' : SameVersion(q, p)
    BY <2>1, <2>2, RegisterCall DEF Core
  <2>4. Explained
    BY <2>3 DEF Explained
  <2>5. PICK u : call' = [call EXCEPT ![c] = u] /\ u.todo \notin Keying
    BY <1>4, <2>1, FirstSteps
  <2>6. CallOrigin(u)'
    BY <2>5, KeylessRequest
  <2> QED BY <2>1, <2>3, <2>4, <2>5, <2>6, OriginStep
<1>8. ASSUME NEW card, NEW k, StartShadow(c, card, k) PROVE Origin'
  <2>1. PICK u : u = MkCall(<<"shadow_card", "shadow_created">>, None, card, k, None)
    OBVIOUS
  <2>2. call' = [call EXCEPT ![c] = u] /\ UNCHANGED runtimeVars /\ LeasesKeep
    BY <1>8, <2>1, LeasesUntouched DEF StartShadow
  <2>3. u.todo = Shadow1
    BY <2>1 DEF MkCall, Shadow1
  <2> QED BY <2>2, <2>3, KeylessSteps, QuietOrigin
<1>9. ASSUME NEW i, CompleteShadow(c, i) PROVE Origin'
  <2>1. PICK v : v = MkCall(<<"shadow_completed">>, None, links[i].production, NoKey, None)
    OBVIOUS
  <2>2. PICK u : u = [v EXCEPT !.ref = links[i].shadow]
    OBVIOUS
  <2>3. call' = [call EXCEPT ![c] = u] /\ UNCHANGED runtimeVars /\ LeasesKeep
    BY <1>9, <2>1, <2>2, LeasesUntouched DEF CompleteShadow
  <2>4. IsCall(v) /\ v.todo = Completing
    BY <2>1, BeginCall DEF Completing
  <2>5. u.todo = Completing
    BY <2>2, <2>4 DEF IsCall
  <2> QED BY <2>3, <2>5, KeylessSteps, QuietOrigin
<1>10. ASSUME NEW i, NEW p, StartPromotion(c, i, p) PROVE Origin'
  <2>1. PICK data : data = [mutation |-> i, panel |-> p]
    OBVIOUS
  <2>2. PICK u : u = MkCall(PromotionSteps, None, 0, NoKey, data)
    OBVIOUS
  <2>3. call' = [call EXCEPT ![c] = u] /\ UNCHANGED runtimeVars /\ LeasesKeep
    BY <1>10, <2>1, <2>2, LeasesUntouched DEF StartPromotion
  <2>4. u.todo = Promoting1
    BY <2>2 DEF MkCall, Promoting1, PromotionSteps
  <2> QED BY <2>3, <2>4, KeylessSteps, QuietOrigin
<1>11. CASE End(c)
  <2>1. call' = [call EXCEPT ![c] = Idle] /\ UNCHANGED runtimeVars /\ LeasesKeep
    BY <1>11, LeasesUntouched DEF End, Abort
  <2>2. PICK u : u = Idle
    OBVIOUS
  <2>3. u.todo = << >>
    BY <2>2 DEF Idle, MkCall
  <2> QED BY <2>1, <2>2, <2>3, KeylessSteps, QuietOrigin
<1> QED BY <1>5, <1>6, <1>7, <1>8, <1>9, <1>10, <1>11

\* So do the steps of nobody's request.
LEMMA BackgroundOrigins ==
    ASSUME Core, Origin,
           \/ \E l \in DOMAIN leases : Expire(l)
           \/ ProposeMutation
           \/ \E i \in DOMAIN mutations, accepted \in BOOLEAN : ValidateMutation(i, accepted)
           \/ Restart
           \/ UNCHANGED vars
    PROVE  Origin'
<1>1. ASSUME NEW l \in DOMAIN leases, Expire(l) PROVE Origin'
  <2>1. /\ leases' = [leases EXCEPT ![l].active = FALSE]
        /\ UNCHANGED runtimeVars /\ UNCHANGED call
    BY <1>1 DEF Expire
  <2>2. LeasesOK /\ Grows
    BY <2>1, NoChange DEF Core
  <2>3. LeasesKeep
    BY <2>1, <2>2, LeaseEnds
  <2> QED BY <2>1, <2>3, QuietOrigin
<1>2. CASE \/ ProposeMutation
           \/ \E i \in DOMAIN mutations, accepted \in BOOLEAN : ValidateMutation(i, accepted)
           \/ UNCHANGED vars
  <2>1. UNCHANGED runtimeVars /\ UNCHANGED call /\ UNCHANGED leases
    BY <1>2 DEF ProposeMutation, ValidateMutation, vars
  <2> QED BY <2>1, LeasesUntouched, QuietOrigin
<1>3. CASE Restart
  <2>1. UNCHANGED runtimeVars /\ LeasesKeep /\ call' = [c \in Client |-> Idle]
    BY <1>3, LeasesUntouched DEF Restart
  <2>2. RuntimeOK /\ Grows
    BY <2>1, NoChange DEF Core
  <2>3. Explained
    BY <2>1 DEF Explained, runtimeVars
  <2>4. /\ \A i \in DOMAIN cards' : CardOrigin(i)'
        /\ \A i \in DOMAIN cards' : \A x \in DOMAIN history'[i] : EventOrigin(i, history[i][x])'
        /\ \A k \in DOMAIN keys' : KeyOrigin(k)'
    BY <2>1, <2>2, <2>3, TablesOrigin
  <2>5. ASSUME NEW c \in Client PROVE CallOrigin(call[c])'
    <3>1. PICK u : u = Idle
      OBVIOUS
    <3>2. u.todo = << >>
      BY <3>1 DEF Idle, MkCall
    <3>3. CallOrigin(u)'
      BY <3>2, KeylessSteps, KeylessRequest
    <3>4. call'[c] = u
      BY <2>1, <3>1
    <3> QED BY <3>3, <3>4
  <2> QED BY <2>4, <2>5 DEF Origin
<1> QED BY <1>1, <1>2, <1>3

\* A new deployment has neither cards nor requests.
LEMMA OriginInit == Init => Origin
<1> SUFFICES ASSUME Init PROVE Origin
  OBVIOUS
<1>1. DOMAIN << >> = {}
  OBVIOUS
<1>2. cards = << >> /\ keys = << >> /\ call = [c \in Client |-> Idle]
  BY DEF Init
<1>3. ASSUME NEW c \in Client PROVE CallOrigin(call[c])
  <2>1. call[c].todo = << >>
    BY <1>2 DEF Idle, MkCall
  <2> QED BY <2>1, Unfinished DEF CallOrigin
<1> QED BY <1>1, <1>2, <1>3 DEF Origin

\* Every step keeps the origin.
LEMMA OriginNext ==
    ASSUME ClientKeys, Core, Origin, [Next]_vars
    PROVE  Origin'
<1>1. ASSUME NEW c \in Client,
             \E p \in registered, payload \in Payload, d \in Dedup, token \in Token :
                \E n \in Node(Def(p)) : BoundarySource(c, p, n, payload, d, token)
      PROVE  Origin'
  BY <1>1, BoundarySourceOrigin
<1>2. ASSUME NEW c \in Client,
             \E p \in registered, card \in DOMAIN cards, external \in External, token \in Token :
                \E n \in Node(Def(p)) : BoundarySink(c, p, n, card, external, token)
      PROVE  Origin'
  BY <1>2, BoundarySinkOrigin
<1>3. ASSUME NEW c \in Client,
             \/ RecordSource(c) \/ RecordSink(c)
             \/ RecordBoundary(c, "boundary_source_received")
             \/ RecordBoundary(c, "boundary_sink_egressed")
             \/ RecordShadow(c, "shadow_created") \/ RecordShadow(c, "shadow_completed")
      PROVE  Origin'
  BY <1>3, RecordOrigins
<1>4. ASSUME NEW c \in Client,
             \E p \in registered, worker \in Worker, k \in Key :
                \E n \in Node(Def(p)) :
                   \E pipe \in Elements(n.input_pipes), out \in Elements(n.output_pipes) :
                      ExecuteWorker(c, p, pipe, out, worker, k)
      PROVE  Origin'
  BY <1>4, ExecuteWorkerOrigin
<1>5. ASSUME NEW c \in Client,
             \/ Submit(c) \/ Check(c) \/ CreateShadow(c)
             \/ RegisterPromoted(c) \/ MarkPromoted(c) \/ End(c)
      PROVE  Origin'
  BY <1>5, SubmitOrigin, CreateShadowOrigin, OtherOrigins
<1>6. ASSUME NEW c \in Client,
             \/ \E card \in DOMAIN cards, k \in Key : StartShadow(c, card, k)
             \/ \E i \in DOMAIN links : CompleteShadow(c, i)
             \/ \E i \in DOMAIN mutations, p \in Release : StartPromotion(c, i, p)
      PROVE  Origin'
  BY <1>6, OtherOrigins
<1>7. CASE \E p \in registered, payload \in Payload, k \in CardKey : CreateCard(p, payload, k)
  BY <1>7, CreateCardOrigin
<1>8. CASE \/ \E l \in DOMAIN leases : Expire(l)
           \/ ProposeMutation
           \/ \E i \in DOMAIN mutations, accepted \in BOOLEAN : ValidateMutation(i, accepted)
           \/ Restart
           \/ UNCHANGED vars
  BY <1>8, BackgroundOrigins
<1> QED BY <1>1, <1>2, <1>3, <1>4, <1>5, <1>6, <1>7, <1>8 DEF Next

\* Every card, every event and every request under way has its origin: the
\* inductive invariant behind the next three theorems.
THEOREM EverythingHasAnOrigin ==
    ASSUME ClientKeys
    PROVE  Spec => []Origin
<1>1. Core /\ Origin /\ [Next]_vars => Origin'
  BY OriginNext
<1> QED BY <1>1, OriginInit, DeliveryInvariant, PTL DEF Spec

\* However often an external system delivers an event, and whatever is cut
\* short in between: one card, one execution of the source, one reception.
THEOREM DeliveriesAreTakenInOnce ==
    ASSUME KeySegments, ClientKeys
    PROVE  Spec => []DeliveredOnce
<1>1. Core /\ Origin => DeliveredOnce
  <2> SUFFICES ASSUME Core, Origin PROVE DeliveredOnce
    OBVIOUS
  <2>1. ASSUME NEW i \in DOMAIN cards, Delivered(i)
        PROVE  /\ 1 \in DOMAIN history[i] /\ FirstKey(i) = DeliveryKey(i)
               /\ FirstKey(i) # NoKey /\ IsSequence(FirstKey(i))
    <3>1. PICK dedup \in Dedup : dedup = cards[i].payload.dedup /\ dedup # NoKey
      BY <2>1 DEF Origin, CardOrigin, Delivered
    <3>2. PICK n : n = [id |-> cards[i].payload.source]
      OBVIOUS
    <3>3. PICK p \in ValidPanels : p = cards[i].panel
      BY <2>1 DEF Core, RuntimeOK
    <3>4. PICK k : k = BoundaryKey("boundary-source", p, n, dedup)
      OBVIOUS
    <3>5. IsKeyOf(k, "boundary-source", dedup[1])
      BY <3>1, <3>4, BoundaryKeyParts DEF KeySegments
    <3>6. 1 \in DOMAIN history[i] /\ FirstKey(i) = DeliveryKey(i)
      BY <2>1 DEF Origin, CardOrigin
    <3>7. FirstKey(i) = k
      BY <3>1, <3>2, <3>3, <3>4, <3>6 DEF DeliveryKey
    <3> QED BY <3>5, <3>6, <3>7 DEF IsKeyOf
  <2>2. ASSUME NEW i \in DOMAIN cards, NEW j \in DOMAIN cards, Delivered(i), Delivered(j),
               SameDelivery(i, j)
        PROVE  i = j
    <3>1. DeliveryKey(i) = DeliveryKey(j)
      BY <2>2 DEF SameDelivery, DeliveryKey, BoundaryKey
    <3>2. /\ 1 \in DOMAIN history[i] /\ 1 \in DOMAIN history[j]
          /\ history[i][1].key = history[j][1].key /\ history[i][1].key # NoKey
      BY <2>1, <2>2, <3>1 DEF FirstKey
    <3> QED BY <2>2, <3>2 DEF Core, HistoryOK, OneEventPerKey
  <2>3. ASSUME NEW i \in DOMAIN cards, Delivered(i),
               NEW type \in {"source_executed", "boundary_source_received"}
        PROVE  OnlyOne(i, type)
    <3> SUFFICES ASSUME NEW x \in DOMAIN history[i], NEW y \in DOMAIN history[i],
                        history[i][x].type = type, history[i][y].type = type
                 PROVE  x = y
      BY DEF OnlyOne
    <3>1. EventOrigin(i, history[i][x]) /\ EventOrigin(i, history[i][y])
      BY DEF Origin
    <3>2. PICK s : s = IF type = "source_executed" THEN "source" ELSE "event"
      OBVIOUS
    <3>3. PICK k : k = Suffixed(FirstKey(i), s)
      OBVIOUS
    <3>4. history[i][x].key = k /\ history[i][y].key = k
      BY <3>1, <3>2, <3>3 DEF EventOrigin
    <3>5. k # NoKey
      BY <2>1, <2>3, <3>3, SuffixedParts
    <3> QED BY <3>4, <3>5 DEF Core, HistoryOK, OneEventPerKey
  <2> QED BY <2>2, <2>3 DEF DeliveredOnce
<1> QED BY <1>1, DeliveryInvariant, EverythingHasAnOrigin, PTL

\* The contracts of sinks are stable: a sink keeps its panel id and its
\* template from version to version, no other panel has a sink of its name,
\* and the template leaves out what changes from one request to the next, as
\* the default "card_id + sink_id" does.
StableEgress ==
    /\ \A p, q \in ValidPanels : \A m \in Node(Def(p)), n \in Node(Def(q)) :
          m.type = "sink" /\ n.type = "sink" /\ m.id = n.id =>
             Def(p).id = Def(q).id /\ egress_template(m) = egress_template(n)
    /\ \A p \in ValidPanels : \A n \in Node(Def(p)) : n.type = "sink" =>
          /\ IsSequence(egress_template(n)) /\ egress_template(n) # << >>
          /\ \A i \in DOMAIN egress_template(n) :
                egress_template(n)[i] \in {"card_id", "sink_id", "workflow_version"}

\* Then the card has one key for a sink.
LEMMA OneEgressKey ==
    ASSUME KeySegments, StableEgress, NEW card, NEW sink, NEW j, EgressKey(j, card, sink),
           NEW k, EgressKey(k, card, sink)
    PROVE  j = k /\ k # NoKey /\ IsSequence(k)
<1>1. PICK p \in ValidPanels : \E m \in Node(Def(p)), x \in External :
          /\ m.type = "sink" /\ m.id = sink
          /\ j = BoundaryKey("boundary-sink", p, m, render_template(m, card, x))
  BY DEF EgressKey
<1>2. PICK m \in Node(Def(p)), x \in External :
          /\ m.type = "sink" /\ m.id = sink
          /\ j = BoundaryKey("boundary-sink", p, m, render_template(m, card, x))
  BY <1>1
<1>3. PICK q \in ValidPanels : \E n \in Node(Def(q)), y \in External :
          /\ n.type = "sink" /\ n.id = sink
          /\ k = BoundaryKey("boundary-sink", q, n, render_template(n, card, y))
  BY DEF EgressKey
<1>4. PICK n \in Node(Def(q)), y \in External :
          /\ n.type = "sink" /\ n.id = sink
          /\ k = BoundaryKey("boundary-sink", q, n, render_template(n, card, y))
  BY <1>3
<1>5. Def(p).id = Def(q).id /\ egress_template(m) = egress_template(n)
  BY <1>2, <1>4 DEF StableEgress
<1>6. PICK names : names = egress_template(n)
  OBVIOUS
<1>7. /\ IsSequence(names) /\ names # << >>
      /\ \A i \in DOMAIN names : names[i] \in {"card_id", "sink_id", "workflow_version"}
  BY <1>4, <1>6 DEF StableEgress
<1>8. \A i \in DOMAIN names :
         RenderedName(names[i], m, card, x) = RenderedName(names[i], n, card, y)
  BY <1>2, <1>4, <1>7 DEF RenderedName
<1>9. render_template(m, card, x) = render_template(n, card, y)
  BY <1>5, <1>6, <1>8 DEF render_template
<1>10. PICK key : key = render_template(n, card, y)
  OBVIOUS
<1>11. IsSequence(key) /\ key # NoKey
  <2>1. key = [i \in DOMAIN names |-> RenderedName(names[i], n, card, y)]
    BY <1>6, <1>10 DEF render_template
  <2>2. key = [i \in DOMAIN names |-> key[i]] /\ DOMAIN key = DOMAIN names
    BY <2>1
  <2>3. IsSequence(key)
    BY <1>7, <2>2, SequenceMap
  <2>4. DOMAIN names # {}
    BY <1>7 DEF IsSequence
  <2> QED BY <2>2, <2>3, <2>4 DEF NoKey
<1>12. j = k
  BY <1>2, <1>4, <1>5, <1>9 DEF BoundaryKey
<1>13. IsKeyOf(k, "boundary-sink", key[1])
  BY <1>4, <1>10, <1>11, BoundaryKeyParts
<1> QED BY <1>12, <1>13 DEF IsKeyOf

\* However often a sink is asked to send a card out, and whatever the external
\* system answers each time: one execution and one egress of each card.
THEOREM CardsAreSentOutOnce ==
    ASSUME KeySegments, ClientKeys, StableEgress
    PROVE  Spec => []EgressedOnce
<1>1. Core /\ Origin => EgressedOnce
  <2> SUFFICES ASSUME Core, Origin, NEW card \in DOMAIN cards, NEW x \in DOMAIN history[card],
                      NEW y \in DOMAIN history[card], history[card][x].type \in EgressType,
                      history[card][x].type = history[card][y].type,
                      history[card][x].actor = history[card][y].actor
               PROVE  x = y
    BY DEF EgressedOnce, EgressType
  <2>1. PICK d : d = history[card][x]
    OBVIOUS
  <2>2. PICK e : e = history[card][y]
    OBVIOUS
  <2>3. EventOrigin(card, d) /\ EventOrigin(card, e) /\ d.type = e.type /\ d.actor = e.actor
    BY <2>1, <2>2 DEF Origin
  <2>4. d.key = e.key /\ e.key # NoKey
    <3>1. CASE d.type = "sink_executed"
      <4>1. EgressKey(d.key, card, d.actor) /\ EgressKey(e.key, card, d.actor)
        BY <2>3, <3>1 DEF EventOrigin
      <4> QED BY <4>1, OneEgressKey
    <3>2. CASE d.type = "boundary_sink_egressed"
      <4>1. PICK j : EgressKey(j, card, d.actor) /\ d.key = Suffixed(j, "event")
        BY <2>3, <3>2 DEF EventOrigin
      <4>2. PICK k : EgressKey(k, card, d.actor) /\ e.key = Suffixed(k, "event")
        BY <2>3, <3>2 DEF EventOrigin
      <4>3. j = k /\ k # NoKey /\ IsSequence(k)
        BY <4>1, <4>2, OneEgressKey
      <4>4. e.key # NoKey
        BY <4>2, <4>3, SuffixedParts
      <4> QED BY <4>1, <4>2, <4>3, <4>4
    <3> QED BY <2>1, <3>1, <3>2 DEF EgressType
  <2> QED BY <2>1, <2>2, <2>4 DEF Core, HistoryOK, OneEventPerKey
<1> QED BY <1>1, DeliveryInvariant, EverythingHasAnOrigin, PTL

\* A repeated execute_worker holds the card that was submitted under its key:
\* the claim of the retry is the claim of the first request.
THEOREM RetriedWorkersContinue ==
    ASSUME ClientKeys
    PROVE  Spec => []RetriesContinue
<1>1. Core /\ Origin => RetriesContinue
  <2> SUFFICES ASSUME Core, Origin, NEW c \in Client, NEW card \in DOMAIN cards,
                      At(c, "submit") \/ At(c, "check"), call[c].key # NoKey,
                      NEW e \in Events(card), e.type = "artifact_submitted",
                      e.key = Suffixed(call[c].key, "submit")
               PROVE  call[c].card = card
    BY DEF RetriesContinue
  <2>1. PICK t : t = call[c]
    OBVIOUS
  <2>2. CallOK(t) /\ t.todo # << >> /\ (Head(t.todo) = "submit" \/ Head(t.todo) = "check")
    BY <2>1, AtStep DEF Core
  <2>3. t.todo = Work1 \/ t.todo = Work2
    BY <2>2, FirstSteps DEF CallOK
  <2>4. ClaimedUnder(t.key, t.card)
    BY <2>1, <2>3 DEF Origin, CallOrigin
  <2>5. PICK x \in DOMAIN history[card] : e = history[card][x]
    BY ElementAt DEF Events
  <2>6. EventOrigin(card, e)
    BY <2>5 DEF Origin
  <2>7. PICK k : ClaimedUnder(k, card) /\ e.key = Suffixed(k, "submit")
    BY <2>6 DEF EventOrigin
  <2>8. t.key # NoKey /\ IsSequence(t.key)
    BY <2>1, <2>4 DEF ClientKeys, ClaimedUnder
  <2>9. e.key = Append(t.key, "submit") /\ e.key # NoKey
    BY <2>1, <2>8, SuffixedParts
  <2>10. k # NoKey
    BY <2>7, <2>9 DEF Suffixed
  <2>11. IsSequence(k) /\ e.key = Append(k, "submit")
    BY <2>7, <2>10 DEF ClientKeys, ClaimedUnder, Suffixed
  <2>12. k = t.key
    <3>1. Append(k, "submit") = Append(t.key, "submit")
      BY <2>9, <2>11
    <3> QED BY <2>8, <2>11, <3>1, AppendInjective
  <2> QED BY <2>1, <2>4, <2>7, <2>8, <2>12 DEF ClaimedUnder
<1> QED BY <1>1, DeliveryInvariant, EverythingHasAnOrigin, PTL
=============================================================================
