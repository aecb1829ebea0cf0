------------------------- MODULE NodeExecutorProofs -------------------------
(***************************************************************************)
(* What the calls of CardCalls and NodeExecutor do to the runtime, for any  *)
(* panels: the lemmas that the proofs about the services above share.       *)
(***************************************************************************)
EXTENDS NodeExecutor, PatchPanelLemmas

IsCard(x) == x = [panel |-> x.panel, bucket |-> x.bucket, payload |-> x.payload,
                  shadow |-> x.shadow]

\* The runtime's tables: every card is in a bucket of its panel, which is
\* valid and registered, and has a history; every key is of a card.
RuntimeOK ==
    /\ registered \subseteq ValidPanels
    /\ IsSequence(cards) /\ IsSequence(history) /\ DOMAIN history = DOMAIN cards
    /\ \A i \in DOMAIN cards : /\ IsCard(cards[i])
                               /\ cards[i].panel \in registered
                               /\ cards[i].bucket \in DOMAIN Def(cards[i].panel).buckets
                               /\ IsSequence(history[i])
    /\ \A k \in DOMAIN keys : keys[k].card \in DOMAIN cards

\* Nothing durable is lost: panels, cards, evidence and keys stay, and a card
\* keeps everything but its bucket.
Grows ==
    /\ registered \subseteq registered'
    /\ DOMAIN cards \subseteq DOMAIN cards'
    /\ \A i \in DOMAIN cards : /\ cards'[i].panel = cards[i].panel
                               /\ cards'[i].payload = cards[i].payload
                               /\ cards'[i].shadow = cards[i].shadow
                               /\ \A x \in DOMAIN history[i] :
                                     x \in DOMAIN history'[i] /\ history'[i][x] = history[i][x]
    /\ \A k \in DOMAIN keys : k \in DOMAIN keys' /\ keys'[k] = keys[k]

\* The call added the event e to the history of card c, and no other.
Appended(c, e) ==
    /\ DOMAIN cards' = DOMAIN cards
    /\ DOMAIN history'[c] = DOMAIN history[c] \union {Len(history[c]) + 1}
    /\ Len(history[c]) + 1 \notin DOMAIN history[c]
    /\ history'[c][Len(history[c]) + 1] = e
    /\ \A x \in DOMAIN history[c] : history'[c][x] = history[c][x]
    /\ \A i \in DOMAIN cards : i # c => history'[i] = history[i]

\* The call stored its key k, which was free, for card c, or had none.
Keyed(k, type, c) ==
    /\ k \notin DOMAIN keys
    /\ DOMAIN keys' = DOMAIN keys \union ({k} \ {NoKey})
    /\ \A j \in DOMAIN keys : keys'[j] = keys[j]
    /\ k # NoKey => keys'[k].card = c /\ keys'[k].type = type

-----------------------------------------------------------------------------
(* Panels.                                                                  *)

\* The bindings of a valid panel lead to its buckets.
LEMMA BoundBuckets ==
    ASSUME NEW p \in ValidPanels, NEW pipe \in DOMAIN Def(p).pipe_bindings
    PROVE  Def(p).pipe_bindings[pipe].bucket \in DOMAIN Def(p).buckets
BY DEF ValidPanels, Def, validate, validate_pipe_bindings

\* So do the initial pipe and every pipe that resolves.
LEMMA InitialBucket ==
    ASSUME NEW p \in ValidPanels, HasInitialBucket(Def(p))
    PROVE  resolve_initial_bucket(Def(p)) \in DOMAIN Def(p).buckets
BY BoundBuckets DEF HasInitialBucket, resolve_initial_bucket

\* A pipe that _binding_for_pipe resolves leads to a bucket of the panel.
LEMMA ResolvedBucket ==
    ASSUME NEW p \in ValidPanels, NEW pipe, NEW direction, Resolvable(Def(p), pipe, direction)
    PROVE  pipe_bucket(Def(p), pipe) \in DOMAIN Def(p).buckets
BY BoundBuckets DEF Resolvable, IsBound, pipe_bucket

-----------------------------------------------------------------------------
(* The calls.                                                               *)

\* A call that answers from its key, or fails, changes nothing.
LEMMA NoChange ==
    ASSUME RuntimeOK, UNCHANGED runtimeVars
    PROVE  RuntimeOK' /\ Grows
BY DEF RuntimeOK, Grows, runtimeVars

\* _store_idempotency of a key that is free.
LEMMA StoreKey ==
    ASSUME NEW k, NEW type, NEW c, NEW event, Fresh(k), store_idempotency(k, type, c, event)
    PROVE  Keyed(k, type, c)
<1>1. CASE k = NoKey
  BY <1>1 DEF store_idempotency, Keyed, Fresh
<1>2. CASE k # NoKey
  BY <1>2 DEF store_idempotency, Keyed, Fresh
<1> QED BY <1>1, <1>2

\* register_patch_panel: afterwards the version is registered.
LEMMA RegisterCall ==
    ASSUME RuntimeOK, NEW p, register_patch_panel(p)
    PROVE  /\ RuntimeOK' /\ Grows /\ UNCHANGED <<cards, history, keys>>
           /\ registered' \subseteq registered \union {p}
           /\ \E q \in registered' : SameVersion(q, p)
<1>1. /\ p \in ValidPanels /\ UNCHANGED <<cards, history, keys>>
      /\ registered' = IF \E q \in registered : SameVersion(p, q) THEN registered
                       ELSE registered \union {p}
  BY DEF register_patch_panel
<1>2. registered \subseteq registered' /\ registered' \subseteq registered \union {p}
  BY <1>1
<1>3. \E q \in registered' : SameVersion(q, p)
  BY <1>1 DEF SameVersion
<1>4. RuntimeOK'
  BY <1>1, <1>2 DEF RuntimeOK
<1>5. Grows
  BY <1>1, <1>2 DEF Grows
<1> QED BY <1>1, <1>2, <1>3, <1>4, <1>5

\* create_card: the card of the key, or a new one in the first bucket of an
\* active panel, with its first event.
LEMMA CreateCall ==
    ASSUME RuntimeOK, NEW id, NEW payload, NEW shadow, NEW k, NEW c,
           create_card(id, payload, shadow, k, c)
    PROVE  /\ RuntimeOK' /\ Grows /\ registered' = registered
           /\ c \in DOMAIN cards'
           /\ \/ Stored(k, "card") /\ c = keys[k].card /\ UNCHANGED runtimeVars
              \/ /\ c \notin DOMAIN cards /\ DOMAIN cards' = DOMAIN cards \union {c}
                 /\ cards'[c].panel \in ActivePanels(id)
                 /\ cards'[c].payload = payload /\ cards'[c].shadow = shadow
                 /\ history'[c] = <<MkEvent("card_created", None, None, None, None, k)>>
                 /\ \A i \in DOMAIN cards : cards'[i] = cards[i] /\ history'[i] = history[i]
                 /\ Keyed(k, "card", c)
<1>1. CASE Stored(k, "card") /\ c = keys[k].card /\ UNCHANGED runtimeVars
  <2>1. c \in DOMAIN cards
    BY <1>1 DEF RuntimeOK, Stored
  <2> QED BY <1>1, <2>1, NoChange DEF runtimeVars
<1>2. CASE /\ Fresh(k) /\ c = Len(cards) + 1
           /\ \E p \in ActivePanels(id) :
                 cards' = Append(cards, [panel |-> p, bucket |-> resolve_initial_bucket(Def(p)),
                                         payload |-> payload, shadow |-> shadow])
           /\ history' = Append(history, <<MkEvent("card_created", None, None, None, None, k)>>)
           /\ store_idempotency(k, "card", c, 0)
           /\ UNCHANGED registered
  <2>1. PICK p \in ActivePanels(id) :
              cards' = Append(cards, [panel |-> p, bucket |-> resolve_initial_bucket(Def(p)),
                                      payload |-> payload, shadow |-> shadow])
    BY <1>2
  <2>2. PICK x : x = [panel |-> p, bucket |-> resolve_initial_bucket(Def(p)),
                      payload |-> payload, shadow |-> shadow]
    OBVIOUS
  <2>3. /\ IsCard(x) /\ x.panel = p /\ x.bucket = resolve_initial_bucket(Def(p))
        /\ x.payload = payload /\ x.shadow = shadow
    BY <2>2 DEF IsCard
  <2>4. p \in registered /\ p \in ValidPanels /\ HasInitialBucket(Def(p))
    BY DEF ActivePanels, RuntimeOK
  <2>5. resolve_initial_bucket(Def(p)) \in DOMAIN Def(p).buckets
    BY <2>4, InitialBucket
  <2>6. PICK h : h = <<MkEvent("card_created", None, None, None, None, k)>>
    OBVIOUS
  <2>7. IsSequence(h)
    <3>1. PICK e : e = MkEvent("card_created", None, None, None, None, k)
      OBVIOUS
    <3> QED BY <2>6, <3>1 DEF IsSequence, Elements
  <2>8. /\ IsSequence(cards') /\ DOMAIN cards' = DOMAIN cards \union {c} /\ c \notin DOMAIN cards
        /\ cards'[c] = x /\ \A i \in DOMAIN cards : cards'[i] = cards[i]
    BY <1>2, <2>1, <2>2, SequenceAppend DEF RuntimeOK
  <2>9. Len(history) = Len(cards)
    BY DEF RuntimeOK, IsSequence
  <2>10. /\ IsSequence(history') /\ DOMAIN history' = DOMAIN history \union {c}
         /\ history'[c] = h /\ \A i \in DOMAIN history : history'[i] = history[i]
    BY <1>2, <2>6, <2>9, SequenceAppend DEF RuntimeOK
  <2>11. Keyed(k, "card", c)
    BY <1>2, StoreKey
  <2>12. RuntimeOK'
    <3>1. \A i \in DOMAIN cards' : /\ IsCard(cards'[i])
                                   /\ cards'[i].panel \in registered'
                                   /\ cards'[i].bucket \in DOMAIN Def(cards'[i].panel).buckets
                                   /\ IsSequence(history'[i])
      BY <1>2, <2>3, <2>4, <2>5, <2>7, <2>8, <2>10 DEF RuntimeOK
    <3>2. \A j \in DOMAIN keys' : keys'[j].card \in DOMAIN cards'
      BY <2>8, <2>11 DEF RuntimeOK, Keyed
    <3>3. DOMAIN history' = DOMAIN cards' /\ registered' \subseteq ValidPanels
      BY <1>2, <2>8, <2>10 DEF RuntimeOK
    <3> QED BY <2>8, <2>10, <3>1, <3>2, <3>3 DEF RuntimeOK
  <2>13. Grows
    BY <1>2, <2>8, <2>10, <2>11 DEF Grows, RuntimeOK, Keyed
  <2> QED BY <1>2, <2>3, <2>6, <2>8, <2>10, <2>11, <2>12, <2>13 DEF RuntimeOK
<1> QED BY <1>1, <1>2 DEF create_card

\* A call that records the event e of card c and may move the card to a
\* bucket of its panel.
LEMMA AppendCall ==
    ASSUME RuntimeOK, NEW c \in DOMAIN cards, NEW e, NEW bucket,
           history' = [history EXCEPT ![c] = Append(history[c], e)],
           \/ cards' = cards
           \/ /\ cards' = [cards EXCEPT ![c].bucket = bucket]
              /\ bucket \in DOMAIN Def(cards[c].panel).buckets,
           registered' = registered,
           NEW k, NEW type, Keyed(k, type, c) \/ keys' = keys
    PROVE  RuntimeOK' /\ Grows /\ Appended(c, e)
<1>1. /\ IsSequence(cards) /\ IsSequence(history) /\ DOMAIN history = DOMAIN cards
      /\ IsSequence(history[c]) /\ IsCard(cards[c])
  BY DEF RuntimeOK
<1>2. PICK h : h = Append(history[c], e)
  OBVIOUS
<1>3. /\ IsSequence(h) /\ DOMAIN h = DOMAIN history[c] \union {Len(history[c]) + 1}
      /\ Len(history[c]) + 1 \notin DOMAIN history[c] /\ h[Len(history[c]) + 1] = e
      /\ \A x \in DOMAIN history[c] : h[x] = history[c][x]
  BY <1>1, <1>2, SequenceAppend
<1>4. history' = [i \in DOMAIN history |-> IF i = c THEN h ELSE history[i]]
  <2>1. history = [i \in DOMAIN history |-> history[i]]
    BY <1>1 DEF IsSequence
  <2> QED BY <1>2, <2>1
<1>5. IsSequence(history') /\ DOMAIN history' = DOMAIN history
  <2>1. DOMAIN history' = DOMAIN history /\ history' = [i \in DOMAIN history |-> history'[i]]
    BY <1>4
  <2> QED BY <1>1, <2>1, SequenceMap
<1>6. /\ IsSequence(cards') /\ DOMAIN cards' = DOMAIN cards
      /\ \A i \in DOMAIN cards : /\ IsCard(cards'[i]) /\ cards'[i].panel = cards[i].panel
                                 /\ cards'[i].payload = cards[i].payload
                                 /\ cards'[i].shadow = cards[i].shadow
                                 /\ cards'[i].bucket \in DOMAIN Def(cards[i].panel).buckets
  <2>1. CASE cards' = cards
    BY <2>1 DEF RuntimeOK
  <2>2. CASE /\ cards' = [cards EXCEPT ![c].bucket = bucket]
             /\ bucket \in DOMAIN Def(cards[c].panel).buckets
    <3>1. PICK x : x = [cards[c] EXCEPT !.bucket = bucket]
      OBVIOUS
    <3>2. /\ IsCard(x) /\ x.panel = cards[c].panel /\ x.payload = cards[c].payload
          /\ x.shadow = cards[c].shadow /\ x.bucket = bucket
      BY <1>1, <3>1 DEF IsCard
    <3>3. cards = [i \in DOMAIN cards |-> cards[i]]
      BY <1>1 DEF IsSequence
    <3>4. cards' = [i \in DOMAIN cards |-> IF i = c THEN x ELSE cards[i]]
      BY <2>2, <3>1, <3>3
    <3>5. IsSequence(cards') /\ DOMAIN cards' = DOMAIN cards
      <4>1. DOMAIN cards' = DOMAIN cards /\ cards' = [i \in DOMAIN cards |-> cards'[i]]
        BY <3>4
      <4> QED BY <1>1, <4>1, SequenceMap
    <3> QED BY <2>2, <3>2, <3>4, <3>5 DEF RuntimeOK
  <2> QED BY <2>1, <2>2
<1>7. RuntimeOK'
  <2>1. \A i \in DOMAIN cards' : cards'[i].panel \in registered' /\ IsSequence(history'[i])
    BY <1>1, <1>3, <1>4, <1>6 DEF RuntimeOK
  <2>2. \A j \in DOMAIN keys' : keys'[j].card \in DOMAIN cards'
    BY <1>6 DEF RuntimeOK, Keyed
  <2>3. registered' \subseteq ValidPanels /\ DOMAIN history' = DOMAIN cards'
    BY <1>1, <1>5, <1>6 DEF RuntimeOK
  <2> QED BY <1>5, <1>6, <2>1, <2>2, <2>3 DEF RuntimeOK
<1>8. Grows
  BY <1>1, <1>3, <1>4, <1>6 DEF Grows, Keyed
<1>9. Appended(c, e)
  BY <1>1, <1>3, <1>4, <1>6 DEF Appended
<1> QED BY <1>7, <1>8, <1>9

\* record_event: nothing if the key is known, else one event.
LEMMA RecordCall ==
    ASSUME RuntimeOK, NEW c \in DOMAIN cards, NEW e, record_event(c, e)
    PROVE  /\ RuntimeOK' /\ Grows /\ UNCHANGED <<registered, cards>>
           /\ \/ Stored(e.key, "event") /\ UNCHANGED runtimeVars
              \/ Appended(c, e) /\ Keyed(e.key, "event", c)
<1>1. CASE Stored(e.key, "event") /\ UNCHANGED runtimeVars
  BY <1>1, NoChange DEF runtimeVars
<1>2. CASE Fresh(e.key) /\ AddEvent(c, e) /\ UNCHANGED <<registered, cards>>
  <2>1. Keyed(e.key, "event", c)
    BY <1>2, StoreKey DEF AddEvent
  <2>2. history' = [history EXCEPT ![c] = Append(history[c], e)]
    BY <1>2 DEF AddEvent
  <2>3. RuntimeOK' /\ Grows /\ Appended(c, e)
    BY <1>2, <2>1, <2>2, AppendCall
  <2> QED BY <1>2, <2>1, <2>3
<1> QED BY <1>1, <1>2 DEF record_event

\* validate_card: nothing if the key is known, else one event, and the card
\* goes where the exit leads.
LEMMA ValidateCall ==
    ASSUME RuntimeOK, NEW c \in DOMAIN cards, NEW actor, NEW accepted, NEW pipe, NEW k,
           validate_card(c, actor, accepted, pipe, k)
    PROVE  /\ RuntimeOK' /\ Grows /\ registered' = registered
           /\ \/ UNCHANGED runtimeVars
              \/ /\ Appended(c, MkEvent("card_validated", actor, accepted, pipe, None, k))
                 /\ Keyed(k, "event", c)
<1>1. CASE UNCHANGED runtimeVars
  BY <1>1, NoChange DEF runtimeVars
<1>2. CASE /\ Fresh(k)
           /\ \/ pipe = None /\ UNCHANGED cards
              \/ /\ pipe # None
                 /\ Resolvable(Def(cards[c].panel), pipe, "output")
                 /\ cards' = [cards EXCEPT ![c].bucket = pipe_bucket(Def(cards[c].panel), pipe)]
           /\ AddEvent(c, MkEvent("card_validated", actor, accepted, pipe, None, k))
           /\ UNCHANGED registered
  <2>1. PICK e : e = MkEvent("card_validated", actor, accepted, pipe, None, k)
    OBVIOUS
  <2>2. e.key = k
    BY <2>1 DEF MkEvent
  <2>3. Keyed(k, "event", c)
    BY <1>2, <2>1, <2>2, StoreKey DEF AddEvent
  <2>4. history' = [history EXCEPT ![c] = Append(history[c], e)]
    BY <1>2, <2>1 DEF AddEvent
  <2>5. cards[c].panel \in ValidPanels
    BY DEF RuntimeOK
  <2>6. \/ cards' = cards
        \/ /\ cards' = [cards EXCEPT ![c].bucket = pipe_bucket(Def(cards[c].panel), pipe)]
           /\ pipe_bucket(Def(cards[c].panel), pipe) \in DOMAIN Def(cards[c].panel).buckets
    BY <1>2, <2>5, ResolvedBucket
  <2>7. RuntimeOK' /\ Grows /\ Appended(c, e)
    BY <1>2, <2>3, <2>4, <2>6, AppendCall
  <2> QED BY <1>2, <2>1, <2>3, <2>7
<1> QED BY <1>1, <1>2 DEF validate_card

\* move_card: one event, and the card is in the bucket.
LEMMA MoveCall ==
    ASSUME RuntimeOK, NEW c \in DOMAIN cards, NEW bucket, move_card(c, bucket)
    PROVE  /\ RuntimeOK' /\ Grows /\ UNCHANGED <<registered, keys>>
           /\ Appended(c, MkEvent("card_moved", None, None, None, None, NoKey))
<1>1. PICK e : e = MkEvent("card_moved", None, None, None, None, NoKey)
  OBVIOUS
<1>2. /\ history' = [history EXCEPT ![c] = Append(history[c], e)]
      /\ cards' = [cards EXCEPT ![c].bucket = bucket]
      /\ bucket \in DOMAIN Def(cards[c].panel).buckets
      /\ registered' = registered /\ keys' = keys
  BY <1>1 DEF move_card
<1>3. RuntimeOK' /\ Grows /\ Appended(c, e)
  BY <1>2, AppendCall
<1> QED BY <1>1, <1>2, <1>3

\* What has happened stays: an approval once given remains in the history.
LEMMA ApprovalStays ==
    ASSUME RuntimeOK, Grows, NEW c \in DOMAIN cards, NEW v, NEW exit, Approved(c, v, exit)
    PROVE  Approved(c, v, exit)'
<1>1. PICK x \in DOMAIN history[c] : /\ history[c][x].type = "card_validated"
                                     /\ history[c][x].actor = v
                                     /\ history[c][x].accepted = TRUE
                                     /\ history[c][x].pipe = exit
  BY DEF Approved, Events, Elements
<1>2. x \in DOMAIN history'[c] /\ history'[c][x] = history[c][x]
  BY <1>1 DEF Grows
<1>3. history'[c][x] \in Elements(history'[c])
  BY <1>2 DEF Elements
<1> QED BY <1>1, <1>2, <1>3 DEF Approved, Events

\* The events of card c after an event was added to card d.
LEMMA EventsAfter ==
    ASSUME RuntimeOK, NEW d \in DOMAIN cards, NEW e, Appended(d, e), NEW c \in DOMAIN cards',
           NEW f \in Events(c)'
    PROVE  c \in DOMAIN cards /\ (f \in Events(c) \/ (c = d /\ f = e))
<1>1. c \in DOMAIN cards
  BY DEF Appended
<1>2. PICK x \in DOMAIN history'[c] : f = history'[c][x]
  BY DEF Events, Elements
<1>3. CASE c # d
  <2>1. x \in DOMAIN history[c] /\ f = history[c][x]
    BY <1>1, <1>2, <1>3 DEF Appended
  <2> QED BY <1>1, <2>1, ElementAt DEF Events
<1>4. CASE c = d
  <2>1. x \in DOMAIN history[d] \/ f = e
    BY <1>2, <1>4 DEF Appended
  <2>2. x \in DOMAIN history[d] => f = history[d][x]
    BY <1>2, <1>4 DEF Appended
  <2> QED BY <1>1, <1>4, <2>1, <2>2, ElementAt DEF Events
<1> QED BY <1>3, <1>4

\* The events of card c after card d was made.
LEMMA EventsCreated ==
    ASSUME NEW d, DOMAIN cards' = DOMAIN cards \union {d}, NEW e, history'[d] = <<e>>,
           \A i \in DOMAIN cards : history'[i] = history[i],
           NEW c \in DOMAIN cards', NEW f \in Events(c)'
    PROVE  (c \in DOMAIN cards /\ f \in Events(c)) \/ (c = d /\ f = e)
<1>1. CASE c \in DOMAIN cards
  <2>1. f \in Elements(history'[c])
    BY DEF Events
  <2> QED BY <1>1, <2>1 DEF Events
<1>2. CASE c = d
  BY <1>2 DEF Events, Elements
<1> QED BY <1>1, <1>2

-----------------------------------------------------------------------------
(* Requests under way.                                                      *)

IsCall(t) == t = [todo |-> t.todo, node |-> t.node, card |-> t.card, key |-> t.key,
                  ref |-> t.ref, data |-> t.data]

\* A request goes on, or has been answered.
LEMMA ProceedCall ==
    ASSUME NEW c \in Client, call = [d \in Client |-> call[d]], IsCall(call[c]),
           NEW todo, NEW ref, NEW data, Proceed(c, todo, ref, data)
    PROVE  \E u : /\ call' = [call EXCEPT ![c] = u]
                  /\ IsCall(u) /\ u.todo = todo
                  /\ todo = << >> => u = Idle
                  /\ todo # << >> =>
                        /\ u.node = call[c].node /\ u.card = call[c].card
                        /\ u.key = call[c].key /\ u.ref = ref /\ u.data = data
<1>1. PICK t : t = call[c]
  OBVIOUS
<1>2. CASE todo = << >>
  <2>1. IsCall(Idle) /\ Idle.todo = << >>
    BY DEF IsCall, Idle, MkCall
  <2>2. call' = [call EXCEPT ![c] = Idle]
    BY <1>2 DEF Proceed
  <2> QED BY <1>2, <2>1, <2>2
<1>3. CASE todo # << >>
  <2>1. PICK u : u = [t EXCEPT !.todo = todo, !.ref = ref, !.data = data]
    OBVIOUS
  <2>2. /\ IsCall(u) /\ u.todo = todo /\ u.node = t.node /\ u.card = t.card /\ u.key = t.key
        /\ u.ref = ref /\ u.data = data
    BY <1>1, <2>1 DEF IsCall
  <2>3. call' = [call EXCEPT ![c] = u]
    BY <1>1, <1>3, <2>1 DEF Proceed
  <2> QED BY <1>1, <1>3, <2>2, <2>3
<1> QED BY <1>2, <1>3

\* The fields of a request that begins.
LEMMA BeginCall ==
    ASSUME NEW todo, NEW node, NEW card, NEW k, NEW data, NEW u,
           u = MkCall(todo, node, card, k, data)
    PROVE  /\ IsCall(u) /\ u.todo = todo /\ u.node = node /\ u.card = card /\ u.key = k
           /\ u.ref = None /\ u.data = data
BY DEF IsCall, MkCall
=============================================================================
