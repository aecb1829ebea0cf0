------------------------- MODULE PublicationProofs -------------------------
(***************************************************************************)
(* Proofs about Publication and Genesis, for every number of clients, panels *)
(* and cards: whatever requests race or are cut short, what is in the index  *)
(* is registered and what a sink published was approved.                     *)
(***************************************************************************)
EXTENDS Genesis, NodeExecutorProofs

\* What a request has still to do.  A source has its record to make ...
Sourced == <<"source_executed">>
\* ... the bootstrap registers, searches and, if need be, publishes ...
Boot1 == <<"register", "search">>
Boot2 == <<"search">>
Boot3 == <<"publish">>
\* ... and so does the sink, after the history and before its record.
Sink1 == <<"history", "register", "search", "sink_executed">>
Sink2 == <<"register", "search", "sink_executed">>
Sink3 == <<"search", "sink_executed">>
Sink4 == <<"publish", "sink_executed">>
Sink5 == <<"sink_executed">>
Indexing == <<"index">>
Writing == <<"write">>
Intending == <<"intent">>
Launching == <<"launch">>
Proposing == <<"propose">>

\* The first step of each of these, and what is left after it.
LEMMA FirstSteps ==
    /\ Head(Sourced) = "source_executed" /\ Head(Boot1) = "register" /\ Head(Boot2) = "search"
    /\ Head(Boot3) = "publish" /\ Head(Sink1) = "history" /\ Head(Sink2) = "register"
    /\ Head(Sink3) = "search" /\ Head(Sink4) = "publish" /\ Head(Sink5) = "sink_executed"
    /\ Head(Indexing) = "index" /\ Head(Writing) = "write" /\ Head(Intending) = "intent"
    /\ Head(Launching) = "launch" /\ Head(Proposing) = "propose"
BY DEF Sourced, Boot1, Boot2, Boot3, Sink1, Sink2, Sink3, Sink4, Sink5, Indexing, Writing,
       Intending, Launching, Proposing

\* What is left of each program after its first step.
LEMMA LaterSteps ==
    /\ Tail(Sourced) = << >> /\ Tail(Boot1) = Boot2 /\ Tail(Boot2) = << >>
    /\ Tail(Boot3) = << >> /\ Tail(Sink1) = Sink2 /\ Tail(Sink2) = Sink3
    /\ Tail(Sink3) = Sink5 /\ Tail(Sink4) = Sink5 /\ Tail(Sink5) = << >>
    /\ Tail(Indexing) = << >> /\ Tail(Writing) = << >> /\ Tail(Intending) = << >>
    /\ Tail(Launching) = << >> /\ Tail(Proposing) = << >>
<1>1. /\ Tail(Sourced) = << >> /\ Tail(Boot2) = << >> /\ Tail(Boot3) = << >>
      /\ Tail(Sink5) = << >> /\ Tail(Indexing) = << >> /\ Tail(Writing) = << >>
      /\ Tail(Intending) = << >> /\ Tail(Launching) = << >> /\ Tail(Proposing) = << >>
  BY DEF Sourced, Boot2, Boot3, Sink5, Indexing, Writing, Intending, Launching, Proposing
<1>2. Tail(Boot1) = Boot2
  BY DEF Boot1, Boot2
<1>3. Tail(Sink1) = Sink2
  BY DEF Sink1, Sink2
<1>4. Tail(Sink2) = Sink3
  BY DEF Sink2, Sink3
<1>5. Tail(Sink3) = Sink5 /\ Tail(Sink4) = Sink5
  BY DEF Sink3, Sink4, Sink5
<1> QED BY <1>1, <1>2, <1>3, <1>4, <1>5

\* None of the programs is finished.
LEMMA Unfinished ==
    /\ Sourced # << >> /\ Boot1 # << >> /\ Boot2 # << >> /\ Boot3 # << >> /\ Sink1 # << >>
    /\ Sink2 # << >> /\ Sink3 # << >> /\ Sink4 # << >> /\ Sink5 # << >> /\ Indexing # << >>
    /\ Writing # << >> /\ Intending # << >> /\ Launching # << >> /\ Proposing # << >>
BY DEF Sourced, Boot1, Boot2, Boot3, Sink1, Sink2, Sink3, Sink4, Sink5, Indexing, Writing,
       Intending, Launching, Proposing

\* What Search puts in front of the rest of a request, with and without a
\* sink's record to write.
LEMMA PublishSteps == /\ <<"publish">> \o << >> = Boot3
                      /\ <<"publish">> \o Sink5 = Sink4
<1>1. <<"publish">> \o << >> = Boot3
  BY DEF Boot3
<1> DEFINE a == <<"publish">> \o Sink5
           S == {"publish", "sink_executed"}
<1>2. /\ a \in Seq(S) /\ Sink4 \in Seq(S) /\ Len(a) = 2 /\ Len(Sink4) = 2
      /\ a[1] = Sink4[1] /\ a[2] = Sink4[2]
  BY DEF Sink4, Sink5
<1> HIDE DEF a, S
<1>3. \A i \in 1..Len(a) : a[i] = Sink4[i]
  BY <1>2
<1>4. a = Sink4
  BY <1>2, <1>3
<1> QED BY <1>1, <1>4 DEF a

-----------------------------------------------------------------------------
(* The inductive invariant.                                                 *)

IsRegistered(p) == \E q \in registered : SameVersion(q, p)

Approvals(card) ==
    /\ card \in DOMAIN cards
    /\ Approved(card, "topological_validator", "topology_valid")
    /\ Approved(card, "governance_reviewer", "proposal_approved")

IsEntry(e) == e = [panel |-> e.panel, status |-> e.status, origin |-> e.origin, card |-> e.card]

\* A row that may be in the index.
EntryOK(e) ==
    /\ IsEntry(e)
    /\ e.status \in Status
    /\ IsRegistered(e.panel)
    /\ e.origin = "sink" => Approvals(e.card) /\ cards[e.card].payload = e.panel

EntriesOK == IsSequence(entries) /\ \A i \in DOMAIN entries : EntryOK(entries[i])

SameEntry(e, f) == e.panel = f.panel /\ e.origin = f.origin /\ e.card = f.card

\* Entries stay, and keep everything but their status.
EntriesGrow ==
    /\ DOMAIN entries \subseteq DOMAIN entries'
    /\ \A i \in DOMAIN entries : SameEntry(entries'[i], entries[i])

\* The reference that a sink will record.
RefOK(ref, card) ==
    ref \in External \/ (ref \in DOMAIN entries /\ SameVersion(entries[ref].panel, cards[card].payload))

\* What a request has done so far still holds.
CallOK(t) ==
    /\ IsCall(t)
    /\ \/ t.todo = << >>
       \/ t.todo = Sourced /\ t.card \in DOMAIN cards
       \/ t.todo = Boot1 /\ t.card = 0
       \/ (t.todo = Boot2 \/ t.todo = Boot3) /\ t.card = 0 /\ IsRegistered(Workflow)
       \/ t.todo = Sink1 /\ t.card \in DOMAIN cards /\ t.ref \in External
       \/ t.todo = Sink2 /\ Approvals(t.card) /\ t.ref \in External
       \/ /\ t.todo = Sink3 \/ t.todo = Sink4
          /\ Approvals(t.card) /\ t.ref \in External /\ IsRegistered(cards[t.card].payload)
       \/ t.todo = Sink5 /\ t.card \in DOMAIN cards /\ RefOK(t.ref, t.card)
       \/ t.todo = Indexing /\ EntryOK(t.data) /\ t.data.origin = "api"
       \/ /\ t.todo = Writing /\ EntryOK(t.data.row)
          /\ t.data.entry \in DOMAIN entries /\ SameEntry(t.data.row, entries[t.data.entry])
       \/ t.todo = Intending \/ t.todo = Proposing
       \/ t.todo = Launching /\ t.data.entry \in DOMAIN entries

CallsOK == call = [c \in Client |-> call[c]] /\ \A c \in Client : CallOK(call[c])

Core == RuntimeOK /\ EntriesOK /\ CallsOK /\ SinkEvidenceNamesEntry

-----------------------------------------------------------------------------
(* What stays true while the tables grow.                                   *)

\* A row of the index, and the state of a request, stay right.
LEMMA EntryStays ==
    ASSUME RuntimeOK, Grows, NEW e, EntryOK(e)
    PROVE  EntryOK(e)'
<1>1. IsRegistered(e.panel)'
  BY DEF EntryOK, IsRegistered, Grows
<1>2. e.origin = "sink" => Approvals(e.card)' /\ cards'[e.card].payload = e.panel
  <2> SUFFICES ASSUME e.origin = "sink" PROVE Approvals(e.card)' /\ cards'[e.card].payload = e.panel
    OBVIOUS
  <2>1. /\ e.card \in DOMAIN cards /\ cards[e.card].payload = e.panel
        /\ Approved(e.card, "topological_validator", "topology_valid")
        /\ Approved(e.card, "governance_reviewer", "proposal_approved")
    BY DEF EntryOK, Approvals
  <2>2. /\ Approved(e.card, "topological_validator", "topology_valid")'
        /\ Approved(e.card, "governance_reviewer", "proposal_approved")'
    BY <2>1, ApprovalStays
  <2> QED BY <2>1, <2>2 DEF Approvals, Grows
<1> QED BY <1>1, <1>2 DEF EntryOK

\* A proposal stays approved: nothing is taken out of a history.
LEMMA ApprovalsStay ==
    ASSUME RuntimeOK, Grows, NEW card, Approvals(card)
    PROVE  Approvals(card)'
<1>1. /\ card \in DOMAIN cards
      /\ Approved(card, "topological_validator", "topology_valid")
      /\ Approved(card, "governance_reviewer", "proposal_approved")
  BY DEF Approvals
<1>2. /\ Approved(card, "topological_validator", "topology_valid")'
      /\ Approved(card, "governance_reviewer", "proposal_approved")'
  BY <1>1, ApprovalStays
<1> QED BY <1>1, <1>2 DEF Approvals, Grows

\* The reference that a sink will record stays one of an entry of its card.
LEMMA RefStays ==
    ASSUME RuntimeOK, Grows, EntriesGrow, NEW card \in DOMAIN cards, NEW ref, RefOK(ref, card)
    PROVE  RefOK(ref, card)'
BY DEF RefOK, Grows, EntriesGrow, SameEntry

\* What a waiting request knows stays true while others run.
LEMMA CallStays ==
    ASSUME RuntimeOK, Grows, EntriesGrow, NEW t, CallOK(t)
    PROVE  CallOK(t)'
<1>1. IsCall(t)
  BY DEF CallOK
<1>2. \A p : IsRegistered(p) => IsRegistered(p)'
  BY DEF IsRegistered, Grows
<1>3. DOMAIN cards \subseteq DOMAIN cards' /\ DOMAIN entries \subseteq DOMAIN entries'
  BY DEF Grows, EntriesGrow
<1>4. CASE t.todo = Sink2 /\ Approvals(t.card) /\ t.ref \in External
  <2>1. Approvals(t.card)'
    BY <1>4, ApprovalsStay
  <2> QED BY <1>1, <1>4, <2>1 DEF CallOK
<1>5. CASE /\ t.todo = Sink3 \/ t.todo = Sink4
           /\ Approvals(t.card) /\ t.ref \in External /\ IsRegistered(cards[t.card].payload)
  <2>1. Approvals(t.card)' /\ t.card \in DOMAIN cards
    BY <1>5, ApprovalsStay DEF Approvals
  <2>2. cards'[t.card].payload = cards[t.card].payload
    BY <2>1 DEF Grows
  <2> QED BY <1>1, <1>2, <1>5, <2>1, <2>2 DEF CallOK
<1>6. CASE t.todo = Sink5 /\ t.card \in DOMAIN cards /\ RefOK(t.ref, t.card)
  <2>1. RefOK(t.ref, t.card)'
    BY <1>6, RefStays
  <2> QED BY <1>1, <1>3, <1>6, <2>1 DEF CallOK
<1>7. CASE t.todo = Indexing /\ EntryOK(t.data) /\ t.data.origin = "api"
  <2>1. EntryOK(t.data)'
    BY <1>7, EntryStays
  <2> QED BY <1>1, <1>7, <2>1 DEF CallOK
<1>8. CASE /\ t.todo = Writing /\ EntryOK(t.data.row)
           /\ t.data.entry \in DOMAIN entries /\ SameEntry(t.data.row, entries[t.data.entry])
  <2>1. EntryOK(t.data.row)'
    BY <1>8, EntryStays
  <2>2. SameEntry(t.data.row, entries'[t.data.entry])
    BY <1>8 DEF EntriesGrow, SameEntry
  <2> QED BY <1>1, <1>3, <1>8, <2>1, <2>2 DEF CallOK
<1>9. CASE \/ t.todo = << >>
           \/ t.todo = Sourced /\ t.card \in DOMAIN cards
           \/ t.todo = Boot1 /\ t.card = 0
           \/ (t.todo = Boot2 \/ t.todo = Boot3) /\ t.card = 0 /\ IsRegistered(Workflow)
           \/ t.todo = Sink1 /\ t.card \in DOMAIN cards /\ t.ref \in External
           \/ t.todo = Intending \/ t.todo = Proposing
           \/ t.todo = Launching /\ t.data.entry \in DOMAIN entries
  BY <1>1, <1>2, <1>3, <1>9 DEF CallOK
<1> QED BY <1>4, <1>5, <1>6, <1>7, <1>8, <1>9 DEF CallOK

\* A step in which the tables grow and client c's request becomes u.
LEMMA CallStep ==
    ASSUME Core, RuntimeOK', Grows, EntriesOK', EntriesGrow, NEW c \in Client, NEW u,
           call' = [call EXCEPT ![c] = u], CallOK(u)'
    PROVE  CallsOK'
<1>1. call' = [d \in Client |-> IF d = c THEN u ELSE call[d]]
  BY DEF Core, CallsOK
<1>2. ASSUME NEW d \in Client PROVE CallOK(call[d])'
  <2>1. PICK t : t = call'[d]
    OBVIOUS
  <2>2. CallOK(t)'
    <3>1. CASE d = c
      BY <1>1, <2>1, <3>1
    <3>2. CASE d # c
      <4>1. CallOK(t)
        BY <1>1, <2>1, <3>2 DEF Core, CallsOK
      <4> QED BY <4>1, CallStays DEF Core
    <3> QED BY <3>1, <3>2
  <2> QED BY <2>1, <2>2
<1> QED BY <1>1, <1>2 DEF CallsOK

\* The same when no request goes on.
LEMMA QuietStep ==
    ASSUME Core, RuntimeOK', Grows, EntriesOK', EntriesGrow, UNCHANGED call
    PROVE  CallsOK'
<1>1. ASSUME NEW d \in Client PROVE CallOK(call[d])'
  <2>1. PICK t : t = call'[d]
    OBVIOUS
  <2>2. CallOK(t)
    BY <2>1 DEF Core, CallsOK
  <2>3. CallOK(t)'
    BY <2>2, CallStays DEF Core
  <2> QED BY <2>1, <2>3
<1> QED BY <1>1 DEF Core, CallsOK

\* The index is not touched while the runtime's tables grow.
LEMMA IndexStays ==
    ASSUME Core, Grows, UNCHANGED entries
    PROVE  EntriesOK' /\ EntriesGrow
<1>1. \A i \in DOMAIN entries : EntryOK(entries[i])'
  <2> SUFFICES ASSUME NEW i \in DOMAIN entries PROVE EntryOK(entries[i])'
    OBVIOUS
  <2>1. PICK e : e = entries[i]
    OBVIOUS
  <2>2. EntryOK(e)'
    BY <2>1, EntryStays DEF Core, EntriesOK
  <2> QED BY <2>1, <2>2
<1> QED BY <1>1 DEF Core, EntriesOK, EntriesGrow, SameEntry

\* The evidence stays true if every new record of a sink is.
LEMMA EvidenceStep ==
    ASSUME Core, Grows, EntriesGrow,
           \A card \in DOMAIN cards' : \A e \in Events(card)' :
              \/ card \in DOMAIN cards /\ e \in Events(card)
              \/ e.type # "sink_executed"
              \/ card \in DOMAIN cards /\ RefOK(e.ref, card)
    PROVE  SinkEvidenceNamesEntry'
<1> SUFFICES ASSUME NEW card \in DOMAIN cards', NEW e \in Events(card)',
                    e.type = "sink_executed", e.ref \notin External
             PROVE  /\ e.ref \in DOMAIN entries'
                    /\ SameVersion(entries'[e.ref].panel, cards'[card].payload)
  BY DEF SinkEvidenceNamesEntry
<1>1. card \in DOMAIN cards /\ RefOK(e.ref, card)
  BY DEF Core, SinkEvidenceNamesEntry, RefOK
<1>2. RefOK(e.ref, card)'
  BY <1>1, RefStays DEF Core
<1> QED BY <1>2 DEF RefOK

\* Steps that leave the runtime's tables alone.
LEMMA RuntimeStays ==
    ASSUME Core, UNCHANGED runtimeVars
    PROVE  /\ RuntimeOK' /\ Grows
           /\ \A card \in DOMAIN cards' : \A e \in Events(card)' :
                 card \in DOMAIN cards /\ e \in Events(card)
BY NoChange DEF Core, runtimeVars, Events

\* A step of a request that writes nothing.
LEMMA RequestOnly ==
    ASSUME Core, UNCHANGED <<runtimeVars, entries>>, NEW c \in Client, NEW u,
           call' = [call EXCEPT ![c] = u], CallOK(u)
    PROVE  Core'
<1>1. /\ RuntimeOK' /\ Grows
      /\ \A card \in DOMAIN cards' : \A e \in Events(card)' :
            card \in DOMAIN cards /\ e \in Events(card)
  BY RuntimeStays
<1>2. EntriesOK' /\ EntriesGrow
  BY <1>1, IndexStays
<1>3. CallOK(u)'
  BY <1>1, <1>2, CallStays DEF Core
<1>4. CallsOK'
  BY <1>1, <1>2, <1>3, CallStep
<1>5. SinkEvidenceNamesEntry'
  BY <1>1, <1>2, EvidenceStep
<1> QED BY <1>1, <1>2, <1>4, <1>5 DEF Core

\* A step of the runtime; a request may go on with it.
LEMMA RuntimeStep ==
    ASSUME Core, RuntimeOK', Grows, UNCHANGED entries,
           \/ UNCHANGED call
           \/ \E c \in Client : \E u : call' = [call EXCEPT ![c] = u] /\ CallOK(u)',
           \A card \in DOMAIN cards' : \A e \in Events(card)' :
              \/ card \in DOMAIN cards /\ e \in Events(card)
              \/ e.type # "sink_executed"
              \/ card \in DOMAIN cards /\ RefOK(e.ref, card)
    PROVE  Core'
<1>1. EntriesOK' /\ EntriesGrow
  BY IndexStays
<1>2. CallsOK'
  <2>1. CASE UNCHANGED call
    BY <1>1, <2>1, QuietStep
  <2>2. CASE \E c \in Client : \E u : call' = [call EXCEPT ![c] = u] /\ CallOK(u)'
    <3>1. PICK c \in Client : \E u : call' = [call EXCEPT ![c] = u] /\ CallOK(u)'
      BY <2>2
    <3>2. PICK u : call' = [call EXCEPT ![c] = u] /\ CallOK(u)'
      BY <3>1
    <3> QED BY <1>1, <3>2, CallStep
  <2> QED BY <2>1, <2>2
<1>3. SinkEvidenceNamesEntry'
  BY <1>1, EvidenceStep
<1> QED BY <1>1, <1>2, <1>3 DEF Core

\* The request of a client that is at a step.
LEMMA AtStep ==
    ASSUME Core, NEW c \in Client, NEW step, At(c, step), NEW t, t = call[c]
    PROVE  /\ CallOK(t) /\ IsCall(t) /\ t.todo # << >> /\ Head(t.todo) = step
           /\ Rest(c) = Tail(t.todo)
BY DEF Core, CallsOK, CallOK, At, IsIdle, Rest

\* The executor's record of a card that a source made.
LEMMA RecordSourceStep ==
    ASSUME Core, NEW c \in Client, RecordSource(c)
    PROVE  Core'
<1>1. PICK t : t = call[c]
  OBVIOUS
<1>2. /\ CallOK(t) /\ IsCall(t) /\ t.todo # << >> /\ Head(t.todo) = "source_executed"
      /\ Rest(c) = Tail(t.todo)
  BY <1>1, AtStep DEF RecordSource, SourceRecorded
<1>3. t.todo = Sourced /\ t.card \in DOMAIN cards
  BY <1>2, FirstSteps DEF CallOK
<1>4. PICK e : e = MkEvent("source_executed", call[c].node, None, None, None,
                           Suffixed(call[c].key, "source"))
  OBVIOUS
<1>5. e.type = "source_executed"
  BY <1>4 DEF MkEvent
<1>6. record_event(t.card, e) /\ Continue(c, Rest(c)) /\ UNCHANGED entries
  BY <1>1, <1>4 DEF RecordSource, SourceRecorded
<1>7. /\ RuntimeOK' /\ Grows
      /\ UNCHANGED runtimeVars \/ Appended(t.card, e)
  BY <1>3, <1>6, RecordCall DEF Core
<1>8. \A card \in DOMAIN cards' : \A f \in Events(card)' :
         (card \in DOMAIN cards /\ f \in Events(card)) \/ f.type # "sink_executed"
  <2>1. CASE UNCHANGED runtimeVars
    BY <2>1, RuntimeStays
  <2>2. CASE Appended(t.card, e)
    BY <1>3, <1>5, <2>2, EventsAfter DEF Core
  <2> QED BY <1>7, <2>1, <2>2
<1>9. PICK u : call' = [call EXCEPT ![c] = u] /\ IsCall(u) /\ u.todo = << >>
  <2>1. Rest(c) = << >> /\ call = [d \in Client |-> call[d]]
    BY <1>2, <1>3, LaterSteps DEF Core, CallsOK
  <2>2. Proceed(c, << >>, t.ref, t.data)
    BY <1>1, <1>6, <2>1 DEF Continue
  <2> QED BY <1>1, <1>2, <2>1, <2>2, ProceedCall
<1>10. CallOK(u)'
  BY <1>9 DEF CallOK
<1> QED BY <1>6, <1>7, <1>8, <1>9, <1>10, RuntimeStep

\* The record of a sink, with the reference of the entry it published.
LEMMA RecordSinkStep ==
    ASSUME Core, NEW c \in Client, RecordSink(c)
    PROVE  Core'
<1>1. PICK t : t = call[c]
  OBVIOUS
<1>2. /\ CallOK(t) /\ IsCall(t) /\ t.todo # << >> /\ Head(t.todo) = "sink_executed"
      /\ Rest(c) = Tail(t.todo)
  BY <1>1, AtStep DEF RecordSink, SinkRecorded
<1>3. t.todo = Sink5 /\ t.card \in DOMAIN cards /\ RefOK(t.ref, t.card)
  BY <1>2, FirstSteps DEF CallOK
<1>4. PICK e : e = MkEvent("sink_executed", call[c].node, None, None, call[c].ref, call[c].key)
  OBVIOUS
<1>5. e.ref = t.ref
  BY <1>1, <1>4 DEF MkEvent
<1>6. record_event(t.card, e) /\ Continue(c, Rest(c)) /\ UNCHANGED entries
  BY <1>1, <1>4 DEF RecordSink, SinkRecorded
<1>7. /\ RuntimeOK' /\ Grows
      /\ UNCHANGED runtimeVars \/ Appended(t.card, e)
  BY <1>3, <1>6, RecordCall DEF Core
<1>8. \A card \in DOMAIN cards' : \A f \in Events(card)' :
         \/ card \in DOMAIN cards /\ f \in Events(card)
         \/ card \in DOMAIN cards /\ RefOK(f.ref, card)
  <2>1. CASE UNCHANGED runtimeVars
    BY <2>1, RuntimeStays
  <2>2. CASE Appended(t.card, e)
    BY <1>3, <1>5, <2>2, EventsAfter DEF Core
  <2> QED BY <1>7, <2>1, <2>2
<1>9. PICK u : call' = [call EXCEPT ![c] = u] /\ IsCall(u) /\ u.todo = << >>
  <2>1. Rest(c) = << >> /\ call = [d \in Client |-> call[d]]
    BY <1>2, <1>3, LaterSteps DEF Core, CallsOK
  <2>2. Proceed(c, << >>, t.ref, t.data)
    BY <1>1, <1>6, <2>1 DEF Continue
  <2> QED BY <1>1, <1>2, <2>1, <2>2, ProceedCall
<1>10. CallOK(u)'
  BY <1>9 DEF CallOK
<1> QED BY <1>6, <1>7, <1>8, <1>9, <1>10, RuntimeStep

\* A card that is made has no record of a sink.
LEMMA CreatedStep ==
    ASSUME Core, NEW id, NEW payload, NEW shadow, NEW k, NEW card,
           create_card(id, payload, shadow, k, card), UNCHANGED entries,
           NEW c \in Client, NEW u, call' = [call EXCEPT ![c] = u], CallOK(u)'
    PROVE  Core'
<1>1. RuntimeOK' /\ Grows
  BY CreateCall DEF Core
<1>2. \A x \in DOMAIN cards' : \A f \in Events(x)' :
         (x \in DOMAIN cards /\ f \in Events(x)) \/ f.type # "sink_executed"
  <2>1. CASE UNCHANGED runtimeVars
    BY <2>1, RuntimeStays
  <2>2. CASE /\ DOMAIN cards' = DOMAIN cards \union {card}
             /\ history'[card] = <<MkEvent("card_created", None, None, None, None, k)>>
             /\ \A i \in DOMAIN cards : history'[i] = history[i]
    <3>1. PICK e : e = MkEvent("card_created", None, None, None, None, k)
      OBVIOUS
    <3>2. e.type = "card_created"
      BY <3>1 DEF MkEvent
    <3> QED BY <2>2, <3>1, <3>2, EventsCreated
  <2>3. \/ UNCHANGED runtimeVars
        \/ /\ DOMAIN cards' = DOMAIN cards \union {card}
           /\ history'[card] = <<MkEvent("card_created", None, None, None, None, k)>>
           /\ \A i \in DOMAIN cards : history'[i] = history[i]
    <3>1. RuntimeOK
      BY DEF Core
    <3>2. \/ Stored(k, "card") /\ card = keys[k].card /\ UNCHANGED runtimeVars
          \/ /\ card \notin DOMAIN cards /\ DOMAIN cards' = DOMAIN cards \union {card}
             /\ cards'[card].panel \in ActivePanels(id)
             /\ cards'[card].payload = payload /\ cards'[card].shadow = shadow
             /\ history'[card] = <<MkEvent("card_created", None, None, None, None, k)>>
             /\ \A i \in DOMAIN cards : cards'[i] = cards[i] /\ history'[i] = history[i]
             /\ Keyed(k, "card", card)
      BY <3>1, CreateCall
    <3> QED BY <3>2
  <2> QED BY <2>1, <2>2, <2>3
<1> QED BY <1>1, <1>2, RuntimeStep

\* execute_source makes the card or answers the one of its key.
LEMMA ProposalSourceStep ==
    ASSUME Core, NEW c \in Client, NEW payload, NEW k, ProposalSource(c, payload, k)
    PROVE  Core'
<1>1. PICK n \in Node(Def(Workflow)) :
             execute_source(c, Workflow, n, payload, k, <<"source_executed">>)
  BY DEF ProposalSource
<1>2. PICK card \in 1..MaxCards :
            /\ create_card(Def(Workflow).id, payload, FALSE, k, card)
            /\ call' = [call EXCEPT ![c] = MkCall(<<"source_executed">>, n.id, card, k, None)]
  BY <1>1 DEF execute_source
<1>3. PICK u : u = MkCall(<<"source_executed">>, n.id, card, k, None)
  OBVIOUS
<1>4. IsCall(u) /\ u.todo = Sourced /\ u.card = card
  BY <1>3, BeginCall DEF Sourced
<1>5. card \in DOMAIN cards'
  BY <1>2, CreateCall DEF Core
<1>6. CallOK(u)'
  BY <1>4, <1>5 DEF CallOK
<1> QED BY <1>2, <1>3, <1>6, CreatedStep DEF ProposalSource

\* Validations and moves by hand record no sink.
LEMMA HandStep ==
    ASSUME Core, NEW card \in DOMAIN cards, RuntimeOK', Grows,
           UNCHANGED runtimeVars \/ \E e : e.type # "sink_executed" /\ Appended(card, e),
           UNCHANGED <<entries, call>>
    PROVE  Core'
<1>1. \A x \in DOMAIN cards' : \A f \in Events(x)' :
         (x \in DOMAIN cards /\ f \in Events(x)) \/ f.type # "sink_executed"
  <2>1. CASE UNCHANGED runtimeVars
    BY <2>1, RuntimeStays
  <2>2. CASE \E e : e.type # "sink_executed" /\ Appended(card, e)
    <3>1. PICK e : e.type # "sink_executed" /\ Appended(card, e)
      BY <2>2
    <3> QED BY <3>1, EventsAfter DEF Core
  <2> QED BY <2>1, <2>2
<1> QED BY <1>1, RuntimeStep

\* validate_card, through the executor or directly.
LEMMA DecisionStep ==
    ASSUME Core, NEW card \in DOMAIN cards, NEW actor, NEW accepted, NEW pipe, NEW k,
           validate_card(card, actor, accepted, pipe, k), UNCHANGED <<entries, call>>
    PROVE  Core'
<1>1. PICK e : e = MkEvent("card_validated", actor, accepted, pipe, None, k)
  OBVIOUS
<1>2. e.type = "card_validated"
  BY <1>1 DEF MkEvent
<1>3. RuntimeOK' /\ Grows /\ (UNCHANGED runtimeVars \/ Appended(card, e))
  BY <1>1, ValidateCall DEF Core
<1> QED BY <1>2, <1>3, HandStep

\* Decisions, through the executor or through the API's own route, keep Core.
LEMMA ValidationSteps ==
    ASSUME Core, NEW card \in DOMAIN cards,
           \/ \E d \in Decision, k \in Key : Validate(card, d, k)
           \/ \E d \in Decision, v \in Reviewer, k \in Key : ValidateCard(card, v, d, k)
    PROVE  Core'
<1>1. ASSUME NEW d, NEW k, Validate(card, d, k) PROVE Core'
  <2>1. PICK n \in Node(Def(Workflow)) : execute_validator(Workflow, n, card, d, k)
    BY <1>1 DEF Validate
  <2>2. PICK r : /\ r = validation_request(n, card, d)
                 /\ validate_card(card, n.id, validator_accepted(n, r), r.exit, k)
    BY <2>1 DEF execute_validator
  <2>3. UNCHANGED <<entries, call>>
    BY <1>1 DEF Validate
  <2> QED BY <2>2, <2>3, DecisionStep
<1>2. ASSUME NEW d, NEW v, NEW k, ValidateCard(card, v, d, k) PROVE Core'
  BY <1>2, DecisionStep DEF ValidateCard
<1> QED BY <1>1, <1>2

\* Moving a card by hand keeps Core.
LEMMA MoveStep ==
    ASSUME Core, NEW card \in DOMAIN cards, NEW bucket, Move(card, bucket)
    PROVE  Core'
<1>1. PICK e : e = MkEvent("card_moved", None, None, None, None, NoKey)
  OBVIOUS
<1>2. e.type = "card_moved"
  BY <1>1 DEF MkEvent
<1>3. RuntimeOK' /\ Grows /\ Appended(card, e)
  BY <1>1, MoveCall DEF Core, Move
<1> QED BY <1>2, <1>3, HandStep DEF Move

-----------------------------------------------------------------------------
(* The requests that publish.                                               *)

\* A request goes on from its step.
LEMMA GoesOn ==
    ASSUME Core, NEW c \in Client, NEW todo, NEW ref, NEW data, Proceed(c, todo, ref, data)
    PROVE  \E u : /\ call' = [call EXCEPT ![c] = u] /\ IsCall(u) /\ u.todo = todo
                  /\ todo # << >> =>
                        u.card = call[c].card /\ u.ref = ref /\ u.data = data
<1>1. call = [d \in Client |-> call[d]] /\ IsCall(call[c])
  BY DEF Core, CallsOK, CallOK
<1> QED BY <1>1, ProceedCall

\* The bootstrap begins.
LEMMA BootstrapStep ==
    ASSUME Core, NEW c \in Client, Bootstrap(c)
    PROVE  Core'
<1>1. PICK u : u = MkCall(<<"register", "search">>, None, 0, NoKey, None)
  OBVIOUS
<1>2. IsCall(u) /\ u.todo = Boot1 /\ u.card = 0
  BY <1>1, BeginCall DEF Boot1
<1>3. CallOK(u)
  BY <1>2 DEF CallOK
<1> QED BY <1>1, <1>3, RequestOnly DEF Bootstrap

\* registry_publication_sink begins.
LEMMA SinkStep ==
    ASSUME Core, NEW c \in Client, NEW card \in DOMAIN cards, NEW external \in External, NEW k,
           PublicationSink(c, card, external, k)
    PROVE  Core'
<1>1. PICK n : execute_sink(c, Workflow, n, card, external, k,
                            <<"history", "register", "search", "sink_executed">>)
  BY DEF PublicationSink
<1>2. PICK t : t = MkCall(<<"history", "register", "search", "sink_executed">>, n.id, card, k, None)
  OBVIOUS
<1>3. IsCall(t) /\ t.todo = Sink1 /\ t.card = card
  BY <1>2, BeginCall DEF Sink1
<1>4. PICK u : u = [t EXCEPT !.ref = external]
  OBVIOUS
<1>5. IsCall(u) /\ u.todo = Sink1 /\ u.card = card /\ u.ref = external
  BY <1>3, <1>4 DEF IsCall
<1>6. CallOK(u)
  BY <1>5 DEF CallOK
<1>7. call' = [call EXCEPT ![c] = u] /\ UNCHANGED <<runtimeVars, entries>>
  BY <1>1, <1>2, <1>4 DEF execute_sink, PublicationSink
<1> QED BY <1>6, <1>7, RequestOnly

\* _ensure_registry_publication_history.
LEMMA CheckHistoryStep ==
    ASSUME Core, NEW c \in Client, CheckHistory(c)
    PROVE  Core'
<1>1. PICK t : t = call[c]
  OBVIOUS
<1>2. /\ CallOK(t) /\ IsCall(t) /\ t.todo # << >> /\ Head(t.todo) = "history"
      /\ Rest(c) = Tail(t.todo)
  BY <1>1, AtStep DEF CheckHistory
<1>3. t.todo = Sink1 /\ t.card \in DOMAIN cards /\ t.ref \in External
  BY <1>2, FirstSteps DEF CallOK
<1>4. Approvals(t.card)
  BY <1>1, <1>3 DEF CheckHistory, ensure_registry_publication_history, Approvals
<1>5. Proceed(c, Sink2, t.ref, t.data)
  BY <1>1, <1>2, <1>3, LaterSteps DEF CheckHistory, Continue
<1>6. PICK u : /\ call' = [call EXCEPT ![c] = u] /\ IsCall(u) /\ u.todo = Sink2
               /\ u.card = t.card /\ u.ref = t.ref
  BY <1>1, <1>5, GoesOn, Unfinished
<1>7. CallOK(u)
  BY <1>3, <1>4, <1>6 DEF CallOK
<1> QED BY <1>6, <1>7, RequestOnly DEF CheckHistory

\* A call of register_patch_panel.
LEMMA RegisteringStep ==
    ASSUME Core, NEW p, register_patch_panel(p), UNCHANGED entries
    PROVE  /\ RuntimeOK' /\ Grows /\ IsRegistered(p)' /\ UNCHANGED <<cards, history, keys>>
           /\ \A card \in DOMAIN cards' : \A e \in Events(card)' :
                 card \in DOMAIN cards /\ e \in Events(card)
<1>1. /\ RuntimeOK' /\ Grows /\ UNCHANGED <<cards, history, keys>>
      /\ \E q \in registered' : SameVersion(q, p)
  BY RegisterCall DEF Core
<1> QED BY <1>1 DEF IsRegistered, Events

\* register_patch_panel of the bootstrap and of a publication keeps Core; what
\* the request does next finds its panel registered.
LEMMA RegisterStep ==
    ASSUME Core, NEW c \in Client, Register(c)
    PROVE  Core'
<1>1. PICK t : t = call[c]
  OBVIOUS
<1>2. /\ CallOK(t) /\ IsCall(t) /\ t.todo # << >> /\ Head(t.todo) = "register"
      /\ Rest(c) = Tail(t.todo)
  BY <1>1, AtStep DEF Register
<1>3. PICK p : p = Subject(c)
  OBVIOUS
<1>4. register_patch_panel(p) /\ UNCHANGED entries
  BY <1>3 DEF Register
<1>5. /\ RuntimeOK' /\ Grows /\ IsRegistered(p)' /\ UNCHANGED <<cards, history, keys>>
      /\ \A card \in DOMAIN cards' : \A e \in Events(card)' :
            card \in DOMAIN cards /\ e \in Events(card)
  BY <1>4, RegisteringStep
<1>6. \/ t.todo = Boot1 /\ t.card = 0
      \/ t.todo = Sink2 /\ Approvals(t.card) /\ t.ref \in External
  BY <1>2, FirstSteps DEF CallOK
<1>7. CASE t.todo = Boot1 /\ t.card = 0
  <2>1. p = Workflow
    BY <1>1, <1>3, <1>7 DEF Subject
  <2>2. Proceed(c, Boot2, t.ref, t.data)
    BY <1>1, <1>2, <1>7, LaterSteps DEF Register, Continue
  <2>3. PICK u : call' = [call EXCEPT ![c] = u] /\ IsCall(u) /\ u.todo = Boot2 /\ u.card = 0
    BY <1>1, <1>7, <2>2, GoesOn, Unfinished
  <2>4. CallOK(u)'
    BY <1>5, <2>1, <2>3 DEF CallOK
  <2> QED BY <1>4, <1>5, <2>3, <2>4, RuntimeStep
<1>8. CASE t.todo = Sink2 /\ Approvals(t.card) /\ t.ref \in External
  <2>1. Proceed(c, Sink3, t.ref, t.data)
    BY <1>1, <1>2, <1>8, LaterSteps DEF Register, Continue
  <2>2. PICK u : /\ call' = [call EXCEPT ![c] = u] /\ IsCall(u) /\ u.todo = Sink3
                 /\ u.card = t.card /\ u.ref = t.ref
    BY <1>1, <2>1, GoesOn, Unfinished
  <2>3. Approvals(t.card)'
    BY <1>5, <1>8, ApprovalsStay DEF Core
  <2>4. t.card # 0
    BY <1>8 DEF Approvals, Core, RuntimeOK, IsSequence
  <2>5. p = cards'[t.card].payload
    BY <1>1, <1>3, <1>5, <2>4 DEF Subject
  <2>6. CallOK(u)'
    BY <1>5, <1>8, <2>2, <2>3, <2>5 DEF CallOK
  <2> QED BY <1>4, <1>5, <2>2, <2>6, RuntimeStep
<1> QED BY <1>6, <1>7, <1>8

\* next((entry for entry in self.registry.search(...) if ...), None)
LEMMA FoundEntry ==
    ASSUME NEW p, NEW found \in SearchVersion(p)
    PROVE  found \in DOMAIN entries /\ SameVersion(entries[found].panel, p)
BY DEF SearchVersion, registry_search

\* The look for an entry of the version keeps Core, whether it finds one or not.
LEMMA SearchStep ==
    ASSUME Core, NEW c \in Client, Search(c)
    PROVE  Core'
<1>1. PICK t : t = call[c]
  OBVIOUS
<1>2. /\ CallOK(t) /\ IsCall(t) /\ t.todo # << >> /\ Head(t.todo) = "search"
      /\ Rest(c) = Tail(t.todo)
  BY <1>1, AtStep DEF Search
<1>3. PICK p : p = Subject(c)
  OBVIOUS
<1>4. UNCHANGED <<runtimeVars, entries>>
  BY DEF Search
<1>5. \/ t.todo = Boot2 /\ t.card = 0 /\ IsRegistered(Workflow)
      \/ t.todo = Sink3 /\ Approvals(t.card) /\ t.ref \in External /\ IsRegistered(cards[t.card].payload)
  BY <1>2, FirstSteps DEF CallOK
<1>6. CASE SearchVersion(p) = {} /\ Continue(c, <<"publish">> \o Rest(c))
  <2>1. CASE t.todo = Boot2 /\ t.card = 0 /\ IsRegistered(Workflow)
    <3>1. Proceed(c, Boot3, t.ref, t.data)
      BY <1>1, <1>2, <1>6, <2>1, LaterSteps, PublishSteps DEF Continue
    <3>2. PICK u : call' = [call EXCEPT ![c] = u] /\ IsCall(u) /\ u.todo = Boot3 /\ u.card = 0
      BY <1>1, <2>1, <3>1, GoesOn, Unfinished
    <3>3. CallOK(u)
      BY <2>1, <3>2 DEF CallOK
    <3> QED BY <1>4, <3>2, <3>3, RequestOnly
  <2>2. CASE t.todo = Sink3 /\ Approvals(t.card) /\ t.ref \in External /\ IsRegistered(cards[t.card].payload)
    <3>1. Proceed(c, Sink4, t.ref, t.data)
      BY <1>1, <1>2, <1>6, <2>2, LaterSteps, PublishSteps DEF Continue
    <3>2. PICK u : /\ call' = [call EXCEPT ![c] = u] /\ IsCall(u) /\ u.todo = Sink4
                   /\ u.card = t.card /\ u.ref = t.ref
      BY <1>1, <3>1, GoesOn, Unfinished
    <3>3. CallOK(u)
      BY <2>2, <3>2 DEF CallOK
    <3> QED BY <1>4, <3>2, <3>3, RequestOnly
  <2> QED BY <1>5, <2>1, <2>2
<1>7. ASSUME NEW found \in SearchVersion(p), Proceed(c, Rest(c), Reference(c, found), None)
      PROVE  Core'
  <2>1. CASE t.todo = Boot2 /\ t.card = 0 /\ IsRegistered(Workflow)
    <3>1. Rest(c) = << >>
      BY <1>2, <2>1, LaterSteps
    <3>2. PICK u : call' = [call EXCEPT ![c] = u] /\ IsCall(u) /\ u.todo = << >>
      BY <1>7, <3>1, GoesOn
    <3>3. CallOK(u)
      BY <3>2 DEF CallOK
    <3> QED BY <1>4, <3>2, <3>3, RequestOnly
  <2>2. CASE t.todo = Sink3 /\ Approvals(t.card) /\ t.ref \in External /\ IsRegistered(cards[t.card].payload)
    <3>1. Rest(c) = Sink5
      BY <1>2, <2>2, LaterSteps
    <3>2. PICK ref : ref = Reference(c, found)
      OBVIOUS
    <3>3. t.card \in DOMAIN cards /\ t.card # 0
      BY <2>2 DEF Approvals, Core, RuntimeOK, IsSequence
    <3>4. p = cards[t.card].payload
      BY <1>1, <1>3, <3>3 DEF Subject
    <3>5. RefOK(ref, t.card)
      <4>1. found \in DOMAIN entries /\ SameVersion(entries[found].panel, p)
        BY <1>7, FoundEntry
      <4> QED BY <1>1, <2>2, <3>2, <3>4, <4>1 DEF RefOK, Reference
    <3>6. PICK u : /\ call' = [call EXCEPT ![c] = u] /\ IsCall(u) /\ u.todo = Sink5
                   /\ u.card = t.card /\ u.ref = ref
      BY <1>1, <1>7, <3>1, <3>2, GoesOn, Unfinished
    <3>7. CallOK(u)
      BY <3>3, <3>5, <3>6 DEF CallOK
    <3> QED BY <1>4, <3>6, <3>7, RequestOnly
  <2> QED BY <1>5, <2>1, <2>2
<1> QED BY <1>3, <1>6, <1>7 DEF Search

-----------------------------------------------------------------------------
(* The index.                                                               *)

\* A row is added to the index.
LEMMA AddEntry ==
    ASSUME Core, UNCHANGED runtimeVars, NEW e, EntryOK(e), registry_register(e)
    PROVE  /\ EntriesOK' /\ EntriesGrow
           /\ Len(entries') \in DOMAIN entries' /\ entries'[Len(entries')] = e
           /\ DOMAIN entries' = DOMAIN entries \union {Len(entries')}
           /\ Len(entries') \notin DOMAIN entries
           /\ \A i \in DOMAIN entries : entries'[i] = entries[i]
<1>1. IsSequence(entries) /\ entries' = Append(entries, e)
  BY DEF Core, EntriesOK, registry_register
<1>2. /\ IsSequence(entries') /\ Len(entries) \in Nat /\ DOMAIN entries = 1..Len(entries)
      /\ DOMAIN entries' = DOMAIN entries \union {Len(entries) + 1}
      /\ Len(entries) + 1 \notin DOMAIN entries
      /\ entries'[Len(entries) + 1] = e
      /\ \A i \in DOMAIN entries : entries'[i] = entries[i]
  BY <1>1, SequenceAppend
<1>3. Len(entries') = Len(entries) + 1
  BY <1>1 DEF IsSequence
<1>4. RuntimeOK' /\ Grows
  BY RuntimeStays
<1>5. EntryOK(e)'
  BY <1>4, EntryStays DEF Core
<1>6. ASSUME NEW i \in DOMAIN entries' PROVE EntryOK(entries[i])'
  <2>1. PICK f : f = entries'[i]
    OBVIOUS
  <2>2. EntryOK(f)'
    <3>1. CASE i = Len(entries) + 1
      BY <1>2, <1>5, <2>1, <3>1
    <3>2. CASE i \in DOMAIN entries
      <4>1. EntryOK(f)
        BY <1>2, <2>1, <3>2 DEF Core, EntriesOK
      <4> QED BY <1>4, <4>1, EntryStays DEF Core
    <3> QED BY <1>2, <3>1, <3>2
  <2> QED BY <2>1, <2>2
<1>7. EntriesOK'
  BY <1>2, <1>6 DEF EntriesOK
<1>8. EntriesGrow
  BY <1>2 DEF EntriesGrow, SameEntry
<1> QED BY <1>2, <1>3, <1>7, <1>8

\* A row is written again with the same version, origin and card.
LEMMA ReplaceEntry ==
    ASSUME Core, UNCHANGED runtimeVars, NEW i \in DOMAIN entries, NEW e, EntryOK(e),
           SameEntry(e, entries[i]), entries' = [entries EXCEPT ![i] = e]
    PROVE  EntriesOK' /\ EntriesGrow
<1>1. IsSequence(entries)
  BY DEF Core, EntriesOK
<1>2. entries' = [j \in DOMAIN entries |-> IF j = i THEN e ELSE entries[j]]
  <2>1. entries = [j \in DOMAIN entries |-> entries[j]]
    BY <1>1 DEF IsSequence
  <2> QED BY <2>1
<1>3. IsSequence(entries') /\ DOMAIN entries' = DOMAIN entries
  BY <1>1, <1>2, SequenceMap
<1>4. RuntimeOK' /\ Grows
  BY RuntimeStays
<1>5. ASSUME NEW j \in DOMAIN entries' PROVE EntryOK(entries[j])'
  <2>1. PICK f : f = entries'[j]
    OBVIOUS
  <2>2. EntryOK(f)
    BY <1>2, <1>3, <2>1 DEF Core, EntriesOK
  <2>3. EntryOK(f)'
    BY <1>4, <2>2, EntryStays DEF Core
  <2> QED BY <2>1, <2>3
<1>6. EntriesOK'
  BY <1>3, <1>5 DEF EntriesOK
<1>7. EntriesGrow
  BY <1>2, <1>3 DEF EntriesGrow, SameEntry
<1> QED BY <1>6, <1>7

\* A step that writes the index only.
LEMMA IndexStep ==
    ASSUME Core, UNCHANGED runtimeVars, EntriesOK', EntriesGrow,
           \/ UNCHANGED call
           \/ \E c \in Client : \E u : call' = [call EXCEPT ![c] = u] /\ CallOK(u)'
    PROVE  Core'
<1>1. /\ RuntimeOK' /\ Grows
      /\ \A card \in DOMAIN cards' : \A e \in Events(card)' :
            card \in DOMAIN cards /\ e \in Events(card)
  BY RuntimeStays
<1>2. CallsOK'
  <2>1. CASE UNCHANGED call
    BY <1>1, <2>1, QuietStep
  <2>2. CASE \E c \in Client : \E u : call' = [call EXCEPT ![c] = u] /\ CallOK(u)'
    <3>1. PICK c \in Client : \E u : call' = [call EXCEPT ![c] = u] /\ CallOK(u)'
      BY <2>2
    <3>2. PICK u : call' = [call EXCEPT ![c] = u] /\ CallOK(u)'
      BY <3>1
    <3> QED BY <1>1, <3>2, CallStep
  <2> QED BY <2>1, <2>2
<1>3. SinkEvidenceNamesEntry'
  BY <1>1, EvidenceStep
<1> QED BY <1>1, <1>2, <1>3 DEF Core

\* The entry that a request publishes.
LEMMA PublishStep ==
    ASSUME Core, NEW c \in Client, Publish(c)
    PROVE  Core'
<1>1. PICK t : t = call[c]
  OBVIOUS
<1>2. /\ CallOK(t) /\ IsCall(t) /\ t.todo # << >> /\ Head(t.todo) = "publish"
      /\ Rest(c) = Tail(t.todo)
  BY <1>1, AtStep DEF Publish
<1>3. PICK p : p = Subject(c)
  OBVIOUS
<1>4. PICK e : e = MkEntry(p, "published", Origin(c), call[c].card)
  OBVIOUS
<1>5. /\ IsEntry(e) /\ e.panel = p /\ e.status = "published" /\ e.origin = Origin(c)
      /\ e.card = t.card
  BY <1>1, <1>4 DEF MkEntry, IsEntry
<1>6. registry_register(e) /\ UNCHANGED runtimeVars
  BY <1>3, <1>4 DEF Publish
<1>7. \/ t.todo = Boot3 /\ t.card = 0 /\ IsRegistered(Workflow)
      \/ t.todo = Sink4 /\ Approvals(t.card) /\ t.ref \in External /\ IsRegistered(cards[t.card].payload)
  BY <1>2, FirstSteps DEF CallOK
<1>8. CASE t.todo = Boot3 /\ t.card = 0 /\ IsRegistered(Workflow)
  <2>1. p = Workflow /\ e.origin = "bootstrap"
    BY <1>1, <1>3, <1>5, <1>8 DEF Subject, Origin
  <2>2. EntryOK(e)
    BY <1>5, <1>8, <2>1 DEF EntryOK, Status
  <2>3. EntriesOK' /\ EntriesGrow
    BY <1>6, <2>2, AddEntry
  <2>4. Rest(c) = << >>
    BY <1>2, <1>8, LaterSteps
  <2>5. PICK u : call' = [call EXCEPT ![c] = u] /\ IsCall(u) /\ u.todo = << >>
    BY <2>4, GoesOn DEF Publish
  <2>6. CallOK(u)'
    BY <2>5 DEF CallOK
  <2> QED BY <1>6, <2>3, <2>5, <2>6, IndexStep
<1>9. CASE t.todo = Sink4 /\ Approvals(t.card) /\ t.ref \in External /\ IsRegistered(cards[t.card].payload)
  <2>1. t.card \in DOMAIN cards /\ t.card # 0
    BY <1>9 DEF Approvals, Core, RuntimeOK, IsSequence
  <2>2. p = cards[t.card].payload
    BY <1>1, <1>3, <2>1 DEF Subject
  <2>3. EntryOK(e)
    BY <1>5, <1>9, <2>2 DEF EntryOK, Status
  <2>4. /\ EntriesOK' /\ EntriesGrow
        /\ Len(entries') \in DOMAIN entries' /\ entries'[Len(entries')] = e
    BY <1>6, <2>3, AddEntry
  <2>5. Rest(c) = Sink5
    BY <1>2, <1>9, LaterSteps
  <2>6. PICK ref : ref = Reference(c, Len(entries'))
    OBVIOUS
  <2>7. Proceed(c, Sink5, ref, None)
    BY <2>5, <2>6 DEF Publish
  <2>8. PICK u : /\ call' = [call EXCEPT ![c] = u] /\ IsCall(u) /\ u.todo = Sink5
                 /\ u.card = t.card /\ u.ref = ref
    BY <1>1, <2>7, GoesOn, Unfinished
  <2>9. UNCHANGED cards
    BY <1>6 DEF runtimeVars
  <2>10. ref \in External \/ ref = Len(entries')
    BY <1>1, <1>9, <2>6 DEF Reference
  <2>11. RefOK(ref, t.card)'
    <3>1. SameVersion(p, p)
      BY DEF SameVersion
    <3> QED BY <1>5, <2>2, <2>4, <2>9, <2>10, <3>1 DEF RefOK
  <2>12. CallOK(u)'
    BY <2>1, <2>8, <2>9, <2>11 DEF CallOK
  <2> QED BY <1>6, <2>4, <2>8, <2>12, IndexStep
<1> QED BY <1>7, <1>8, <1>9

\* POST /registry/patchpanels registers before it indexes.
LEMMA RegisterEntryStep ==
    ASSUME Core, NEW c \in Client, NEW p, NEW status \in EntryStatus, RegisterEntry(c, p, status)
    PROVE  Core'
<1>1. PICK e : e = MkEntry(p, status, "api", 0)
  OBVIOUS
<1>2. IsEntry(e) /\ e.panel = p /\ e.status = status /\ e.origin = "api"
  BY <1>1 DEF MkEntry, IsEntry
<1>3. PICK u : u = MkCall(<<"index">>, None, 0, NoKey, e)
  OBVIOUS
<1>4. IsCall(u) /\ u.todo = Indexing /\ u.data = e
  BY <1>3, BeginCall DEF Indexing
<1>5. /\ register_patch_panel(p) /\ UNCHANGED entries
      /\ call' = [call EXCEPT ![c] = u]
  BY <1>1, <1>3 DEF RegisterEntry
<1>6. /\ RuntimeOK' /\ Grows /\ IsRegistered(p)'
      /\ \A card \in DOMAIN cards' : \A f \in Events(card)' :
            card \in DOMAIN cards /\ f \in Events(card)
  BY <1>5, RegisteringStep
<1>7. EntryOK(e)'
  BY <1>2, <1>6, EntryStatusAssumption DEF EntryOK
<1>8. CallOK(u)'
  BY <1>2, <1>4, <1>7 DEF CallOK
<1> QED BY <1>5, <1>6, <1>8, RuntimeStep

\* POST /registry/entries keeps Core: the panel it indexes is registered.
LEMMA IndexEntryStep ==
    ASSUME Core, NEW c \in Client, Index(c)
    PROVE  Core'
<1>1. PICK t : t = call[c]
  OBVIOUS
<1>2. /\ CallOK(t) /\ IsCall(t) /\ t.todo # << >> /\ Head(t.todo) = "index"
      /\ Rest(c) = Tail(t.todo)
  BY <1>1, AtStep DEF Index
<1>3. t.todo = Indexing /\ EntryOK(t.data)
  BY <1>2, FirstSteps DEF CallOK
<1>4. registry_register(t.data) /\ UNCHANGED runtimeVars
  BY <1>1 DEF Index
<1>5. EntriesOK' /\ EntriesGrow
  BY <1>3, <1>4, AddEntry
<1>6. Proceed(c, << >>, t.ref, t.data)
  BY <1>1, <1>2, <1>3, LaterSteps DEF Index, Continue
<1>7. PICK u : call' = [call EXCEPT ![c] = u] /\ IsCall(u) /\ u.todo = << >>
  BY <1>6, GoesOn
<1>8. CallOK(u)'
  BY <1>7 DEF CallOK
<1> QED BY <1>4, <1>5, <1>7, <1>8, IndexStep

\* A row with another status.
LEMMA StatusChange ==
    ASSUME Core, NEW i \in DOMAIN entries, NEW status \in Status,
           NEW e, e = [entries[i] EXCEPT !.status = status]
    PROVE  EntryOK(e) /\ SameEntry(e, entries[i])
<1>1. PICK f : f = entries[i]
  OBVIOUS
<1>2. EntryOK(f) /\ IsEntry(f)
  BY <1>1 DEF Core, EntriesOK, EntryOK
<1>3. /\ IsEntry(e) /\ e.panel = f.panel /\ e.origin = f.origin /\ e.card = f.card
      /\ e.status = status
  BY <1>1, <1>2 DEF IsEntry
<1> QED BY <1>1, <1>2, <1>3 DEF EntryOK, SameEntry

\* update_metadata reads a row and later writes all of it.
LEMMA EditEntryStep ==
    ASSUME Core, NEW c \in Client, NEW i \in DOMAIN entries, NEW status \in EntryStatus,
           EditEntry(c, i, status)
    PROVE  Core'
<1>1. PICK e : e = [entries[i] EXCEPT !.status = status]
  OBVIOUS
<1>2. EntryOK(e) /\ SameEntry(e, entries[i])
  BY <1>1, EntryStatusAssumption, StatusChange
<1>3. PICK d : d = [entry |-> i, row |-> e]
  OBVIOUS
<1>4. d.entry = i /\ d.row = e
  BY <1>3
<1>5. PICK u : u = MkCall(<<"write">>, None, 0, NoKey, d)
  OBVIOUS
<1>6. IsCall(u) /\ u.todo = Writing /\ u.data = d
  BY <1>5, BeginCall DEF Writing
<1>7. CallOK(u)
  BY <1>2, <1>4, <1>6 DEF CallOK
<1>8. call' = [call EXCEPT ![c] = u] /\ UNCHANGED <<runtimeVars, entries>>
  BY <1>1, <1>3, <1>5 DEF EditEntry
<1> QED BY <1>7, <1>8, RequestOnly

\* The write of an entry that was read before keeps Core: a lost update loses
\* a status, never the panel of the entry.
LEMMA WriteEntryStep ==
    ASSUME Core, NEW c \in Client, WriteEntry(c)
    PROVE  Core'
<1>1. PICK t : t = call[c]
  OBVIOUS
<1>2. /\ CallOK(t) /\ IsCall(t) /\ t.todo # << >> /\ Head(t.todo) = "write"
      /\ Rest(c) = Tail(t.todo)
  BY <1>1, AtStep DEF WriteEntry
<1>3. /\ t.todo = Writing /\ EntryOK(t.data.row)
      /\ t.data.entry \in DOMAIN entries /\ SameEntry(t.data.row, entries[t.data.entry])
  BY <1>2, FirstSteps DEF CallOK
<1>4. entries' = [entries EXCEPT ![t.data.entry] = t.data.row] /\ UNCHANGED runtimeVars
  BY <1>1 DEF WriteEntry, write_entry
<1>5. EntriesOK' /\ EntriesGrow
  BY <1>3, <1>4, ReplaceEntry
<1>6. Proceed(c, << >>, t.ref, t.data)
  BY <1>1, <1>2, <1>3, LaterSteps DEF WriteEntry, Continue
<1>7. PICK u : call' = [call EXCEPT ![c] = u] /\ IsCall(u) /\ u.todo = << >>
  BY <1>6, GoesOn
<1>8. CallOK(u)'
  BY <1>7 DEF CallOK
<1> QED BY <1>4, <1>5, <1>7, <1>8, IndexStep

\* archive and supersede.
LEMMA RetireSteps ==
    ASSUME Core, NEW i \in DOMAIN entries, Archive(i) \/ Supersede(i)
    PROVE  Core' /\ UNCHANGED <<runtimeVars, call>> /\ EntriesGrow /\ DOMAIN entries' = DOMAIN entries
<1>1. ASSUME NEW status \in Status, entries' = [entries EXCEPT ![i].status = status],
             UNCHANGED <<runtimeVars, call>>
      PROVE  Core' /\ EntriesGrow /\ DOMAIN entries' = DOMAIN entries
  <2>1. PICK e : e = [entries[i] EXCEPT !.status = status]
    OBVIOUS
  <2>2. EntryOK(e) /\ SameEntry(e, entries[i])
    BY <2>1, StatusChange
  <2>3. entries' = [entries EXCEPT ![i] = e]
    BY <1>1, <2>1
  <2>4. UNCHANGED runtimeVars /\ UNCHANGED call
    BY <1>1
  <2>5. EntriesOK' /\ EntriesGrow
    BY <2>2, <2>3, <2>4, ReplaceEntry
  <2>6. DOMAIN entries' = DOMAIN entries
    BY <2>3
  <2> QED BY <2>4, <2>5, <2>6, IndexStep
<1>2. "archived" \in Status /\ "superseded" \in Status
  BY DEF Status
<1>3. CASE Archive(i)
  BY <1>1, <1>2, <1>3 DEF Archive, registry_archive
<1>4. CASE Supersede(i)
  BY <1>1, <1>2, <1>4 DEF Supersede, registry_supersede
<1> QED BY <1>3, <1>4

\* A request is cut short.
LEMMA EndStep ==
    ASSUME Core, NEW c \in Client, End(c)
    PROVE  Core'
<1>1. IsCall(Idle) /\ Idle.todo = << >>
  BY DEF IsCall, Idle, MkCall
<1>2. CallOK(Idle)
  BY <1>1 DEF CallOK
<1>3. call' = [call EXCEPT ![c] = Idle] /\ UNCHANGED <<runtimeVars, entries>>
  BY DEF End, Abort
<1> QED BY <1>2, <1>3, RequestOnly

-----------------------------------------------------------------------------
(* Every step.                                                              *)

\* An empty system satisfies Core.
LEMMA CoreInit == Init => Core
<1> SUFFICES ASSUME Init PROVE Core
  OBVIOUS
<1>1. IsSequence(<< >>) /\ DOMAIN << >> = {}
  BY DEF IsSequence
<1>2. /\ registered = {} /\ cards = << >> /\ history = << >> /\ keys = << >> /\ entries = << >>
      /\ call = [c \in Client |-> Idle]
  BY DEF Init
<1>3. RuntimeOK
  BY <1>1, <1>2 DEF RuntimeOK
<1>4. EntriesOK /\ SinkEvidenceNamesEntry
  BY <1>1, <1>2 DEF EntriesOK, SinkEvidenceNamesEntry
<1>5. CallOK(Idle)
  BY DEF CallOK, IsCall, Idle, MkCall
<1>6. CallsOK
  <2> HIDE DEF Idle
  <2> QED BY <1>2, <1>5 DEF CallsOK
<1> QED BY <1>3, <1>4, <1>6 DEF Core

\* Every step of publication keeps Core.
LEMMA CoreNext ==
    ASSUME Core, Next
    PROVE  Core'
<1>1. ASSUME NEW c \in Client,
             \/ Bootstrap(c)
             \/ \E payload \in Payload, k \in Key : ProposalSource(c, payload, k)
             \/ RecordSource(c)
             \/ \E card \in DOMAIN cards, external \in External, k \in Key :
                   PublicationSink(c, card, external, k)
             \/ CheckHistory(c) \/ Register(c) \/ Search(c) \/ Publish(c) \/ RecordSink(c)
             \/ \E p \in Candidate, status \in EntryStatus : RegisterEntry(c, p, status)
             \/ Index(c)
             \/ \E i \in DOMAIN entries, status \in EntryStatus : EditEntry(c, i, status)
             \/ WriteEntry(c)
             \/ End(c)
      PROVE  Core'
  BY <1>1, BootstrapStep, ProposalSourceStep, RecordSourceStep, SinkStep, CheckHistoryStep,
     RegisterStep, SearchStep, PublishStep, RecordSinkStep, RegisterEntryStep, IndexEntryStep,
     EditEntryStep, WriteEntryStep, EndStep
<1>2. ASSUME NEW card \in DOMAIN cards,
             \/ \E d \in Decision, k \in Key : Validate(card, d, k)
             \/ \E d \in Decision, v \in Reviewer, k \in Key : ValidateCard(card, v, d, k)
             \/ \E bucket \in MoveTo : Move(card, bucket)
      PROVE  Core'
  BY <1>2, ValidationSteps, MoveStep
<1>3. ASSUME NEW i \in DOMAIN entries, Archive(i) \/ Supersede(i)
      PROVE  Core'
  BY <1>3, RetireSteps
<1> QED BY <1>1, <1>2, <1>3 DEF Next

\* A stuttering step.
LEMMA CoreStutters ==
    ASSUME Core, UNCHANGED vars
    PROVE  Core'
<1>1. UNCHANGED runtimeVars /\ UNCHANGED entries /\ UNCHANGED call
  BY DEF vars
<1>2. EntriesOK' /\ EntriesGrow
  BY <1>1, IndexStays, RuntimeStays
<1> QED BY <1>1, <1>2, IndexStep

\* Spec => []Core: the part of the invariant that the publication workflow
\* and everything built on it need.
THEOREM PublicationInvariant == Spec => []Core
<1>1. Init => Core
  BY CoreInit
<1>2. Core /\ [Next]_vars => Core'
  BY CoreNext, CoreStutters
<1> QED BY <1>1, <1>2, PTL DEF Spec

\* Whatever is in the index is registered and passed the validator: the
\* theorem is for any clients, panels and bounds.
THEOREM IndexedAreRegistered == Spec => []IndexedIsRegistered
<1>1. Core => IndexedIsRegistered
  BY DEF Core, EntriesOK, EntryOK, IsRegistered, IndexedIsRegistered, RuntimeOK
<1> QED BY <1>1, PublicationInvariant, PTL

\* What a sink published has both approvals in the history of its card.
THEOREM PublishedAreApproved == Spec => []PublishedWithApproval
<1>1. Core => PublishedWithApproval
  BY DEF Core, EntriesOK, EntryOK, Approvals, PublishedWithApproval
<1> QED BY <1>1, PublicationInvariant, PTL

\* The evidence of a sink names the entry of the version that was proposed.
THEOREM SinkEvidenceIsTrue == Spec => []SinkEvidenceNamesEntry
<1>1. Core => SinkEvidenceNamesEntry
  BY DEF Core
<1> QED BY <1>1, PublicationInvariant, PTL

-----------------------------------------------------------------------------
(* What any step of the publication workflow may do.                        *)

\* The runtime's tables grow; a panel that is registered was proposed on a
\* card, is a client's or is the workflow; a card that is made is a proposal;
\* a key that comes to stand for a card is a client's.
Effects ==
    /\ Grows
    /\ registered' \subseteq registered \union Candidate \union {Workflow}
                             \union { cards[i].payload : i \in DOMAIN cards }
    /\ \A i \in DOMAIN cards' :
          \/ i \in DOMAIN cards
          \/ cards'[i].panel \in ActivePanels(Def(Workflow).id) /\ cards'[i].payload \in Payload
    /\ \A k \in DOMAIN keys' : k \in DOMAIN keys \/ k \in Key \/ keys'[k].type # "card"

\* Calls that record an event.
LEMMA AppendEffects ==
    ASSUME Core, Grows, registered' = registered, NEW card, NEW e, NEW k,
           \/ UNCHANGED runtimeVars
           \/ Appended(card, e) /\ (Keyed(k, "event", card) \/ UNCHANGED keys)
    PROVE  Effects
BY DEF Effects, Appended, Keyed, runtimeVars

\* A decision has the effects a step may have.
LEMMA DecisionEffects ==
    ASSUME Core, NEW card \in DOMAIN cards, NEW actor, NEW accepted, NEW pipe, NEW k,
           validate_card(card, actor, accepted, pipe, k)
    PROVE  Effects
<1>1. RuntimeOK
  BY DEF Core
<1>2. PICK e : e = MkEvent("card_validated", actor, accepted, pipe, None, k)
  OBVIOUS
<1>3. /\ Grows /\ registered' = registered
      /\ UNCHANGED runtimeVars \/ (Appended(card, e) /\ Keyed(k, "event", card))
  BY <1>1, <1>2, ValidateCall
<1> QED BY <1>3, AppendEffects

\* The subject of a request is a proposal or the workflow.
LEMMA SubjectKnown ==
    ASSUME Core, NEW c \in Client, At(c, "register") \/ At(c, "publish")
    PROVE  /\ call[c].card = 0 \/ call[c].card \in DOMAIN cards
           /\ Subject(c) \in {Workflow} \union { cards[i].payload : i \in DOMAIN cards }
<1>1. PICK t : t = call[c]
  OBVIOUS
<1>2. CallOK(t) /\ t.todo # << >> /\ Head(t.todo) \in {"register", "publish"}
  BY <1>1, AtStep
<1>3. t.card = 0 \/ t.card \in DOMAIN cards
  BY <1>2, FirstSteps DEF CallOK, Approvals
<1> QED BY <1>1, <1>3 DEF Subject

\* Every step of publication has only the effects a step may have.
LEMMA EffectsNext ==
    ASSUME Core, Next
    PROVE  Effects
<1>1. ASSUME UNCHANGED runtimeVars PROVE Effects
  BY <1>1, RuntimeStays DEF Effects, runtimeVars
<1>2. ASSUME NEW p \in Candidate \union {Workflow} \union { cards[i].payload : i \in DOMAIN cards },
             register_patch_panel(p)
      PROVE  Effects
  <2>1. Grows /\ registered' \subseteq registered \union {p} /\ UNCHANGED <<cards, history, keys>>
    BY <1>2, RegisterCall DEF Core
  <2> QED BY <2>1 DEF Effects
<1>3. ASSUME NEW c \in Client, NEW card, NEW e,
             At(c, "source_executed") \/ At(c, "sink_executed"), card = call[c].card,
             record_event(card, e)
      PROVE  Effects
  <2>1. PICK t : t = call[c]
    OBVIOUS
  <2>2. CallOK(t) /\ t.todo # << >> /\ Head(t.todo) \in {"source_executed", "sink_executed"}
    BY <1>3, <2>1, AtStep
  <2>3. card \in DOMAIN cards
    BY <1>3, <2>1, <2>2, FirstSteps DEF CallOK
  <2>4. RuntimeOK
    BY DEF Core
  <2>5. /\ Grows /\ registered' = registered
        /\ UNCHANGED runtimeVars \/ (Appended(card, e) /\ Keyed(e.key, "event", card))
    BY <1>3, <2>3, <2>4, RecordCall
  <2> QED BY <2>5, AppendEffects
<1>4. ASSUME NEW c \in Client, RecordSource(c) \/ RecordSink(c)
      PROVE  Effects
  BY <1>3, <1>4 DEF RecordSource, RecordSink, SourceRecorded, SinkRecorded
<1>5. ASSUME NEW c \in Client,
             \/ Bootstrap(c) \/ CheckHistory(c) \/ Search(c) \/ Publish(c) \/ Index(c)
             \/ WriteEntry(c) \/ End(c)
             \/ \E card \in DOMAIN cards, external \in External, k \in Key :
                   PublicationSink(c, card, external, k)
             \/ \E i \in DOMAIN entries, status \in EntryStatus : EditEntry(c, i, status)
      PROVE  Effects
  <2>1. UNCHANGED runtimeVars
    BY <1>5 DEF Bootstrap, CheckHistory, Search, Publish, Index, WriteEntry, End, PublicationSink,
                execute_sink, EditEntry
  <2> QED BY <1>1, <2>1
<1>6. ASSUME NEW i, Archive(i) \/ Supersede(i)
      PROVE  Effects
  BY <1>1, <1>6 DEF Archive, Supersede
<1>7. ASSUME NEW c \in Client, Register(c)
      PROVE  Effects
  <2>1. /\ Subject(c) \in {Workflow} \union { cards[i].payload : i \in DOMAIN cards }
        /\ register_patch_panel(Subject(c))
    BY <1>7, SubjectKnown DEF Register
  <2> QED BY <1>2, <2>1
<1>8. ASSUME NEW c \in Client, NEW p \in Candidate, NEW status, RegisterEntry(c, p, status)
      PROVE  Effects
  BY <1>2, <1>8 DEF RegisterEntry
<1>9. ASSUME NEW c \in Client, NEW payload \in Payload, NEW k \in Key, ProposalSource(c, payload, k)
      PROVE  Effects
  <2>1. PICK n : execute_source(c, Workflow, n, payload, k, <<"source_executed">>)
    BY <1>9 DEF ProposalSource
  <2>2. PICK card : create_card(Def(Workflow).id, payload, FALSE, k, card)
    BY <2>1 DEF execute_source
  <2>3. RuntimeOK
    BY DEF Core
  <2>4. /\ Grows /\ registered' = registered
        /\ \/ Stored(k, "card") /\ card = keys[k].card /\ UNCHANGED runtimeVars
           \/ /\ card \notin DOMAIN cards /\ DOMAIN cards' = DOMAIN cards \union {card}
              /\ cards'[card].panel \in ActivePanels(Def(Workflow).id)
              /\ cards'[card].payload = payload /\ cards'[card].shadow = FALSE
              /\ history'[card] = <<MkEvent("card_created", None, None, None, None, k)>>
              /\ \A i \in DOMAIN cards : cards'[i] = cards[i] /\ history'[i] = history[i]
              /\ Keyed(k, "card", card)
    BY <2>2, <2>3, CreateCall
  <2>5. CASE /\ DOMAIN cards' = DOMAIN cards \union {card}
             /\ cards'[card].panel \in ActivePanels(Def(Workflow).id)
             /\ cards'[card].payload = payload
             /\ Keyed(k, "card", card)
    BY <2>4, <2>5 DEF Effects, Keyed
  <2> QED BY <1>1, <2>4, <2>5
<1>10. ASSUME NEW card \in DOMAIN cards, NEW d, NEW k, Validate(card, d, k)
       PROVE  Effects
  <2>1. PICK n : execute_validator(Workflow, n, card, d, k)
    BY <1>10 DEF Validate
  <2>2. PICK r : validate_card(card, n.id, validator_accepted(n, r), r.exit, k)
    BY <2>1 DEF execute_validator
  <2> QED BY <2>2, DecisionEffects
<1>11. ASSUME NEW card \in DOMAIN cards, NEW d, NEW v, NEW k, ValidateCard(card, v, d, k)
       PROVE  Effects
  BY <1>11, DecisionEffects DEF ValidateCard
<1>12. ASSUME NEW card \in DOMAIN cards, NEW bucket, Move(card, bucket)
       PROVE  Effects
  <2>1. PICK e : e = MkEvent("card_moved", None, None, None, None, NoKey)
    OBVIOUS
  <2>2. Grows /\ registered' = registered /\ UNCHANGED keys /\ Appended(card, e)
    BY <1>12, <2>1, MoveCall DEF Core, Move
  <2> QED BY <2>2, AppendEffects
<1> QED BY <1>4, <1>5, <1>6, <1>7, <1>8, <1>9, <1>10, <1>11, <1>12 DEF Next

\* Steps that add no row keep the version, origin and card of each.
LEMMA SameRows ==
    ASSUME Core, Next, \A c \in Client : ~Publish(c) /\ ~Index(c)
    PROVE  DOMAIN entries' = DOMAIN entries /\ EntriesGrow
<1>1. CASE UNCHANGED entries
  BY <1>1 DEF EntriesGrow, SameEntry
<1>2. ASSUME NEW c \in Client, WriteEntry(c)
      PROVE  DOMAIN entries' = DOMAIN entries /\ EntriesGrow
  <2>1. PICK t : t = call[c]
    OBVIOUS
  <2>2. CallOK(t) /\ t.todo # << >> /\ Head(t.todo) = "write"
    BY <1>2, <2>1, AtStep DEF WriteEntry
  <2>3. /\ EntryOK(t.data.row) /\ t.data.entry \in DOMAIN entries
        /\ SameEntry(t.data.row, entries[t.data.entry])
    BY <2>2, FirstSteps DEF CallOK
  <2>4. entries' = [entries EXCEPT ![t.data.entry] = t.data.row] /\ UNCHANGED runtimeVars
    BY <1>2, <2>1 DEF WriteEntry, write_entry
  <2> QED BY <2>3, <2>4, ReplaceEntry
<1>3. ASSUME NEW i \in DOMAIN entries, Archive(i) \/ Supersede(i)
      PROVE  DOMAIN entries' = DOMAIN entries /\ EntriesGrow
  BY <1>3, RetireSteps
<1>4. ASSUME NEW c \in Client,
             \/ Bootstrap(c)
             \/ \E payload \in Payload, k \in Key : ProposalSource(c, payload, k)
             \/ RecordSource(c)
             \/ \E card \in DOMAIN cards, external \in External, k \in Key :
                   PublicationSink(c, card, external, k)
             \/ CheckHistory(c) \/ Register(c) \/ Search(c) \/ RecordSink(c)
             \/ \E p \in Candidate, status \in EntryStatus : RegisterEntry(c, p, status)
             \/ \E i \in DOMAIN entries, status \in EntryStatus : EditEntry(c, i, status)
             \/ End(c)
      PROVE  UNCHANGED entries
  BY <1>4 DEF Bootstrap, ProposalSource, RecordSource, PublicationSink, CheckHistory, Register,
              Search, RecordSink, RegisterEntry, EditEntry, End
<1>5. ASSUME NEW card \in DOMAIN cards,
             \/ \E d \in Decision, k \in Key : Validate(card, d, k)
             \/ \E d \in Decision, v \in Reviewer, k \in Key : ValidateCard(card, v, d, k)
             \/ \E bucket \in MoveTo : Move(card, bucket)
      PROVE  UNCHANGED entries
  BY <1>5 DEF Validate, ValidateCard, Move
<1> QED BY <1>1, <1>2, <1>3, <1>4, <1>5 DEF Next

\* The others append one.
LEMMA EntriesGrowNext ==
    ASSUME Core, Next
    PROVE  EntriesGrow
<1>1. CASE \A c \in Client : ~Publish(c) /\ ~Index(c)
  BY <1>1, SameRows
<1>2. ASSUME NEW c \in Client, Publish(c) \/ Index(c)
      PROVE  EntriesGrow
  <2>1. PICK e : entries' = Append(entries, e)
    BY <1>2 DEF Publish, Index, registry_register
  <2>2. DOMAIN entries \subseteq DOMAIN entries' /\ \A i \in DOMAIN entries : entries'[i] = entries[i]
    BY <2>1, SequenceAppend DEF Core, EntriesOK
  <2> QED BY <2>2 DEF EntriesGrow, SameEntry
<1> QED BY <1>1, <1>2

\* After any step but the search, the next one is not to publish.
LEMMA NextSteps ==
    ASSUME NEW t, CallOK(t), t.todo # << >>
    PROVE  Tail(t.todo) = << >> \/ Head(Tail(t.todo)) \in Step \ {"publish"}
<1>1. \/ t.todo = Sourced \/ t.todo = Boot1 \/ t.todo = Boot2 \/ t.todo = Boot3 \/ t.todo = Sink1
      \/ t.todo = Sink2 \/ t.todo = Sink3 \/ t.todo = Sink4 \/ t.todo = Sink5
      \/ t.todo = Indexing \/ t.todo = Writing \/ t.todo = Intending \/ t.todo = Proposing
      \/ t.todo = Launching
  BY DEF CallOK
<1> QED BY <1>1, FirstSteps, LaterSteps DEF Step

\* What a request is at after a step: where it was, answered, at a step of the
\* workflow; to publish only if its search has just found nothing.
Aside(u) == u.todo = << >> \/ Head(u.todo) \in Step \ {"publish"}

ToPublish(c) ==
    /\ SearchVersion(Subject(c)) = {} /\ UNCHANGED <<runtimeVars, entries>>
    /\ call'[c].card = call[c].card
    /\ Head(call'[c].todo) = "publish"

\* A step leaves a request as it is, or turns it aside from publishing, or
\* brings it to its publication, having found no entry.
LEMMA CallsNext ==
    ASSUME Core, Next, NEW c \in Client
    PROVE  call'[c] = call[c] \/ Aside(call'[c]) \/ ToPublish(c)
<1> DEFINE Goal == call'[c] = call[c] \/ Aside(call'[c]) \/ ToPublish(c)
<1>1. ASSUME NEW d \in Client, NEW u, call' = [call EXCEPT ![d] = u]
      PROVE  call'[c] = call[c] \/ (c = d /\ call'[c] = u)
  BY <1>1 DEF Core, CallsOK
<1>2. ASSUME NEW d \in Client, NEW todo, NEW n, NEW card, NEW k, NEW data,
             Head(todo) \in Step \ {"publish"},
             call' = [call EXCEPT ![d] = MkCall(todo, n, card, k, data)]
      PROVE  Goal
  <2>1. PICK u : u = MkCall(todo, n, card, k, data)
    OBVIOUS
  <2>2. u.todo = todo
    BY <2>1, BeginCall
  <2> QED BY <1>1, <1>2, <2>1, <2>2 DEF Aside
<1>3. ASSUME NEW d \in Client, NEW ref, NEW data, ~IsIdle(d), Proceed(d, Rest(d), ref, data)
      PROVE  Goal
  <2>1. PICK u : call' = [call EXCEPT ![d] = u] /\ u.todo = Rest(d)
    BY <1>3, GoesOn
  <2>2. PICK t : t = call[d]
    OBVIOUS
  <2>3. CallOK(t) /\ t.todo # << >> /\ Rest(d) = Tail(t.todo)
    BY <1>3, <2>2 DEF Core, CallsOK, IsIdle, Rest
  <2>4. Aside(u)
    BY <2>1, <2>3, NextSteps DEF Aside
  <2> QED BY <1>1, <2>1, <2>4
<1>4. ASSUME UNCHANGED call PROVE Goal
  BY <1>4
<1>5. ASSUME NEW d \in Client, Bootstrap(d) PROVE Goal
  <2>1. PICK todo : todo = Boot1
    OBVIOUS
  <2>2. call' = [call EXCEPT ![d] = MkCall(todo, None, 0, NoKey, None)]
    BY <1>5, <2>1 DEF Bootstrap, Boot1
  <2>3. Head(todo) \in Step \ {"publish"}
    BY <2>1, FirstSteps DEF Step
  <2> HIDE DEF Goal
  <2> QED BY <1>2, <2>2, <2>3
<1>6. ASSUME NEW d \in Client, NEW payload, NEW k, ProposalSource(d, payload, k) PROVE Goal
  <2>1. PICK todo : todo = Sourced
    OBVIOUS
  <2>2. PICK n : execute_source(d, Workflow, n, payload, k, todo)
    BY <1>6, <2>1 DEF ProposalSource, Sourced
  <2>3. PICK card : call' = [call EXCEPT ![d] = MkCall(todo, n.id, card, k, None)]
    BY <2>2 DEF execute_source
  <2>4. Head(todo) \in Step \ {"publish"}
    BY <2>1, FirstSteps DEF Step
  <2> HIDE DEF Goal
  <2> QED BY <1>2, <2>3, <2>4
<1>7. ASSUME NEW d \in Client, NEW card, NEW external, NEW k, PublicationSink(d, card, external, k)
      PROVE  Goal
  <2>1. PICK todo : todo = Sink1
    OBVIOUS
  <2>2. PICK n : execute_sink(d, Workflow, n, card, external, k, todo)
    BY <1>7, <2>1 DEF PublicationSink, Sink1
  <2>3. PICK t : t = MkCall(todo, n.id, card, k, None)
    OBVIOUS
  <2>4. PICK u : u = [t EXCEPT !.ref = external]
    OBVIOUS
  <2>5. IsCall(t) /\ t.todo = todo
    BY <2>3, BeginCall
  <2>6. u.todo = todo
    BY <2>4, <2>5 DEF IsCall
  <2>7. call' = [call EXCEPT ![d] = u]
    BY <2>2, <2>3, <2>4 DEF execute_sink
  <2>8. Aside(u)
    BY <2>1, <2>6, FirstSteps DEF Step, Aside
  <2> QED BY <1>1, <2>7, <2>8
<1>8. ASSUME NEW d \in Client, NEW p, NEW status, RegisterEntry(d, p, status) PROVE Goal
  <2>1. PICK todo : todo = Indexing
    OBVIOUS
  <2>2. call' = [call EXCEPT ![d] = MkCall(todo, None, 0, NoKey, MkEntry(p, status, "api", 0))]
    BY <1>8, <2>1 DEF RegisterEntry, Indexing
  <2>3. Head(todo) \in Step \ {"publish"}
    BY <2>1, FirstSteps DEF Step
  <2> HIDE DEF Goal
  <2> QED BY <1>2, <2>2, <2>3
<1>9. ASSUME NEW d \in Client, NEW i, NEW status, EditEntry(d, i, status) PROVE Goal
  <2>1. PICK todo : todo = Writing
    OBVIOUS
  <2>2. PICK x : call' = [call EXCEPT ![d] = MkCall(todo, None, 0, NoKey, x)]
    BY <1>9, <2>1 DEF EditEntry, Writing
  <2>3. Head(todo) \in Step \ {"publish"}
    BY <2>1, FirstSteps DEF Step
  <2> HIDE DEF Goal
  <2> QED BY <1>2, <2>2, <2>3
<1>10. ASSUME NEW d \in Client,
              \/ RecordSource(d) \/ RecordSink(d) \/ CheckHistory(d) \/ Register(d) \/ Index(d)
              \/ WriteEntry(d)
       PROVE  Goal
  <2>1. ~IsIdle(d) /\ Continue(d, Rest(d))
    BY <1>10 DEF RecordSource, RecordSink, SourceRecorded, SinkRecorded, CheckHistory, Register,
                 Index, WriteEntry, At
  <2> HIDE DEF Goal
  <2> QED BY <1>3, <2>1 DEF Continue
<1>11. ASSUME NEW d \in Client, Publish(d) PROVE Goal
  <2>1. PICK ref : ref = Reference(d, Len(entries'))
    OBVIOUS
  <2>2. ~IsIdle(d) /\ Proceed(d, Rest(d), ref, None)
    BY <1>11, <2>1 DEF Publish, At
  <2> HIDE DEF Goal
  <2> QED BY <1>3, <2>2
<1>12. ASSUME NEW d \in Client, Search(d) PROVE Goal
  <2>1. ~IsIdle(d) /\ UNCHANGED <<runtimeVars, entries>>
    BY <1>12 DEF Search, At
  <2>2. CASE SearchVersion(Subject(d)) = {} /\ Continue(d, <<"publish">> \o Rest(d))
    <3>1. PICK todo : todo = <<"publish">> \o Rest(d)
      OBVIOUS
    <3>2. PICK ref, data : Proceed(d, todo, ref, data)
      BY <2>2, <3>1 DEF Continue
    <3>3. PICK u : /\ call' = [call EXCEPT ![d] = u] /\ u.todo = todo
                   /\ todo # << >> => u.card = call[d].card
      BY <3>2, GoesOn
    <3>4. PICK t : t = call[d]
      OBVIOUS
    <3>5. CallOK(t) /\ t.todo # << >> /\ Head(t.todo) = "search" /\ Rest(d) = Tail(t.todo)
      BY <1>12, <3>4, AtStep DEF Search
    <3>6. t.todo = Boot2 \/ t.todo = Sink3
      BY <3>5, FirstSteps DEF CallOK
    <3>7. todo = Boot3 \/ todo = Sink4
      BY <3>1, <3>5, <3>6, LaterSteps, PublishSteps
    <3>8. todo # << >> /\ Head(todo) = "publish"
      BY <3>7, FirstSteps, Unfinished
    <3>9. call'[c] = call[c] \/ (c = d /\ call'[c] = u)
      BY <1>1, <3>3
    <3> QED BY <2>1, <2>2, <3>3, <3>8, <3>9 DEF ToPublish
  <2>3. CASE \E ref : Proceed(d, Rest(d), ref, None)
    <3> HIDE DEF Goal
    <3> QED BY <1>3, <2>1, <2>3
  <2> QED BY <1>12, <2>2, <2>3 DEF Search
<1>13. ASSUME NEW d \in Client, End(d) PROVE Goal
  <2>1. PICK u : u = Idle
    OBVIOUS
  <2>2. call' = [call EXCEPT ![d] = u]
    BY <1>13, <2>1 DEF End, Abort
  <2>3. u.todo = << >>
    BY <2>1 DEF Idle, MkCall
  <2> QED BY <1>1, <2>2, <2>3 DEF Aside
<1>14. ASSUME NEW card \in DOMAIN cards,
              \/ \E d \in Decision, k \in Key : Validate(card, d, k)
              \/ \E d \in Decision, v \in Reviewer, k \in Key : ValidateCard(card, v, d, k)
              \/ \E bucket \in MoveTo : Move(card, bucket)
       PROVE  UNCHANGED call
  BY <1>14 DEF Validate, ValidateCard, Move
<1>15. ASSUME NEW i, Archive(i) \/ Supersede(i)
       PROVE  UNCHANGED call
  BY <1>15 DEF Archive, Supersede
<1> HIDE DEF Goal
<1>16. Goal
  BY <1>4, <1>5, <1>6, <1>7, <1>8, <1>9, <1>10, <1>11, <1>12, <1>13, <1>14, <1>15 DEF Next
<1> QED BY <1>16 DEF Goal

-----------------------------------------------------------------------------
(* Types.                                                                   *)

\* Cards are proposals in the workflow, and no panel is registered that
\* nobody proposed, registered or bootstrapped.
TablesOK ==
    /\ registered \subseteq Candidate \union Payload \union {Workflow}
    /\ \A i \in DOMAIN cards : cards[i].panel = Workflow /\ cards[i].payload \in Payload

\* Every request is at a step of the workflow or answered.
StepsOK == \A c \in Client : call[c].todo = << >> \/ Head(call[c].todo) \in Step

\* No other panel has the id of the workflow.
LEMMA WorkflowIsAlone ==
    ASSUME registered \subseteq Candidate \union Payload \union {Workflow},
           NEW p \in ActivePanels(Def(Workflow).id)
    PROVE  p = Workflow
BY NoProposalOfTheWorkflow DEF ActivePanels

\* Only the workflow, candidates and proposed panels are ever registered, and
\* every card is a proposal in the workflow.
LEMMA TablesNext ==
    ASSUME Core, TablesOK, Next
    PROVE  TablesOK'
<1>1. Effects
  BY EffectsNext
<1>2. registered' \subseteq Candidate \union Payload \union {Workflow}
  BY <1>1 DEF Effects, TablesOK
<1>3. ASSUME NEW i \in DOMAIN cards'
      PROVE  cards'[i].panel = Workflow /\ cards'[i].payload \in Payload
  <2>1. CASE i \in DOMAIN cards
    BY <1>1, <2>1 DEF Effects, Grows, TablesOK
  <2>2. CASE i \notin DOMAIN cards
    BY <1>1, <2>2, WorkflowIsAlone DEF Effects, TablesOK
  <2> QED BY <2>1, <2>2
<1> QED BY <1>2, <1>3 DEF TablesOK

\* Requests of publication only have steps of publication to do.
LEMMA StepsNext ==
    ASSUME Core, StepsOK, Next
    PROVE  StepsOK'
<1> SUFFICES ASSUME NEW c \in Client PROVE call'[c].todo = << >> \/ Head(call'[c].todo) \in Step
  BY DEF StepsOK
<1>1. "publish" \in Step
  BY DEF Step
<1> QED BY <1>1, CallsNext DEF StepsOK, Aside, ToPublish

\* The steps of the workflow's requests.
LEMMA WorkflowSteps ==
    /\ Elements(<< >>) \subseteq Step /\ Elements(Sourced) \subseteq Step
    /\ Elements(Boot1) \subseteq Step /\ Elements(Boot2) \subseteq Step
    /\ Elements(Boot3) \subseteq Step /\ Elements(Sink1) \subseteq Step
    /\ Elements(Sink2) \subseteq Step /\ Elements(Sink3) \subseteq Step
    /\ Elements(Sink4) \subseteq Step /\ Elements(Sink5) \subseteq Step
    /\ Elements(Indexing) \subseteq Step /\ Elements(Writing) \subseteq Step
<1>1. /\ Elements(<< >>) \subseteq Step /\ Elements(Sourced) \subseteq Step
      /\ Elements(Boot2) \subseteq Step /\ Elements(Boot3) \subseteq Step
      /\ Elements(Sink5) \subseteq Step /\ Elements(Indexing) \subseteq Step
      /\ Elements(Writing) \subseteq Step
  BY DEF Elements, Step, Sourced, Boot2, Boot3, Sink5, Indexing, Writing
<1>2. Elements(Boot1) \subseteq Step
  BY DEF Elements, Step, Boot1
<1>3. Elements(Sink1) \subseteq Step
  BY DEF Elements, Step, Sink1
<1>4. Elements(Sink2) \subseteq Step
  BY DEF Elements, Step, Sink2
<1>5. Elements(Sink3) \subseteq Step /\ Elements(Sink4) \subseteq Step
  BY DEF Elements, Step, Sink3, Sink4
<1> QED BY <1>1, <1>2, <1>3, <1>4, <1>5

\* TypeOK of Publication, for any clients, panels and bounds.
THEOREM PublicationTypes == Spec => []TypeOK
<1> DEFINE Inv == TablesOK /\ StepsOK
<1>1. Init => Inv
  <2> SUFFICES ASSUME Init PROVE Inv
    OBVIOUS
  <2>1. TablesOK
    BY DEF Init, TablesOK
  <2>2. StepsOK
    <3>1. PICK u : u = Idle
      OBVIOUS
    <3>2. u.todo = << >>
      BY <3>1 DEF Idle, MkCall
    <3> QED BY <3>1, <3>2 DEF Init, StepsOK
  <2> QED BY <2>1, <2>2
<1>2. Core /\ Inv /\ [Next]_vars => Inv'
  <2>1. Core /\ Inv /\ Next => Inv'
    BY TablesNext, StepsNext
  <2>2. Inv /\ UNCHANGED vars => Inv'
    BY DEF vars, runtimeVars, TablesOK, StepsOK
  <2> QED BY <2>1, <2>2
<1>3. Core /\ Inv => TypeOK
  <2> SUFFICES ASSUME Core, Inv PROVE TypeOK
    OBVIOUS
  <2>1. ASSUME NEW c \in Client PROVE Elements(call[c].todo) \subseteq Step
    <3>1. PICK t : t = call[c]
      OBVIOUS
    <3>2. CallOK(t) /\ (t.todo = << >> \/ Head(t.todo) \in Step)
      BY <3>1 DEF Core, CallsOK, StepsOK
    <3>3. \/ t.todo = << >> \/ t.todo = Sourced \/ t.todo = Boot1 \/ t.todo = Boot2
          \/ t.todo = Boot3 \/ t.todo = Sink1 \/ t.todo = Sink2 \/ t.todo = Sink3
          \/ t.todo = Sink4 \/ t.todo = Sink5 \/ t.todo = Indexing \/ t.todo = Writing
      <4>1. ~("intent" \in Step) /\ ~("propose" \in Step) /\ ~("launch" \in Step)
        BY DEF Step
      <4> QED BY <3>2, <4>1, FirstSteps, Unfinished DEF CallOK
    <3> QED BY <3>1, <3>3, WorkflowSteps
  <2> QED BY <2>1 DEF Core, RuntimeOK, EntriesOK, EntryOK, TablesOK, TypeOK
<1> HIDE DEF Inv
<1> QED BY <1>1, <1>2, <1>3, PublicationInvariant, PTL DEF Spec

-----------------------------------------------------------------------------
(* One entry per version, when requests come one after the other.           *)

OneClient == \A c, d \in Client : c = d

\* What the search of a request that is about to publish found still holds.
StillMissing == \A c \in Client : At(c, "publish") => SearchVersion(Subject(c)) = {}

\* A row of the version would have been there before.
LEMMA NoNewVersion ==
    ASSUME NEW p, SearchVersion(p) = {}, DOMAIN entries' = DOMAIN entries, EntriesGrow
    PROVE  SearchVersion(p)' = {}
BY DEF SearchVersion, registry_search, EntriesGrow, SameEntry

\* Between the search and the publication the version stays missing.
LEMMA StaysMissing ==
    ASSUME Core, OneClient, StillMissing, Next
    PROVE  StillMissing'
<1> SUFFICES ASSUME NEW c \in Client, At(c, "publish")'
             PROVE  SearchVersion(Subject(c))' = {}
  BY DEF StillMissing
<1>1. PICK p : p = Subject(c)
  OBVIOUS
<1>2. CASE call'[c] = call[c]
  <2>1. At(c, "publish")
    BY <1>2 DEF At, IsIdle
  <2>2. PICK t : t = call[c]
    OBVIOUS
  <2>3. CallOK(t) /\ t.todo # << >> /\ Head(t.todo) = "publish"
    BY <2>1, <2>2, AtStep
  <2>4. Subject(c)' = p
    <3>1. Effects
      BY EffectsNext
    <3> QED BY <1>1, <1>2, <2>1, <3>1, SubjectKnown DEF Subject, Effects, Grows
  <2>5. SearchVersion(p) = {}
    BY <1>1, <2>1 DEF StillMissing
  <2>6. \A d \in Client : ~Publish(d) /\ ~Index(d)
    <3> SUFFICES ASSUME Publish(c) \/ Index(c) PROVE FALSE
      BY DEF OneClient
    <3>1. Publish(c)
      BY <2>1 DEF Index, At
    <3>2. PICK ref : Proceed(c, Rest(c), ref, None)
      BY <3>1 DEF Publish
    <3>3. PICK u : call' = [call EXCEPT ![c] = u] /\ u.todo = Rest(c)
      BY <3>2, GoesOn
    <3>4. call'[c] = u
      BY <3>3 DEF Core, CallsOK
    <3>5. Tail(t.todo) = << >> \/ Head(Tail(t.todo)) \in Step \ {"publish"}
      BY <2>3, NextSteps
    <3> QED BY <1>2, <2>2, <2>3, <3>3, <3>4, <3>5 DEF Rest
  <2>7. DOMAIN entries' = DOMAIN entries /\ EntriesGrow
    BY <2>6, SameRows
  <2>8. SearchVersion(p)' = {}
    BY <2>5, <2>7, NoNewVersion
  <2> QED BY <2>4, <2>8
<1>3. CASE ToPublish(c)
  <2>1. Subject(c)' = p
    BY <1>1, <1>3 DEF ToPublish, Subject, runtimeVars
  <2>2. SearchVersion(p)' = {}
    BY <1>1, <1>3 DEF ToPublish, SearchVersion, registry_search
  <2> QED BY <2>1, <2>2
<1>4. CASE Aside(call'[c])
  BY <1>4 DEF Aside, At, IsIdle
<1> QED BY <1>2, <1>3, <1>4, CallsNext

\* With one request at a time, no step adds a second entry of a version.
LEMMA OneEntryNext ==
    ASSUME Core, StillMissing, OneEntryPerVersion, Next
    PROVE  OneEntryPerVersion'
<1>1. CASE \A c \in Client : ~Publish(c) /\ ~Index(c)
  <2>1. DOMAIN entries' = DOMAIN entries /\ EntriesGrow
    BY <1>1, SameRows
  <2> QED BY <2>1 DEF OneEntryPerVersion, EntriesGrow, SameEntry
<1>2. ASSUME NEW c \in Client, Publish(c)
      PROVE  OneEntryPerVersion'
  <2>1. PICK p : p = Subject(c)
    OBVIOUS
  <2>2. PICK e : e = MkEntry(p, "published", Origin(c), call[c].card)
    OBVIOUS
  <2>3. e.panel = p /\ entries' = Append(entries, e)
    BY <1>2, <2>1, <2>2 DEF MkEntry, Publish, registry_register
  <2>4. \A i \in DOMAIN entries : ~SameVersion(entries[i].panel, p)
    BY <1>2, <2>1 DEF StillMissing, Publish, SearchVersion, registry_search
  <2>5. /\ DOMAIN entries' = DOMAIN entries \union {Len(entries) + 1}
        /\ entries'[Len(entries) + 1] = e
        /\ \A i \in DOMAIN entries : entries'[i] = entries[i]
    BY <2>3, SequenceAppend DEF Core, EntriesOK
  <2>6. \A q : SameVersion(p, q) => SameVersion(q, p)
    BY DEF SameVersion
  <2> QED BY <2>3, <2>4, <2>5, <2>6 DEF OneEntryPerVersion
<1>3. ASSUME NEW c \in Client, Index(c)
      PROVE  OneEntryPerVersion'
  <2>1. PICK t : t = call[c]
    OBVIOUS
  <2>2. CallOK(t) /\ t.todo # << >> /\ Head(t.todo) = "index"
    BY <1>3, <2>1, AtStep DEF Index
  <2>3. t.data.origin = "api"
    BY <2>2, FirstSteps DEF CallOK
  <2>4. entries' = Append(entries, t.data)
    BY <1>3, <2>1 DEF Index, registry_register
  <2>5. /\ DOMAIN entries' = DOMAIN entries \union {Len(entries) + 1}
        /\ entries'[Len(entries) + 1] = t.data
        /\ \A i \in DOMAIN entries : entries'[i] = entries[i]
    BY <2>4, SequenceAppend DEF Core, EntriesOK
  <2> QED BY <2>3, <2>5 DEF OneEntryPerVersion
<1> QED BY <1>1, <1>2, <1>3

\* Retries, repeated sinks and repeated bootstraps index a version once,
\* provided that requests come one after the other: with two clients the
\* search of one and the entry of the other can cross.
THEOREM OneEntry ==
    ASSUME OneClient
    PROVE  Spec => []OneEntryPerVersion
<1> DEFINE Inv == StillMissing /\ OneEntryPerVersion
<1>1. Init => Inv
  <2> SUFFICES ASSUME Init PROVE Inv
    OBVIOUS
  <2>1. \A c \in Client : call[c].todo = << >>
    BY DEF Init, Idle, MkCall
  <2>2. entries = << >>
    BY DEF Init
  <2> QED BY <2>1, <2>2 DEF StillMissing, OneEntryPerVersion, At, IsIdle
<1>2. Core /\ Inv /\ [Next]_vars => Inv'
  <2>1. Core /\ Inv /\ Next => Inv'
    BY StaysMissing, OneEntryNext
  <2>2. Inv /\ UNCHANGED vars => Inv'
    <3> SUFFICES ASSUME Inv, UNCHANGED vars PROVE Inv'
      OBVIOUS
    <3>1. UNCHANGED <<cards, entries, call>>
      BY DEF vars, runtimeVars
    <3>2. OneEntryPerVersion'
      BY <3>1 DEF OneEntryPerVersion
    <3>3. StillMissing'
      BY <3>1 DEF StillMissing, At, IsIdle, SearchVersion, registry_search, Subject
    <3> QED BY <3>2, <3>3
  <2> QED BY <2>1, <2>2
<1> HIDE DEF Inv
<1>3. Inv => OneEntryPerVersion
  BY DEF Inv
<1> QED BY <1>1, <1>2, <1>3, PublicationInvariant, PTL DEF Spec

-----------------------------------------------------------------------------
(* Genesis: intents, what a launch and a proposal leave behind, and requests *)
(* that have read an intent and will write it back.                         *)

IsIntent(x) ==
    x = [dedup |-> x.dedup, candidates |-> x.candidates, entry |-> x.entry, card |-> x.card,
         proposal |-> x.proposal, status |-> x.status, live |-> x.live]

RequestDedups == { r.dedup : r \in IntentRequest }

ProposeKey(i, p) == <<"genesis", "propose", i, p>>

\* The key stands for the card.
KeyOf(k, card) == k \in DOMAIN keys /\ keys[k].type = "card" /\ keys[k].card = card

\* An intent that names a card has the card of its launch key, and the same
\* for the card of its proposal.
IntentOK(x) ==
    /\ IsIntent(x)
    /\ x.dedup \in RequestDedups
    /\ x.status \in {"received", "design_required", "launched", "proposed"}
    /\ x.candidates \subseteq DOMAIN entries
    /\ x.card # None => x.entry \in DOMAIN entries /\ KeyOf(LaunchKey(0, x.dedup, x.entry), x.card)
    /\ x.proposal # None => \E i : \E p : KeyOf(ProposeKey(i, p), x.proposal)

SameIntent(x, y) == x.dedup = y.dedup /\ x.live = y.live

IntentsOK == IsSequence(intents) /\ \A i \in DOMAIN intents : IntentOK(intents[i])

\* The copy that a request took is still of the intent it will overwrite.
WaitingOK(t) ==
    /\ t.todo = Intending => t.data \in IntentRequest
    /\ t.todo = Launching \/ t.todo = Proposing =>
          /\ t.data.intent \in DOMAIN intents /\ IntentOK(t.data.copy)
          /\ SameIntent(t.data.copy, intents[t.data.intent])
          /\ t.data.copy.live
    /\ t.todo = Proposing => t.data.panel \in Candidate

WaitingsOK == \A c \in Client : WaitingOK(call[c])

GenesisCore == Core /\ IntentsOK /\ WaitingsOK

\* Intents stay right while the tables grow.
LEMMA IntentStays ==
    ASSUME Core, Grows, EntriesGrow, NEW x, IntentOK(x)
    PROVE  IntentOK(x)'
<1>1. \A k, card : KeyOf(k, card) => KeyOf(k, card)'
  BY DEF KeyOf, Grows
<1>2. x.card # None => x.entry \in DOMAIN entries' /\ KeyOf(LaunchKey(0, x.dedup, x.entry), x.card)'
  <2>1. PICK k : k = LaunchKey(0, x.dedup, x.entry)
    OBVIOUS
  <2>2. x.card # None => x.entry \in DOMAIN entries /\ KeyOf(k, x.card)
    BY <2>1 DEF IntentOK
  <2>3. x.card # None => x.entry \in DOMAIN entries' /\ KeyOf(k, x.card)'
    BY <1>1, <2>2 DEF EntriesGrow
  <2> QED BY <2>1, <2>3
<1>3. x.proposal # None => \E i : \E p : KeyOf(ProposeKey(i, p), x.proposal)'
  BY <1>1 DEF IntentOK
<1> QED BY <1>2, <1>3 DEF IntentOK, EntriesGrow

\* A step of Genesis: intents are added or written back, requests go on.
LEMMA IntentsStep ==
    ASSUME GenesisCore, Core', Grows, EntriesGrow,
           IsSequence(intents'), DOMAIN intents \subseteq DOMAIN intents',
           \A i \in DOMAIN intents : SameIntent(intents'[i], intents[i]),
           \A i \in DOMAIN intents' : \/ i \in DOMAIN intents /\ intents'[i] = intents[i]
                                      \/ \E x : x = intents'[i] /\ IntentOK(x)',
           \A c \in Client : call'[c] = call[c] \/ \E t : t = call'[c] /\ WaitingOK(t)'
    PROVE  GenesisCore'
<1>1. ASSUME NEW x, IntentOK(x) PROVE IntentOK(x)'
  BY <1>1, IntentStays DEF GenesisCore
<1>2. ASSUME NEW i \in DOMAIN intents' PROVE IntentOK(intents[i])'
  <2>1. PICK x : x = intents'[i]
    OBVIOUS
  <2>2. IntentOK(x)'
    BY <1>1, <2>1 DEF GenesisCore, IntentsOK
  <2> QED BY <2>1, <2>2
<1>3. ASSUME NEW c \in Client PROVE WaitingOK(call[c])'
  <2>1. PICK t : t = call'[c]
    OBVIOUS
  <2>2. ASSUME t = call[c] PROVE WaitingOK(t)'
    <3>1. WaitingOK(t)
      BY <2>2 DEF GenesisCore, WaitingsOK
    <3>2. CASE t.todo = Launching \/ t.todo = Proposing
      <4>1. /\ t.data.intent \in DOMAIN intents /\ IntentOK(t.data.copy)
            /\ SameIntent(t.data.copy, intents[t.data.intent])
            /\ t.data.copy.live
        BY <3>1, <3>2 DEF WaitingOK
      <4>2. IntentOK(t.data.copy)'
        BY <1>1, <4>1
      <4>3. /\ t.data.intent \in DOMAIN intents'
            /\ SameIntent(t.data.copy, intents'[t.data.intent])
        BY <4>1 DEF SameIntent
      <4> QED BY <3>1, <4>1, <4>2, <4>3 DEF WaitingOK
    <3>3. CASE ~(t.todo = Launching \/ t.todo = Proposing)
      BY <3>1, <3>3 DEF WaitingOK
    <3> QED BY <3>2, <3>3
  <2>3. WaitingOK(t)'
    BY <2>1, <2>2
  <2> QED BY <2>1, <2>3
<1> QED BY <1>2, <1>3 DEF GenesisCore, IntentsOK, WaitingsOK

\* A request that is at a step of the publication workflow, or is answered,
\* holds no intent.
LEMMA NothingWaits ==
    ASSUME NEW t, t.todo = << >> \/ Head(t.todo) \in Step
    PROVE  WaitingOK(t)'
<1>1. ~("intent" \in Step) /\ ~("propose" \in Step) /\ ~("launch" \in Step)
  BY DEF Step
<1>2. t.todo # Intending /\ t.todo # Launching /\ t.todo # Proposing
  BY <1>1, FirstSteps, Unfinished
<1> QED BY <1>2 DEF WaitingOK

\* The steps of the publication workflow.
LEMMA WorkflowStep ==
    ASSUME GenesisCore, Next, UNCHANGED intents
    PROVE  GenesisCore'
<1>1. Core /\ Core' /\ Grows /\ EntriesGrow
  BY CoreNext, EffectsNext, EntriesGrowNext DEF GenesisCore, Effects
<1>2. \A i \in DOMAIN intents' : i \in DOMAIN intents /\ intents'[i] = intents[i]
  OBVIOUS
<1>3. ASSUME NEW c \in Client
      PROVE  call'[c] = call[c] \/ \E t : t = call'[c] /\ WaitingOK(t)'
  <2>1. "publish" \in Step
    BY DEF Step
  <2>2. PICK t : t = call'[c]
    OBVIOUS
  <2>3. call'[c] = call[c] \/ t.todo = << >> \/ Head(t.todo) \in Step
    BY <1>1, <2>1, <2>2, CallsNext DEF Aside, ToPublish
  <2> QED BY <2>2, <2>3, NothingWaits
<1>4. IsSequence(intents') /\ \A i \in DOMAIN intents : SameIntent(intents'[i], intents[i])
  BY DEF GenesisCore, IntentsOK, SameIntent
<1> QED BY <1>1, <1>2, <1>3, <1>4, IntentsStep

\* A request that writes nothing but its own state.
LEMMA WaitStep ==
    ASSUME GenesisCore, UNCHANGED <<runtimeVars, entries, intents>>, NEW c \in Client, NEW u,
           call' = [call EXCEPT ![c] = u], CallOK(u), WaitingOK(u)
    PROVE  GenesisCore'
<1>1. Core /\ UNCHANGED <<runtimeVars, entries>> /\ UNCHANGED intents
  BY DEF GenesisCore
<1>2. Core'
  BY <1>1, RequestOnly
<1>3. Grows /\ EntriesGrow
  BY <1>1, RuntimeStays, IndexStays
<1>4. WaitingOK(u)'
  <2>1. u.todo = Launching \/ u.todo = Proposing => IntentOK(u.data.copy)'
    BY <1>1, <1>3, IntentStays DEF WaitingOK
  <2> QED BY <1>1, <2>1 DEF WaitingOK
<1>5. \A d \in Client : call'[d] = call[d] \/ \E t : t = call'[d] /\ WaitingOK(t)'
  BY <1>4 DEF GenesisCore, Core, CallsOK
<1>6. IsSequence(intents') /\ \A i \in DOMAIN intents : SameIntent(intents'[i], intents[i])
  BY <1>1 DEF GenesisCore, IntentsOK, SameIntent
<1>7. \A i \in DOMAIN intents' : i \in DOMAIN intents /\ intents'[i] = intents[i]
  BY <1>1
<1> QED BY <1>2, <1>3, <1>5, <1>6, <1>7, IntentsStep

\* receive_intent, launch and propose begin.
LEMMA BeginSteps ==
    ASSUME GenesisCore, NEW c \in Client,
           \/ \E r \in IntentRequest : ReceiveIntent(c, r)
           \/ \E i \in DOMAIN intents :
                \/ \E entry \in DOMAIN entries : StartLaunch(c, i, entry)
                \/ \E p \in Candidate : StartPropose(c, i, p)
    PROVE  GenesisCore'
<1>1. ASSUME NEW r \in IntentRequest, ReceiveIntent(c, r) PROVE GenesisCore'
  <2>1. PICK u : u = MkCall(<<"intent">>, None, 0, NoKey, r)
    OBVIOUS
  <2>2. IsCall(u) /\ u.todo = Intending /\ u.data = r
    BY <2>1, BeginCall DEF Intending
  <2>3. CallOK(u)
    BY <2>2 DEF CallOK
  <2>4. Intending # Launching /\ Intending # Proposing
    BY FirstSteps
  <2>5. WaitingOK(u)
    BY <2>2, <2>4 DEF WaitingOK
  <2>6. call' = [call EXCEPT ![c] = u] /\ UNCHANGED <<runtimeVars, entries, intents>>
    BY <1>1, <2>1 DEF ReceiveIntent
  <2> QED BY <2>3, <2>5, <2>6, WaitStep
<1>2. ASSUME NEW i \in DOMAIN intents, NEW entry \in DOMAIN entries, StartLaunch(c, i, entry)
      PROVE  GenesisCore'
  <2>1. PICK x : x = [intent |-> i, copy |-> intents[i], entry |-> entry]
    OBVIOUS
  <2>2. x.intent = i /\ x.copy = intents[i] /\ x.entry = entry
    BY <2>1
  <2>3. PICK u : u = MkCall(<<"launch">>, None, 0, NoKey, x)
    OBVIOUS
  <2>4. IsCall(u) /\ u.todo = Launching /\ u.data = x
    BY <2>3, BeginCall DEF Launching
  <2>5. CallOK(u)
    BY <2>2, <2>4 DEF CallOK
  <2>6. Launching # Intending /\ Launching # Proposing
    BY FirstSteps
  <2>7. IntentOK(x.copy) /\ SameIntent(x.copy, intents[i]) /\ x.copy.live
    BY <1>2, <2>2 DEF GenesisCore, IntentsOK, SameIntent, StartLaunch
  <2>8. WaitingOK(u)
    BY <2>2, <2>4, <2>6, <2>7 DEF WaitingOK
  <2>9. call' = [call EXCEPT ![c] = u] /\ UNCHANGED <<runtimeVars, entries, intents>>
    BY <1>2, <2>1, <2>3 DEF StartLaunch
  <2> QED BY <2>5, <2>8, <2>9, WaitStep
<1>3. ASSUME NEW i \in DOMAIN intents, NEW p \in Candidate, StartPropose(c, i, p)
      PROVE  GenesisCore'
  <2>1. PICK x : x = [intent |-> i, copy |-> intents[i], panel |-> p]
    OBVIOUS
  <2>2. x.intent = i /\ x.copy = intents[i] /\ x.panel = p
    BY <2>1
  <2>3. PICK u : u = MkCall(<<"propose">>, None, 0, NoKey, x)
    OBVIOUS
  <2>4. IsCall(u) /\ u.todo = Proposing /\ u.data = x
    BY <2>3, BeginCall DEF Proposing
  <2>5. CallOK(u)
    BY <2>2, <2>4 DEF CallOK
  <2>6. Proposing # Intending
    BY FirstSteps
  <2>7. IntentOK(x.copy) /\ SameIntent(x.copy, intents[i]) /\ x.copy.live
    BY <1>3, <2>2 DEF GenesisCore, IntentsOK, SameIntent, StartPropose
  <2>8. WaitingOK(u)
    BY <2>2, <2>4, <2>6, <2>7 DEF WaitingOK
  <2>9. call' = [call EXCEPT ![c] = u] /\ UNCHANGED <<runtimeVars, entries, intents>>
    BY <1>3, <2>1, <2>3 DEF StartPropose
  <2> QED BY <2>5, <2>8, <2>9, WaitStep
<1> QED BY <1>1, <1>2, <1>3

\* The intent is stored, with the candidates of the search.
LEMMA StoreIntentStep ==
    ASSUME GenesisCore, NEW c \in Client, StoreIntent(c)
    PROVE  GenesisCore'
<1>1. PICK t : t = call[c]
  OBVIOUS
<1>2. Core
  BY DEF GenesisCore
<1>3. /\ CallOK(t) /\ IsCall(t) /\ t.todo # << >> /\ Head(t.todo) = "intent"
      /\ Rest(c) = Tail(t.todo)
  BY <1>1, <1>2, AtStep DEF StoreIntent
<1>4. t.todo = Intending /\ t.data \in IntentRequest
  <2>1. t.todo = Intending
    BY <1>3, FirstSteps DEF CallOK
  <2> QED BY <1>1, <2>1 DEF GenesisCore, WaitingsOK, WaitingOK
<1>5. UNCHANGED <<runtimeVars, entries>> /\ Proceed(c, << >>, t.ref, t.data)
  BY <1>1, <1>3, <1>4, LaterSteps DEF StoreIntent, Continue
<1>6. PICK u : call' = [call EXCEPT ![c] = u] /\ IsCall(u) /\ u.todo = << >>
  BY <1>2, <1>5, GoesOn
<1>7. Core'
  <2>1. CallOK(u)
    BY <1>6 DEF CallOK
  <2> QED BY <1>2, <1>5, <1>6, <2>1, RequestOnly
<1>8. UNCHANGED runtimeVars /\ UNCHANGED entries
  BY <1>5
<1>9. Grows /\ EntriesGrow
  BY <1>2, <1>8, RuntimeStays, IndexStays
<1>10. PICK found \in SUBSET registry_search(FALSE, FALSE) :
          intents' = Append(intents, MkIntent(t.data, found))
  BY <1>1 DEF StoreIntent
<1>11. PICK x : x = MkIntent(t.data, found) /\ intents' = Append(intents, x)
  BY <1>10
<1>12. /\ IsIntent(x) /\ x.dedup = t.data.dedup /\ x.card = None /\ x.proposal = None
       /\ x.status \in {"received", "design_required"}
       /\ x.candidates \subseteq registry_search(FALSE, FALSE)
  BY <1>10, <1>11 DEF MkIntent, IsIntent
<1>13. IntentOK(x)
  <2>1. x.candidates \subseteq DOMAIN entries
    BY <1>12 DEF registry_search
  <2> QED BY <1>4, <1>12, <2>1 DEF IntentOK, RequestDedups
<1>14. IntentOK(x)'
  BY <1>2, <1>9, <1>13, IntentStays
<1>15. /\ IsSequence(intents') /\ DOMAIN intents \subseteq DOMAIN intents'
       /\ \A i \in DOMAIN intents : intents'[i] = intents[i]
       /\ \A i \in DOMAIN intents' : i \in DOMAIN intents \/ intents'[i] = x
  BY <1>11, SequenceAppend DEF GenesisCore, IntentsOK
<1>16. \A d \in Client : call'[d] = call[d] \/ \E y : y = call'[d] /\ WaitingOK(y)'
  <2>1. WaitingOK(u)'
    BY <1>6, NothingWaits
  <2> QED BY <1>2, <1>6, <2>1 DEF Core, CallsOK
<1>17. \A i \in DOMAIN intents : SameIntent(intents'[i], intents[i])
  BY <1>15 DEF SameIntent
<1> QED BY <1>7, <1>9, <1>14, <1>15, <1>16, <1>17, IntentsStep

\* The copy of an intent is written back.
LEMMA WriteBack ==
    ASSUME GenesisCore, Core', Grows, EntriesGrow, NEW c \in Client, NEW t, t = call[c],
           t.todo = Launching \/ t.todo = Proposing,
           NEW y, IntentOK(y)', SameIntent(y, t.data.copy),
           intents' = [intents EXCEPT ![t.data.intent] = y],
           NEW u, call' = [call EXCEPT ![c] = u], u.todo = << >>
    PROVE  GenesisCore'
<1>1. /\ t.data.intent \in DOMAIN intents
      /\ SameIntent(t.data.copy, intents[t.data.intent])
  BY DEF GenesisCore, WaitingsOK, WaitingOK
<1>2. intents' = [i \in DOMAIN intents |-> IF i = t.data.intent THEN y ELSE intents[i]]
  <2>1. intents = [i \in DOMAIN intents |-> intents[i]]
    BY DEF GenesisCore, IntentsOK, IsSequence
  <2> QED BY <2>1
<1>3. IsSequence(intents') /\ DOMAIN intents' = DOMAIN intents
  BY <1>2, SequenceMap DEF GenesisCore, IntentsOK
<1>4. \A i \in DOMAIN intents : SameIntent(intents'[i], intents[i])
  BY <1>1, <1>2 DEF SameIntent
<1>5. \A i \in DOMAIN intents' : \/ i \in DOMAIN intents /\ intents'[i] = intents[i]
                                 \/ \E x : x = intents'[i] /\ IntentOK(x)'
  BY <1>2, <1>3
<1>6. \A d \in Client : call'[d] = call[d] \/ \E z : z = call'[d] /\ WaitingOK(z)'
  <2>1. WaitingOK(u)'
    BY NothingWaits
  <2> QED BY <2>1 DEF GenesisCore, Core, CallsOK
<1> QED BY <1>3, <1>4, <1>5, <1>6, IntentsStep

\* The keys of launches and proposals are keys, and start with "genesis".
LEMMA GenesisKeys ==
    ASSUME NEW d, NEW e
    PROVE  /\ LaunchKey(0, d, e) # NoKey /\ LaunchKey(0, d, e)[1] = "genesis"
           /\ LaunchKey(0, d, e)[2] = "launch"
           /\ LaunchKey(0, d, e)[3] = d /\ LaunchKey(0, d, e)[4] = e
           /\ ProposeKey(d, e) # NoKey /\ ProposeKey(d, e)[1] = "genesis"
           /\ ProposeKey(d, e)[2] = "propose"
<1>1. LaunchKey(0, d, e) # NoKey
  BY DEF LaunchKey, NoKey
<1>2. ProposeKey(d, e) # NoKey
  BY DEF ProposeKey, NoKey
<1>3. /\ LaunchKey(0, d, e)[1] = "genesis" /\ LaunchKey(0, d, e)[2] = "launch"
      /\ LaunchKey(0, d, e)[3] = d /\ LaunchKey(0, d, e)[4] = e
  BY DEF LaunchKey
<1>4. ProposeKey(d, e)[1] = "genesis" /\ ProposeKey(d, e)[2] = "propose"
  BY DEF ProposeKey
<1> QED BY <1>1, <1>2, <1>3, <1>4

\* create_card under a key: afterwards the key stands for the card.
LEMMA CreateKeyed ==
    ASSUME Core, NEW id, NEW payload, NEW k, k # NoKey, NEW card,
           create_card(id, payload, FALSE, k, card)
    PROVE  Grows /\ KeyOf(k, card)'
<1>1. RuntimeOK
  BY DEF Core
<1>2. Grows
  BY <1>1, CreateCall
<1>3. \/ Stored(k, "card") /\ card = keys[k].card /\ UNCHANGED runtimeVars
      \/ /\ card \notin DOMAIN cards /\ DOMAIN cards' = DOMAIN cards \union {card}
         /\ cards'[card].panel \in ActivePanels(id)
         /\ cards'[card].payload = payload /\ cards'[card].shadow = FALSE
         /\ history'[card] = <<MkEvent("card_created", None, None, None, None, k)>>
         /\ \A i \in DOMAIN cards : cards'[i] = cards[i] /\ history'[i] = history[i]
         /\ Keyed(k, "card", card)
  BY <1>1, CreateCall
<1>4. CASE Stored(k, "card") /\ card = keys[k].card /\ UNCHANGED runtimeVars
  BY <1>2, <1>4 DEF KeyOf, Stored, runtimeVars
<1>5. CASE Keyed(k, "card", card)
  BY <1>2, <1>5 DEF KeyOf, Keyed
<1> QED BY <1>3, <1>4, <1>5

\* launch creates the card and writes the intent back.
LEMMA LaunchStep ==
    ASSUME GenesisCore, NEW c \in Client, Launch(c)
    PROVE  GenesisCore'
<1>1. PICK t : t = call[c]
  OBVIOUS
<1>2. Core
  BY DEF GenesisCore
<1>3. /\ CallOK(t) /\ IsCall(t) /\ t.todo # << >> /\ Head(t.todo) = "launch"
      /\ Rest(c) = Tail(t.todo)
  BY <1>1, <1>2, AtStep DEF Launch
<1>4. t.todo = Launching /\ t.data.entry \in DOMAIN entries
  BY <1>3, FirstSteps DEF CallOK
<1>5. t.data.intent \in DOMAIN intents /\ IntentOK(t.data.copy)
  BY <1>1, <1>4 DEF GenesisCore, WaitingsOK, WaitingOK
<1>6. PICK x : x = t.data.copy
  OBVIOUS
<1>7. PICK k : k = LaunchKey(0, x.dedup, t.data.entry) /\ k # NoKey
  <2>1. LaunchKey(0, x.dedup, t.data.entry) # NoKey
    BY GenesisKeys
  <2> QED BY <2>1
<1>8. PICK card \in 1..MaxCards :
            /\ create_card(Def(entries[t.data.entry].panel).id, x.dedup, FALSE, k, card)
            /\ intents' = [intents EXCEPT ![t.data.intent] =
                  [x EXCEPT !.status = "launched", !.entry = t.data.entry, !.card = card]]
  <2>1. k = LaunchKey(t.data.intent, x.dedup, t.data.entry)
    BY <1>7 DEF LaunchKey
  <2> QED BY <1>1, <1>6, <2>1 DEF Launch
<1>9. UNCHANGED entries /\ Proceed(c, << >>, t.ref, t.data)
  BY <1>1, <1>3, <1>4, LaterSteps DEF Launch, Continue
<1>10. PICK u : call' = [call EXCEPT ![c] = u] /\ IsCall(u) /\ u.todo = << >>
  BY <1>2, <1>9, GoesOn
<1>11. CallOK(u)'
  BY <1>10 DEF CallOK
<1>12. Core'
  BY <1>2, <1>8, <1>9, <1>10, <1>11, CreatedStep
<1>13. Grows /\ KeyOf(k, card)'
  BY <1>2, <1>7, <1>8, CreateKeyed
<1>14. EntriesGrow
  BY <1>2, <1>9, <1>13, IndexStays
<1>15. PICK y : y = [x EXCEPT !.status = "launched", !.entry = t.data.entry, !.card = card]
  OBVIOUS
<1>16. IntentOK(x)' /\ IsIntent(x)
  BY <1>2, <1>5, <1>6, <1>13, <1>14, IntentStays DEF IntentOK
<1>17. /\ IsIntent(y) /\ y.dedup = x.dedup /\ y.live = x.live /\ y.candidates = x.candidates
       /\ y.proposal = x.proposal /\ y.status = "launched" /\ y.entry = t.data.entry
       /\ y.card = card
  BY <1>15, <1>16 DEF IsIntent
<1>18. IntentOK(y)'
  <2>1. y.entry \in DOMAIN entries' /\ KeyOf(LaunchKey(0, y.dedup, y.entry), y.card)'
    BY <1>4, <1>7, <1>9, <1>13, <1>17
  <2> QED BY <1>16, <1>17, <2>1 DEF IntentOK
<1>19. SameIntent(y, t.data.copy)
  BY <1>6, <1>17 DEF SameIntent
<1> QED BY <1>1, <1>4, <1>8, <1>10, <1>12, <1>13, <1>14, <1>15, <1>18, <1>19, WriteBack

\* propose creates the proposal card and writes the intent back.
LEMMA ProposeStep ==
    ASSUME GenesisCore, NEW c \in Client, Propose(c)
    PROVE  GenesisCore'
<1>1. PICK t : t = call[c]
  OBVIOUS
<1>2. Core
  BY DEF GenesisCore
<1>3. /\ CallOK(t) /\ IsCall(t) /\ t.todo # << >> /\ Head(t.todo) = "propose"
      /\ Rest(c) = Tail(t.todo)
  BY <1>1, <1>2, AtStep DEF Propose
<1>4. t.todo = Proposing
  BY <1>3, FirstSteps DEF CallOK
<1>5. t.data.intent \in DOMAIN intents /\ IntentOK(t.data.copy)
  BY <1>1, <1>4 DEF GenesisCore, WaitingsOK, WaitingOK
<1>6. PICK x : x = t.data.copy
  OBVIOUS
<1>7. PICK k : k = ProposeKey(t.data.intent, t.data.panel) /\ k # NoKey
  <2>1. ProposeKey(t.data.intent, t.data.panel) # NoKey
    BY GenesisKeys
  <2> QED BY <2>1
<1>8. PICK card \in 1..MaxCards :
            /\ create_card(Def(Workflow).id, t.data.panel, FALSE, k, card)
            /\ intents' = [intents EXCEPT ![t.data.intent] =
                  [x EXCEPT !.status = "proposed", !.proposal = card]]
  BY <1>1, <1>6, <1>7 DEF Propose, ProposeKey
<1>9. UNCHANGED entries /\ Proceed(c, << >>, t.ref, t.data)
  BY <1>1, <1>3, <1>4, LaterSteps DEF Propose, Continue
<1>10. PICK u : call' = [call EXCEPT ![c] = u] /\ IsCall(u) /\ u.todo = << >>
  BY <1>2, <1>9, GoesOn
<1>11. CallOK(u)'
  BY <1>10 DEF CallOK
<1>12. Core'
  BY <1>2, <1>8, <1>9, <1>10, <1>11, CreatedStep
<1>13. Grows /\ KeyOf(k, card)'
  BY <1>2, <1>7, <1>8, CreateKeyed
<1>14. EntriesGrow
  BY <1>2, <1>9, <1>13, IndexStays
<1>15. PICK y : y = [x EXCEPT !.status = "proposed", !.proposal = card]
  OBVIOUS
<1>16. IntentOK(x)' /\ IsIntent(x)
  BY <1>2, <1>5, <1>6, <1>13, <1>14, IntentStays DEF IntentOK
<1>17. /\ IsIntent(y) /\ y.dedup = x.dedup /\ y.live = x.live /\ y.candidates = x.candidates
       /\ y.proposal = card /\ y.status = "proposed" /\ y.entry = x.entry /\ y.card = x.card
  BY <1>15, <1>16 DEF IsIntent
<1>18. IntentOK(y)'
  <2>1. \E i : \E p : KeyOf(ProposeKey(i, p), y.proposal)'
    BY <1>7, <1>13, <1>17
  <2> QED BY <1>16, <1>17, <2>1 DEF IntentOK
<1>19. SameIntent(y, t.data.copy)
  BY <1>6, <1>17 DEF SameIntent
<1> QED BY <1>1, <1>4, <1>8, <1>10, <1>12, <1>13, <1>14, <1>15, <1>18, <1>19, WriteBack

\* A restart: what the process knew is gone, what is durable is not.
LEMMA RestartStep ==
    ASSUME GenesisCore, Restart
    PROVE  GenesisCore'
<1>1. /\ Core /\ UNCHANGED runtimeVars /\ UNCHANGED entries
      /\ call' = [c \in Client |-> Idle]
      /\ intents' = [i \in DOMAIN intents |-> [intents[i] EXCEPT !.live = FALSE]]
  BY DEF GenesisCore, Restart
<1>2. PICK u : u = Idle
  OBVIOUS
<1>3. IsCall(u) /\ u.todo = << >> /\ call' = [c \in Client |-> u]
  BY <1>1, <1>2 DEF IsCall, Idle, MkCall
<1>4. /\ RuntimeOK' /\ Grows
      /\ \A card \in DOMAIN cards' : \A e \in Events(card)' :
            card \in DOMAIN cards /\ e \in Events(card)
  BY <1>1, RuntimeStays
<1>5. EntriesOK' /\ EntriesGrow
  BY <1>1, <1>4, IndexStays
<1>6. SinkEvidenceNamesEntry'
  BY <1>1, <1>4, <1>5, EvidenceStep
<1>7. CallsOK'
  <2>1. CallOK(u)'
    BY <1>3 DEF CallOK
  <2> QED BY <1>3, <2>1 DEF CallsOK
<1>8. WaitingsOK'
  <2>1. WaitingOK(u)'
    BY <1>3, NothingWaits
  <2> QED BY <1>3, <2>1 DEF WaitingsOK
<1>9. IsSequence(intents') /\ DOMAIN intents' = DOMAIN intents
  BY <1>1, SequenceMap DEF GenesisCore, IntentsOK
<1>10. ASSUME NEW i \in DOMAIN intents' PROVE IntentOK(intents[i])'
  <2>1. PICK x : x = intents[i]
    OBVIOUS
  <2>2. PICK y : y = [x EXCEPT !.live = FALSE]
    OBVIOUS
  <2>3. IntentOK(x)' /\ IsIntent(x)
    BY <1>1, <1>4, <1>5, <1>9, <2>1, IntentStays DEF GenesisCore, IntentsOK, IntentOK
  <2>4. /\ IsIntent(y) /\ y.dedup = x.dedup /\ y.candidates = x.candidates
        /\ y.proposal = x.proposal /\ y.status = x.status /\ y.entry = x.entry /\ y.card = x.card
    BY <2>2, <2>3 DEF IsIntent
  <2>5. IntentOK(y)'
    BY <2>3, <2>4 DEF IntentOK
  <2>6. intents'[i] = y
    BY <1>1, <1>9, <2>1, <2>2
  <2> QED BY <2>5, <2>6
<1> QED BY <1>4, <1>5, <1>6, <1>7, <1>8, <1>9, <1>10 DEF GenesisCore, Core, IntentsOK

\* An empty system with no intent satisfies the invariant of Genesis.
LEMMA GenesisCoreInit == GenesisInit => GenesisCore
<1> SUFFICES ASSUME GenesisInit PROVE GenesisCore
  OBVIOUS
<1>1. Core
  BY CoreInit DEF GenesisInit
<1>2. IntentsOK
  BY DEF GenesisInit, IntentsOK, IsSequence
<1>3. WaitingsOK
  <2>1. PICK u : u = Idle
    OBVIOUS
  <2>2. u.todo = << >> /\ \A c \in Client : call[c] = u
    BY <2>1 DEF Idle, MkCall, GenesisInit, Init
  <2>3. WaitingOK(u)
    BY <2>2, Unfinished DEF WaitingOK
  <2> QED BY <2>2, <2>3 DEF WaitingsOK
<1> QED BY <1>1, <1>2, <1>3 DEF GenesisCore

\* Every step of Genesis and of publication keeps it.
LEMMA GenesisCoreNext ==
    ASSUME GenesisCore, GenesisNext
    PROVE  GenesisCore'
BY WorkflowStep, BeginSteps, StoreIntentStep, LaunchStep, ProposeStep, RestartStep DEF GenesisNext

\* So does a step of anything else.
LEMMA GenesisCoreStutters ==
    ASSUME GenesisCore, UNCHANGED genesisVars
    PROVE  GenesisCore'
<1>1. Core /\ UNCHANGED vars /\ UNCHANGED intents
  BY DEF GenesisCore, genesisVars
<1>2. Core'
  BY <1>1, CoreStutters
<1>3. UNCHANGED runtimeVars /\ UNCHANGED entries /\ UNCHANGED call
  BY <1>1 DEF vars
<1>4. Grows /\ EntriesGrow
  BY <1>1, <1>3, RuntimeStays, IndexStays
<1>5. IsSequence(intents') /\ \A i \in DOMAIN intents : SameIntent(intents'[i], intents[i])
  BY <1>1 DEF GenesisCore, IntentsOK, SameIntent
<1>6. \A i \in DOMAIN intents' : i \in DOMAIN intents /\ intents'[i] = intents[i]
  BY <1>1
<1> QED BY <1>1, <1>2, <1>3, <1>4, <1>5, <1>6, IntentsStep

\* GenesisSpec => []GenesisCore.
THEOREM GenesisInvariant == GenesisSpec => []GenesisCore
<1>1. GenesisInit => GenesisCore
  BY GenesisCoreInit
<1>2. GenesisCore /\ [GenesisNext]_genesisVars => GenesisCore'
  BY GenesisCoreNext, GenesisCoreStutters
<1> QED BY <1>1, <1>2, PTL DEF GenesisSpec

\* An intent that is sent and launched again, also by another client or to a
\* process that has forgotten the first, gets the card of the first launch.
THEOREM OneLaunch == GenesisSpec => []OneLaunchPerKey
<1>1. GenesisCore => OneLaunchPerKey
  <2> SUFFICES ASSUME GenesisCore, NEW i \in DOMAIN intents, NEW j \in DOMAIN intents,
                      intents[i].dedup = intents[j].dedup,
                      intents[i].card # None, intents[j].card # None,
                      intents[i].entry = intents[j].entry
               PROVE  intents[i].card = intents[j].card
    BY DEF OneLaunchPerKey
  <2>1. PICK k : k = LaunchKey(0, intents[i].dedup, intents[i].entry)
    OBVIOUS
  <2>2. KeyOf(k, intents[i].card) /\ KeyOf(k, intents[j].card)
    BY <2>1 DEF GenesisCore, IntentsOK, IntentOK
  <2> QED BY <2>2 DEF KeyOf
<1> QED BY <1>1, GenesisInvariant, PTL

-----------------------------------------------------------------------------
(* What the keys of Genesis stand for, when nobody else uses them.          *)

\* Clients send no key that starts like those of the genesis service, and an
\* intent, which is the payload of the card it launches, is no panel.
KeysApart == \A k \in Key : k # NoKey => k[1] # "genesis"

IntentsAreNoPanels == \A r \in IntentRequest : r.dedup \notin PanelName

\* The card is a launch of the entry for the deduplication key.
LaunchOf(d, e, card) ==
    /\ e \in DOMAIN entries
    /\ Def(cards[card].panel).id = Def(entries[e].panel).id
    /\ cards[card].payload = d

KeysMean ==
    /\ \A d, e, card : KeyOf(LaunchKey(0, d, e), card) => LaunchOf(d, e, card)
    /\ \A i, p, card : KeyOf(ProposeKey(i, p), card) => cards[card].panel = Workflow

KnownPanels == registered \subseteq Candidate \union Payload \union {Workflow}

KnownPayloads ==
    \A i \in DOMAIN cards : cards[i].payload \in Candidate \union Payload \union RequestDedups

\* What any step of Genesis may do to the durable tables.
GenesisEffects ==
    /\ Grows /\ EntriesGrow
    /\ registered' \subseteq registered \union Candidate \union {Workflow}
                             \union { cards[i].payload : i \in DOMAIN cards }
    /\ \A i \in DOMAIN cards' :
          i \in DOMAIN cards \/ cards'[i].payload \in Candidate \union Payload \union RequestDedups
    /\ \A k, card : KeyOf(k, card)' =>
          \/ KeyOf(k, card)
          \/ k \in Key
          \/ \E d, e : k = LaunchKey(0, d, e) /\ LaunchOf(d, e, card)'
          \/ \E i, p : k = ProposeKey(i, p) /\ cards'[card].panel \in ActivePanels(Def(Workflow).id)

\* A card that Genesis creates, or finds under its key.
LEMMA CreateEffects ==
    ASSUME GenesisCore, NEW id, NEW payload, NEW k, k # NoKey, NEW card,
           create_card(id, payload, FALSE, k, card), UNCHANGED entries,
           payload \in Candidate \union Payload \union RequestDedups,
           \A p : p \in ActivePanels(id) /\ cards'[card].panel = p /\ cards'[card].payload = payload =>
              \/ \E d, e : k = LaunchKey(0, d, e) /\ LaunchOf(d, e, card)'
              \/ \E i, q : k = ProposeKey(i, q) /\ p \in ActivePanels(Def(Workflow).id)
    PROVE  GenesisEffects
<1>1. RuntimeOK /\ Core
  BY DEF GenesisCore, Core
<1>2. Grows /\ registered' = registered
  BY <1>1, CreateCall
<1>3. EntriesGrow
  BY <1>1, <1>2, IndexStays
<1>4. \/ Stored(k, "card") /\ card = keys[k].card /\ UNCHANGED runtimeVars
      \/ /\ card \notin DOMAIN cards /\ DOMAIN cards' = DOMAIN cards \union {card}
         /\ cards'[card].panel \in ActivePanels(id)
         /\ cards'[card].payload = payload /\ cards'[card].shadow = FALSE
         /\ history'[card] = <<MkEvent("card_created", None, None, None, None, k)>>
         /\ \A i \in DOMAIN cards : cards'[i] = cards[i] /\ history'[i] = history[i]
         /\ Keyed(k, "card", card)
  BY <1>1, CreateCall
<1>5. CASE UNCHANGED runtimeVars
  <2>1. UNCHANGED <<registered, cards, keys>>
    BY <1>5 DEF runtimeVars
  <2>2. \A j, x : KeyOf(j, x)' => KeyOf(j, x)
    BY <2>1 DEF KeyOf
  <2> QED BY <1>2, <1>3, <2>1, <2>2 DEF GenesisEffects
<1>6. CASE /\ DOMAIN cards' = DOMAIN cards \union {card}
           /\ cards'[card].panel \in ActivePanels(id)
           /\ cards'[card].payload = payload
           /\ Keyed(k, "card", card)
  <2>1. \A j, x : KeyOf(j, x)' => KeyOf(j, x) \/ (j = k /\ x = card)
    BY <1>6 DEF KeyOf, Keyed
  <2>2. \/ \E d, e : k = LaunchKey(0, d, e) /\ LaunchOf(d, e, card)'
        \/ \E i, q : k = ProposeKey(i, q) /\ cards'[card].panel \in ActivePanels(Def(Workflow).id)
    BY <1>6
  <2>3. \A i \in DOMAIN cards' :
          i \in DOMAIN cards \/ cards'[i].payload \in Candidate \union Payload \union RequestDedups
    BY <1>6
  <2> QED BY <1>2, <1>3, <2>1, <2>2, <2>3 DEF GenesisEffects
<1> QED BY <1>4, <1>5, <1>6

\* Every step has only the effects a step of Genesis may have; a key it stores
\* is a client's or one of an intent's.
LEMMA GenesisEffectsNext ==
    ASSUME GenesisCore, GenesisNext
    PROVE  GenesisEffects
<1>1. Core
  BY DEF GenesisCore
<1>2. ASSUME Next PROVE GenesisEffects
  <2>1. Effects /\ EntriesGrow
    BY <1>1, <1>2, EffectsNext, EntriesGrowNext
  <2>2. \A k, card : KeyOf(k, card)' => KeyOf(k, card) \/ k \in Key
    BY <2>1 DEF Effects, Grows, KeyOf
  <2> QED BY <2>1, <2>2 DEF Effects, GenesisEffects
<1>3. ASSUME UNCHANGED <<runtimeVars, entries>> PROVE GenesisEffects
  <2>1. UNCHANGED runtimeVars /\ UNCHANGED entries
    BY <1>3
  <2>2. Grows /\ EntriesGrow
    BY <1>1, <2>1, RuntimeStays, IndexStays
  <2>3. UNCHANGED <<registered, cards, keys>>
    BY <2>1 DEF runtimeVars
  <2>4. \A j, x : KeyOf(j, x)' => KeyOf(j, x)
    BY <2>3 DEF KeyOf
  <2> QED BY <2>2, <2>3, <2>4 DEF GenesisEffects
<1>4. ASSUME NEW c \in Client,
             \/ \E r \in IntentRequest : ReceiveIntent(c, r)
             \/ StoreIntent(c)
             \/ \E i \in DOMAIN intents :
                   \/ \E entry \in DOMAIN entries : StartLaunch(c, i, entry)
                   \/ \E p \in Candidate : StartPropose(c, i, p)
      PROVE  UNCHANGED <<runtimeVars, entries>>
  BY <1>4 DEF ReceiveIntent, StoreIntent, StartLaunch, StartPropose
<1>5. ASSUME Restart PROVE UNCHANGED <<runtimeVars, entries>>
  BY <1>5 DEF Restart
<1>6. ASSUME NEW c \in Client, Launch(c) PROVE GenesisEffects
  <2>1. PICK t : t = call[c]
    OBVIOUS
  <2>2. CallOK(t) /\ t.todo # << >> /\ Head(t.todo) = "launch"
    BY <1>1, <1>6, <2>1, AtStep DEF Launch
  <2>3. t.todo = Launching /\ t.data.entry \in DOMAIN entries
    BY <2>2, FirstSteps DEF CallOK
  <2>4. PICK d : d = t.data.copy.dedup
    OBVIOUS
  <2>5. d \in RequestDedups
    BY <2>1, <2>3, <2>4 DEF GenesisCore, WaitingsOK, WaitingOK, IntentOK
  <2>6. PICK e : e = t.data.entry
    OBVIOUS
  <2>7. PICK k : k = LaunchKey(0, d, e)
    OBVIOUS
  <2>8. k # NoKey
    BY <2>7, GenesisKeys
  <2>9. k = LaunchKey(t.data.intent, d, e)
    BY <2>7 DEF LaunchKey
  <2>10. UNCHANGED entries
    BY <1>6 DEF Launch
  <2>11. PICK id : id = Def(entries[e].panel).id
    OBVIOUS
  <2>12. PICK card : create_card(id, d, FALSE, k, card)
    BY <1>6, <2>1, <2>4, <2>6, <2>9, <2>11 DEF Launch
  <2>13. \A p : p \in ActivePanels(id) => Def(p).id = id
    BY DEF ActivePanels
  <2>14. \A p : p \in ActivePanels(id) /\ cards'[card].panel = p /\ cards'[card].payload = d =>
             k = LaunchKey(0, d, e) /\ LaunchOf(d, e, card)'
    BY <2>3, <2>6, <2>7, <2>10, <2>11, <2>13 DEF LaunchOf
  <2> QED BY <2>5, <2>8, <2>10, <2>12, <2>14, CreateEffects
<1>7. ASSUME NEW c \in Client, Propose(c) PROVE GenesisEffects
  <2>1. PICK t : t = call[c]
    OBVIOUS
  <2>2. CallOK(t) /\ t.todo # << >> /\ Head(t.todo) = "propose"
    BY <1>1, <1>7, <2>1, AtStep DEF Propose
  <2>3. t.todo = Proposing
    BY <2>2, FirstSteps DEF CallOK
  <2>4. t.data.panel \in Candidate
    BY <2>1, <2>3 DEF GenesisCore, WaitingsOK, WaitingOK
  <2>5. PICK k : k = ProposeKey(t.data.intent, t.data.panel)
    OBVIOUS
  <2>6. k # NoKey
    BY <2>5, GenesisKeys
  <2>7. UNCHANGED entries
    BY <1>7 DEF Propose
  <2>8. PICK card : create_card(Def(Workflow).id, t.data.panel, FALSE, k, card)
    BY <1>7, <2>1, <2>5 DEF Propose, ProposeKey
  <2> QED BY <2>4, <2>5, <2>6, <2>7, <2>8, CreateEffects
<1> QED BY <1>2, <1>3, <1>4, <1>5, <1>6, <1>7 DEF GenesisNext

\* Keys, panels and payloads stay what they are meant to be.
LEMMA KnownNext ==
    ASSUME GenesisCore, GenesisCore', KeysApart, IntentsAreNoPanels,
           KeysMean, KnownPanels, KnownPayloads, GenesisEffects
    PROVE  KeysMean' /\ KnownPanels' /\ KnownPayloads'
<1>1. KnownPanels'
  <2> SUFFICES ASSUME NEW p \in registered'
               PROVE  p \in Candidate \union Payload \union {Workflow}
    BY DEF KnownPanels
  <2>1. p \in PanelName
    BY DEF GenesisCore, Core, RuntimeOK, ValidPanels
  <2>2. p \notin RequestDedups
    BY <2>1 DEF IntentsAreNoPanels, RequestDedups
  <2> QED BY <2>2 DEF GenesisEffects, KnownPanels, KnownPayloads
<1>2. KnownPayloads'
  BY DEF GenesisEffects, Grows, KnownPayloads
<1>3. ASSUME NEW k, NEW card, KeyOf(k, card) PROVE card \in DOMAIN cards
  BY <1>3 DEF KeyOf, GenesisCore, Core, RuntimeOK
<1>4. ASSUME NEW d, NEW e, NEW card, KeyOf(LaunchKey(0, d, e), card)'
      PROVE  LaunchOf(d, e, card)'
  <2>1. PICK k : k = LaunchKey(0, d, e)
    OBVIOUS
  <2>2. k # NoKey /\ k[1] = "genesis" /\ k[2] = "launch" /\ k[3] = d /\ k[4] = e
    BY <2>1, GenesisKeys
  <2>3. k \notin Key
    BY <2>2 DEF KeysApart
  <2>4. \A x, y : k = LaunchKey(0, x, y) => x = d /\ y = e
    BY <2>2, GenesisKeys
  <2>5. \A i, p : k # ProposeKey(i, p)
    BY <2>2, GenesisKeys
  <2>6. KeyOf(k, card) \/ LaunchOf(d, e, card)'
    BY <1>4, <2>1, <2>3, <2>4, <2>5 DEF GenesisEffects
  <2>7. ASSUME KeyOf(k, card) PROVE LaunchOf(d, e, card)'
    <3>1. card \in DOMAIN cards
      BY <1>3, <2>7
    <3>2. LaunchOf(d, e, card)
      BY <2>1, <2>7 DEF KeysMean
    <3> QED BY <3>1, <3>2 DEF LaunchOf, GenesisEffects, Grows, EntriesGrow, SameEntry
  <2> QED BY <2>6, <2>7
<1>5. ASSUME NEW i, NEW p, NEW card, KeyOf(ProposeKey(i, p), card)'
      PROVE  cards'[card].panel = Workflow
  <2>1. PICK k : k = ProposeKey(i, p)
    OBVIOUS
  <2>2. k # NoKey /\ k[1] = "genesis" /\ k[2] = "propose"
    BY <2>1, GenesisKeys
  <2>3. k \notin Key
    BY <2>2 DEF KeysApart
  <2>4. \A x, y : k # LaunchKey(0, x, y)
    BY <2>2, GenesisKeys
  <2>5. KeyOf(k, card) \/ cards'[card].panel \in ActivePanels(Def(Workflow).id)
    BY <1>5, <2>1, <2>3, <2>4 DEF GenesisEffects
  <2>6. ASSUME KeyOf(k, card) PROVE cards'[card].panel = Workflow
    <3>1. card \in DOMAIN cards
      BY <1>3, <2>6
    <3>2. cards[card].panel = Workflow
      BY <2>1, <2>6 DEF KeysMean
    <3> QED BY <3>1, <3>2 DEF GenesisEffects, Grows
  <2> QED BY <2>5, <2>6, WorkflowIsAlone DEF KnownPanels
<1>6. KeysMean'
  BY <1>4, <1>5 DEF KeysMean
<1> QED BY <1>1, <1>2, <1>6

Known == KeysMean /\ KnownPanels /\ KnownPayloads

\* Under these two conditions, what a key of Genesis stands for is what was
\* launched or proposed under it.
THEOREM GenesisKeysMean ==
    ASSUME KeysApart, IntentsAreNoPanels
    PROVE  GenesisSpec => []Known
<1>1. GenesisInit => Known
  <2> SUFFICES ASSUME GenesisInit PROVE Known
    OBVIOUS
  <2>1. registered = {} /\ DOMAIN cards = {} /\ DOMAIN keys = {}
    BY DEF GenesisInit, Init
  <2> QED BY <2>1 DEF Known, KeysMean, KnownPanels, KnownPayloads, KeyOf
<1>2. GenesisCore /\ Known /\ GenesisCore' /\ [GenesisNext]_genesisVars => Known'
  <2> SUFFICES ASSUME GenesisCore, Known, GenesisCore', [GenesisNext]_genesisVars PROVE Known'
    OBVIOUS
  <2>1. CASE GenesisNext
    <3>1. GenesisEffects
      BY <2>1, GenesisEffectsNext
    <3> QED BY <3>1, KnownNext DEF Known
  <2>2. CASE UNCHANGED genesisVars
    <3>1. UNCHANGED <<registered, cards, keys, entries>>
      BY <2>2 DEF genesisVars, vars, runtimeVars
    <3>2. KeysMean'
      BY <3>1 DEF Known, KeysMean, KeyOf, LaunchOf
    <3> QED BY <3>1, <3>2 DEF Known, KnownPanels, KnownPayloads
  <2> QED BY <2>1, <2>2
<1> QED BY <1>1, <1>2, GenesisInvariant, PTL DEF GenesisSpec

\* What was launched is a card of the workflow that the entry stands for,
\* with the intent as its payload.
THEOREM LaunchesAreInWorkflow ==
    ASSUME KeysApart, IntentsAreNoPanels
    PROVE  GenesisSpec => []LaunchedInWorkflow
<1>1. GenesisCore /\ Known => LaunchedInWorkflow
  <2> SUFFICES ASSUME GenesisCore, Known, NEW i \in DOMAIN intents, intents[i].card # None
               PROVE  LaunchOf(intents[i].dedup, intents[i].entry, intents[i].card)
    BY DEF LaunchedInWorkflow, LaunchOf
  <2>1. KeyOf(LaunchKey(0, intents[i].dedup, intents[i].entry), intents[i].card)
    BY DEF GenesisCore, IntentsOK, IntentOK
  <2> QED BY <2>1 DEF Known, KeysMean
<1> QED BY <1>1, GenesisInvariant, GenesisKeysMean, PTL

-----------------------------------------------------------------------------
(* One live intent of a key, when requests come one after the other.        *)

LiveOnce ==
    \A i, j \in DOMAIN intents :
        intents[i].live /\ intents[j].live /\ intents[i].dedup = intents[j].dedup => i = j

\* The index has still no intent for the one that will be stored.
StillUnknown == \A c \in Client : At(c, "intent") => Indexed(call[c].data.dedup) = {}

\* Steps that leave the key and the life of every intent alone.
LEMMA SameIntents ==
    ASSUME GenesisCore, OneClient, LiveOnce, StillUnknown,
           DOMAIN intents' = DOMAIN intents,
           \A i \in DOMAIN intents : SameIntent(intents'[i], intents[i]),
           \A c \in Client : At(c, "intent")' =>
              call'[c] = call[c] \/ Indexed(call'[c].data.dedup) = {}
    PROVE  LiveOnce' /\ StillUnknown'
<1>1. LiveOnce'
  BY DEF LiveOnce, SameIntent
<1>2. \A d : Indexed(d)' = Indexed(d)
  BY DEF Indexed, SameIntent
<1>3. ASSUME NEW c \in Client, At(c, "intent")' PROVE Indexed(call'[c].data.dedup) = {}
  <2>1. call'[c] = call[c] => At(c, "intent")
    BY <1>3 DEF At, IsIdle
  <2> QED BY <1>3, <2>1 DEF StillUnknown
<1>4. StillUnknown'
  <2> SUFFICES ASSUME NEW c \in Client, At(c, "intent")' PROVE Indexed(call[c].data.dedup)' = {}
    BY DEF StillUnknown
  <2>1. PICK d : d = call'[c].data.dedup
    OBVIOUS
  <2>2. Indexed(d)' = {}
    BY <1>2, <1>3, <2>1
  <2> QED BY <2>1, <2>2
<1> QED BY <1>1, <1>4

\* With one request at a time, no step makes a second live intent of a
\* deduplication key.
LEMMA LiveNext ==
    ASSUME GenesisCore, OneClient, LiveOnce, StillUnknown, GenesisNext
    PROVE  LiveOnce' /\ StillUnknown'
<1>1. Core
  BY DEF GenesisCore
<1>2. ASSUME NEW c \in Client, NEW u, call' = [call EXCEPT ![c] = u], NEW d \in Client
      PROVE  call'[d] = u
  BY <1>1, <1>2 DEF Core, CallsOK, OneClient
<1>3. CASE Next /\ UNCHANGED intents
  <2>1. ASSUME NEW c \in Client, At(c, "intent")' PROVE call'[c] = call[c]
    <3>1. ~("intent" \in Step) /\ call'[c].todo # << >> /\ Head(call'[c].todo) = "intent"
      BY <2>1 DEF Step, At, IsIdle
    <3> QED BY <1>1, <1>3, <3>1, CallsNext DEF Aside, ToPublish
  <2>2. \A i \in DOMAIN intents : SameIntent(intents'[i], intents[i])
    BY <1>3 DEF SameIntent
  <2> QED BY <1>3, <2>1, <2>2, SameIntents
<1>4. ASSUME NEW c \in Client, NEW r \in IntentRequest, ReceiveIntent(c, r)
      PROVE  LiveOnce' /\ StillUnknown'
  <2>1. PICK u : u = MkCall(<<"intent">>, None, 0, NoKey, r)
    OBVIOUS
  <2>2. u.data = r
    BY <2>1, BeginCall
  <2>3. call' = [call EXCEPT ![c] = u] /\ Indexed(r.dedup) = {} /\ UNCHANGED intents
    BY <1>4, <2>1 DEF ReceiveIntent
  <2>4. \A d \in Client : Indexed(call'[d].data.dedup) = {}
    BY <1>2, <2>2, <2>3
  <2>5. \A i \in DOMAIN intents : SameIntent(intents'[i], intents[i])
    BY <2>3 DEF SameIntent
  <2> QED BY <2>3, <2>4, <2>5, SameIntents
<1>5. ASSUME NEW c \in Client, NEW u, call' = [call EXCEPT ![c] = u],
             u.todo = << >> \/ Head(u.todo) # "intent",
             DOMAIN intents' = DOMAIN intents,
             \A i \in DOMAIN intents : SameIntent(intents'[i], intents[i])
      PROVE  LiveOnce' /\ StillUnknown'
  <2>1. \A d \in Client : ~At(d, "intent")'
    BY <1>2, <1>5 DEF At, IsIdle
  <2> QED BY <1>5, <2>1, SameIntents
<1>6. ASSUME NEW c \in Client, NEW i \in DOMAIN intents,
             \/ \E entry \in DOMAIN entries : StartLaunch(c, i, entry)
             \/ \E p \in Candidate : StartPropose(c, i, p)
      PROVE  LiveOnce' /\ StillUnknown'
  <2>1. UNCHANGED intents
    BY <1>6 DEF StartLaunch, StartPropose
  <2>2. \A j \in DOMAIN intents : SameIntent(intents'[j], intents[j])
    BY <2>1 DEF SameIntent
  <2>3. \E x : \/ call' = [call EXCEPT ![c] = MkCall(Launching, None, 0, NoKey, x)]
               \/ call' = [call EXCEPT ![c] = MkCall(Proposing, None, 0, NoKey, x)]
    BY <1>6 DEF StartLaunch, StartPropose, Launching, Proposing
  <2>4. PICK x : \/ call' = [call EXCEPT ![c] = MkCall(Launching, None, 0, NoKey, x)]
                 \/ call' = [call EXCEPT ![c] = MkCall(Proposing, None, 0, NoKey, x)]
    BY <2>3
  <2>5. PICK u : /\ call' = [call EXCEPT ![c] = u]
                 /\ \/ u = MkCall(Launching, None, 0, NoKey, x)
                    \/ u = MkCall(Proposing, None, 0, NoKey, x)
    BY <2>4
  <2>6. u.todo = Launching \/ u.todo = Proposing
    BY <2>5, BeginCall
  <2>7. Head(u.todo) # "intent"
    BY <2>6, FirstSteps
  <2> QED BY <1>5, <2>1, <2>2, <2>5, <2>7
<1>7. ASSUME NEW c \in Client, Launch(c) \/ Propose(c)
      PROVE  LiveOnce' /\ StillUnknown'
  <2>1. PICK t : t = call[c]
    OBVIOUS
  <2>2. /\ CallOK(t) /\ t.todo # << >> /\ Head(t.todo) \in {"launch", "propose"}
        /\ Rest(c) = Tail(t.todo)
    BY <1>1, <1>7, <2>1, AtStep DEF Launch, Propose
  <2>3. t.todo = Launching \/ t.todo = Proposing
    BY <2>2, FirstSteps DEF CallOK
  <2>4. Proceed(c, << >>, t.ref, t.data)
    BY <1>7, <2>1, <2>2, <2>3, LaterSteps DEF Launch, Propose, Continue
  <2>5. PICK u : call' = [call EXCEPT ![c] = u] /\ u.todo = << >>
    BY <1>1, <2>4, GoesOn
  <2>6. PICK x : x = t.data.copy
    OBVIOUS
  <2>7. /\ t.data.intent \in DOMAIN intents /\ IsIntent(x)
        /\ SameIntent(x, intents[t.data.intent])
    BY <2>1, <2>3, <2>6 DEF GenesisCore, WaitingsOK, WaitingOK, IntentOK
  <2>8. \E card : \/ intents' = [intents EXCEPT ![t.data.intent] =
                        [x EXCEPT !.status = "launched", !.entry = t.data.entry, !.card = card]]
                  \/ intents' = [intents EXCEPT ![t.data.intent] =
                        [x EXCEPT !.status = "proposed", !.proposal = card]]
    BY <1>7, <2>1, <2>6 DEF Launch, Propose
  <2>9. PICK y : /\ intents' = [intents EXCEPT ![t.data.intent] = y]
                 /\ \E card : \/ y = [x EXCEPT !.status = "launched", !.entry = t.data.entry,
                                               !.card = card]
                              \/ y = [x EXCEPT !.status = "proposed", !.proposal = card]
    BY <2>8
  <2>10. y.dedup = x.dedup /\ y.live = x.live
    BY <2>7, <2>9 DEF IsIntent
  <2>11. intents = [i \in DOMAIN intents |-> intents[i]]
    BY DEF GenesisCore, IntentsOK, IsSequence
  <2>12. intents' = [i \in DOMAIN intents |-> IF i = t.data.intent THEN y ELSE intents[i]]
    BY <2>9, <2>11
  <2>13. /\ DOMAIN intents' = DOMAIN intents
         /\ \A i \in DOMAIN intents : SameIntent(intents'[i], intents[i])
    BY <2>7, <2>10, <2>12 DEF SameIntent
  <2> QED BY <1>5, <2>5, <2>13
<1>8. ASSUME NEW c \in Client, StoreIntent(c)
      PROVE  LiveOnce' /\ StillUnknown'
  <2>1. PICK t : t = call[c]
    OBVIOUS
  <2>2. CallOK(t) /\ t.todo # << >> /\ Head(t.todo) = "intent" /\ Rest(c) = Tail(t.todo)
    BY <1>1, <1>8, <2>1, AtStep DEF StoreIntent
  <2>3. t.todo = Intending
    BY <2>2, FirstSteps DEF CallOK
  <2>4. Proceed(c, << >>, t.ref, t.data)
    BY <1>8, <2>1, <2>2, <2>3, LaterSteps DEF StoreIntent, Continue
  <2>5. PICK u : call' = [call EXCEPT ![c] = u] /\ u.todo = << >>
    BY <1>1, <2>4, GoesOn
  <2>6. StillUnknown'
    BY <1>2, <2>5 DEF StillUnknown, At, IsIdle
  <2>7. PICK found : intents' = Append(intents, MkIntent(t.data, found))
    BY <1>8, <2>1 DEF StoreIntent
  <2>8. PICK x : x.dedup = t.data.dedup /\ intents' = Append(intents, x)
    BY <2>7 DEF MkIntent
  <2>9. \A i \in DOMAIN intents : ~(intents[i].live /\ intents[i].dedup = x.dedup)
    BY <1>8, <2>1, <2>8 DEF StillUnknown, StoreIntent, Indexed
  <2>10. /\ DOMAIN intents' = DOMAIN intents \union {Len(intents) + 1}
         /\ intents'[Len(intents) + 1] = x
         /\ \A i \in DOMAIN intents : intents'[i] = intents[i]
    BY <2>8, SequenceAppend DEF GenesisCore, IntentsOK
  <2>11. LiveOnce'
    BY <2>9, <2>10 DEF LiveOnce
  <2> QED BY <2>6, <2>11
<1>9. ASSUME Restart
      PROVE  LiveOnce' /\ StillUnknown'
  <2>1. PICK u : u = Idle
    OBVIOUS
  <2>2. u.todo = << >> /\ \A c \in Client : call'[c] = u
    BY <1>9, <2>1 DEF Restart, Idle, MkCall
  <2>3. StillUnknown'
    BY <2>2 DEF StillUnknown, At, IsIdle
  <2>4. DOMAIN intents' = DOMAIN intents
    BY <1>9 DEF Restart
  <2>5. ASSUME NEW i \in DOMAIN intents' PROVE intents'[i].live = FALSE
    <3>1. PICK x : x = intents[i]
      OBVIOUS
    <3>2. IsIntent(x)
      BY <2>4, <3>1 DEF GenesisCore, IntentsOK, IntentOK
    <3>3. intents'[i] = [x EXCEPT !.live = FALSE]
      BY <1>9, <2>4, <3>1 DEF Restart
    <3> QED BY <3>2, <3>3 DEF IsIntent
  <2>6. LiveOnce'
    BY <2>5 DEF LiveOnce
  <2> QED BY <2>3, <2>6
<1> QED BY <1>3, <1>4, <1>6, <1>7, <1>8, <1>9 DEF GenesisNext

\* GenesisTypeOK: intents name cards and entries that exist and proposals in
\* the workflow, and a client that waits for its answers has one live intent
\* of a key at a time.
THEOREM GenesisTypes ==
    ASSUME OneClient, KeysApart, IntentsAreNoPanels
    PROVE  GenesisSpec => []GenesisTypeOK
<1> DEFINE Inv == LiveOnce /\ StillUnknown
<1>1. GenesisInit => Inv
  <2> SUFFICES ASSUME GenesisInit PROVE Inv
    OBVIOUS
  <2>1. \A c \in Client : call[c].todo = << >>
    BY DEF GenesisInit, Init, Idle, MkCall
  <2>2. DOMAIN intents = {}
    BY DEF GenesisInit
  <2> QED BY <2>1, <2>2 DEF LiveOnce, StillUnknown, At, IsIdle
<1>2. GenesisCore /\ Inv /\ [GenesisNext]_genesisVars => Inv'
  <2>1. GenesisCore /\ Inv /\ GenesisNext => Inv'
    BY LiveNext
  <2>2. Inv /\ UNCHANGED genesisVars => Inv'
    <3> SUFFICES ASSUME Inv, UNCHANGED genesisVars PROVE Inv'
      OBVIOUS
    <3>1. UNCHANGED intents /\ UNCHANGED call
      BY DEF genesisVars, vars
    <3>2. LiveOnce'
      BY <3>1 DEF LiveOnce
    <3>3. StillUnknown'
      BY <3>1 DEF StillUnknown, At, IsIdle, Indexed
    <3> QED BY <3>2, <3>3
  <2> QED BY <2>1, <2>2
<1>3. GenesisCore /\ Known /\ Inv => GenesisTypeOK
  <2> SUFFICES ASSUME GenesisCore, Known, Inv PROVE GenesisTypeOK
    OBVIOUS
  <2>1. ASSUME NEW i \in DOMAIN intents
        PROVE  /\ intents[i].card # None => intents[i].card \in DOMAIN cards
               /\ intents[i].proposal # None => cards[intents[i].proposal].panel = Workflow
    <3>1. PICK x : x = intents[i]
      OBVIOUS
    <3>2. x.card # None => KeyOf(LaunchKey(0, x.dedup, x.entry), x.card)
      BY <3>1 DEF GenesisCore, IntentsOK, IntentOK
    <3>3. x.proposal # None => \E j : \E p : KeyOf(ProposeKey(j, p), x.proposal)
      BY <3>1 DEF GenesisCore, IntentsOK, IntentOK
    <3>4. \A k, card : KeyOf(k, card) => card \in DOMAIN cards
      BY DEF KeyOf, GenesisCore, Core, RuntimeOK
    <3>5. x.proposal # None => cards[x.proposal].panel = Workflow
      BY <3>3 DEF Known, KeysMean
    <3>6. x.card # None => x.card \in DOMAIN cards
      BY <3>2, <3>4
    <3> QED BY <3>1, <3>5, <3>6
  <2>2. \A i \in DOMAIN intents :
           /\ intents[i].status \in {"received", "design_required", "launched", "proposed"}
           /\ intents[i].candidates \subseteq DOMAIN entries
    BY DEF GenesisCore, IntentsOK, IntentOK
  <2> QED BY <2>1, <2>2 DEF GenesisTypeOK, LiveOnce
<1> HIDE DEF Inv
<1> QED BY <1>1, <1>2, <1>3, GenesisInvariant, GenesisKeysMean, PTL DEF GenesisSpec
=============================================================================
