----------------------------- MODULE CardCalls -----------------------------
(***************************************************************************)
(* The calls that the services above the Card runtime make into it: each    *)
(* one is a transaction of runtime/postgres.py and so one step, with its    *)
(* idempotency key.  Leases, artifacts and the runtime's own interleavings  *)
(* are the business of CardRuntime and PostgresRuntime; here a call has     *)
(* the effect and the answer its caller relies on.                          *)
(*                                                                         *)
(* An idempotency key is a sequence of segments, the text between its       *)
(* colons: <<k>> is a client's key and <<k, "source">> the key              *)
(* f"{k}:source" that the executor makes from it.  << >> is no key.         *)
(*                                                                         *)
(* The state names panels; Definition says what a name stands for.          *)
(***************************************************************************)
EXTENDS PatchPanel

CONSTANTS
    Definition,          \* the panels of a run: name -> panel
    MaxCards, MaxEvents  \* bounds: cards, and events of one card

VARIABLES
    registered,  \* patch_panels: the panels the runtime holds
    cards,       \* cards: sequence of [panel, bucket, payload, shadow]
    history,     \* card_events: the events of each card, in order
    keys         \* idempotency_records: key -> [type, card, event]

runtimeVars == <<registered, cards, history, keys>>

ASSUME CallBoundsAssumption == MaxCards \in Nat /\ MaxEvents \in Nat

NoKey == << >>

\* f"{key}:{suffix}" if key else None.
Suffixed(k, suffix) == IF k = NoKey THEN NoKey ELSE Append(k, suffix)

\* The fields of an event that its readers look at; `key` is the idempotency
\* key of the call that recorded it.
MkEvent(type, actor, accepted, pipe, ref, key) ==
    [type |-> type, actor |-> actor, accepted |-> accepted, pipe |-> pipe, ref |-> ref,
     key |-> key]

Events(c) == Elements(history[c])

Fresh(k) == k \notin DOMAIN keys

\* The key is known and its stored reference is of the type the call answers;
\* with another type the call raises.
Stored(k, type) == k \in DOMAIN keys /\ keys[k].type = type

\* _store_idempotency.
store_idempotency(k, type, card, event) ==
    keys' = IF k = NoKey THEN keys
            ELSE [key \in DOMAIN keys \union {k} |->
                    IF key = k THEN [type |-> type, card |-> card, event |-> event]
                    ELSE keys[key]]

-----------------------------------------------------------------------------
PanelName == DOMAIN Definition

Def(p) == Definition[p]

SameVersion(p, q) == Def(p).id = Def(q).id /\ Def(p).version = Def(q).version

\* The panels that PatchPanelValidator accepts.
ValidPanels == { p \in PanelName : validate(Definition[p]) }

\* register_patch_panel: an invalid panel raises, a version that is already
\* there keeps its definition; the mutant registers whatever it is given.
register_unvalidated(p) ==
    /\ registered' = registered \union {p}
    /\ UNCHANGED <<cards, history, keys>>

register_patch_panel(p) ==
    /\ p \in ValidPanels
    /\ registered' = IF \E q \in registered : SameVersion(p, q) THEN registered
                     ELSE registered \union {p}
    /\ UNCHANGED <<cards, history, keys>>

\* _get_active_patch_panel takes the first row of the id, in no stated order.
ActivePanels(id) == { p \in registered : Def(p).id = id /\ HasInitialBucket(Def(p)) }

\* create_card answers card c: a new one, or the one stored under the key.
create_card(id, payload, shadow, k, c) ==
    \/ /\ Stored(k, "card")
       /\ c = keys[k].card
       /\ UNCHANGED runtimeVars
    \/ /\ Fresh(k)
       /\ Len(cards) < MaxCards
       /\ c = Len(cards) + 1
       /\ \E p \in ActivePanels(id) :
             cards' = Append(cards, [panel |-> p, bucket |-> resolve_initial_bucket(Def(p)),
                                     payload |-> payload, shadow |-> shadow])
       /\ history' = Append(history, <<MkEvent("card_created", None, None, None, None, k)>>)
       /\ store_idempotency(k, "card", c, 0)
       /\ UNCHANGED registered

\* The event of a call, recorded unless its key is known.
AddEvent(c, e) ==
    /\ Len(history[c]) < MaxEvents
    /\ history' = [history EXCEPT ![c] = Append(@, e)]
    /\ store_idempotency(e.key, "event", c, Len(history[c]) + 1)

record_event(c, e) ==
    \/ /\ Stored(e.key, "event")
       /\ UNCHANGED runtimeVars
    \/ /\ Fresh(e.key)
       /\ AddEvent(c, e)
       /\ UNCHANGED <<registered, cards>>

\* validate_card looks at neither the bucket of the card nor who decides.
validate_card(c, actor, accepted, pipe, k) ==
    \/ /\ Stored(k, "event")
       /\ UNCHANGED runtimeVars
    \/ /\ Fresh(k)
       /\ \/ pipe = None /\ UNCHANGED cards
          \/ /\ pipe # None
             /\ Resolvable(Def(cards[c].panel), pipe, "output")
             /\ cards' = [cards EXCEPT ![c].bucket = pipe_bucket(Def(cards[c].panel), pipe)]
       /\ AddEvent(c, MkEvent("card_validated", actor, accepted, pipe, None, k))
       /\ UNCHANGED registered

\* move_card, without a key: any bucket of the card's panel, and a mutant
\* that does not ask whether the panel has it.
move_anywhere(c, bucket) ==
    /\ Len(history[c]) < MaxEvents
    /\ cards' = [cards EXCEPT ![c].bucket = bucket]
    /\ history' = [history EXCEPT
          ![c] = Append(@, MkEvent("card_moved", None, None, None, None, NoKey))]
    /\ UNCHANGED <<registered, keys>>

move_card(c, bucket) ==
    /\ bucket \in DOMAIN Def(cards[c].panel).buckets
    /\ Len(history[c]) < MaxEvents
    /\ cards' = [cards EXCEPT ![c].bucket = bucket]
    /\ history' = [history EXCEPT
          ![c] = Append(@, MkEvent("card_moved", None, None, None, None, NoKey))]
    /\ UNCHANGED <<registered, keys>>
=============================================================================
