------------------------------ MODULE Genesis ------------------------------
(***************************************************************************)
(* How panels come to be and come to be used: genesis intents (genesis/     *)
(* service.py) search the registry, launch cards and propose candidates,    *)
(* and proposals go through the publication workflow.  Intents are kept in  *)
(* the memory of the process while cards, keys and entries are durable: a   *)
(* restart forgets every intent, and clients send it again under the same   *)
(* deduplication key.                                                       *)
(***************************************************************************)
EXTENDS Publication

CONSTANTS
    IntentRequest,  \* what clients ask for: [dedup, propose_if_missing]
    MaxIntents      \* bound

VARIABLE intents \* sequence of [dedup, status, candidates, entry, card, proposal, live]

genesisVars == <<vars, intents>>

ASSUME MaxIntentsAssumption == MaxIntents \in Nat

\* `live` is FALSE for what a process that is gone knew.
MkIntent(r, candidates) ==
    [dedup |-> r.dedup, candidates |-> candidates, entry |-> None, card |-> None,
     proposal |-> None,
     status |-> IF candidates = {} /\ r.propose_if_missing THEN "design_required"
                ELSE "received",
     live |-> TRUE]

\* self.deduplication_index: the last intent stored under the key, and a
\* mutant in which the index is never filled.
Unindexed(d) == {}

Indexed(d) == { i \in DOMAIN intents : intents[i].live /\ intents[i].dedup = d }

-----------------------------------------------------------------------------
(* Intents.                                                                 *)

\* receive_intent of a key that the index does not hold.
ReceiveIntent(c, r) ==
    /\ IsIdle(c)
    /\ Indexed(r.dedup) = {}
    /\ call' = [call EXCEPT ![c] = MkCall(<<"intent">>, None, 0, NoKey, r)]
    /\ UNCHANGED <<runtimeVars, entries, intents>>

\* search_candidates reads the entries that are not retired, of which the
\* filters by type and tag may let any through; then the intent is stored.
StoreIntent(c) ==
    /\ At(c, "intent")
    /\ Len(intents) < MaxIntents
    /\ \E found \in SUBSET registry_search(FALSE, FALSE) :
          intents' = Append(intents, MkIntent(call[c].data, found))
    /\ Continue(c, Rest(c))
    /\ UNCHANGED <<runtimeVars, entries>>

\* launch reads the intent and the entry: the first candidate, or the entry
\* that the request names, whatever its status.
StartLaunch(c, i, entry) ==
    /\ IsIdle(c)
    /\ intents[i].live
    /\ call' = [call EXCEPT ![c] =
          MkCall(<<"launch">>, None, 0, NoKey,
                 [intent |-> i, copy |-> intents[i], entry |-> entry])]
    /\ UNCHANGED <<runtimeVars, entries, intents>>

\* The key of a launch, and two mutants: one makes it from the intent's id,
\* one leaves the entry out.
LaunchKeyOfIntent(i, d, entry) == <<"genesis", "launch", i, entry>>

LaunchKeyOfDedup(i, d, entry) == <<"genesis", "launch", d>>

LaunchKey(i, d, entry) == <<"genesis", "launch", d, entry>>

\* create_card, then the copy of the intent is written back.
Launch(c) ==
    /\ At(c, "launch")
    /\ LET x == call[c].data IN
       /\ \E card \in 1..MaxCards :
             /\ create_card(Def(entries[x.entry].panel).id, x.copy.dedup, FALSE,
                            LaunchKey(x.intent, x.copy.dedup, x.entry), card)
             /\ intents' = [intents EXCEPT ![x.intent] =
                   [x.copy EXCEPT !.status = "launched", !.entry = x.entry, !.card = card]]
    /\ Continue(c, Rest(c))
    /\ UNCHANGED entries

StartPropose(c, i, p) ==
    /\ IsIdle(c)
    /\ intents[i].live
    /\ call' = [call EXCEPT ![c] =
          MkCall(<<"propose">>, None, 0, NoKey,
                 [intent |-> i, copy |-> intents[i], panel |-> p])]
    /\ UNCHANGED <<runtimeVars, entries, intents>>

Propose(c) ==
    /\ At(c, "propose")
    /\ LET x == call[c].data IN
       /\ \E card \in 1..MaxCards :
             /\ create_card(Def(Workflow).id, x.panel, FALSE,
                            <<"genesis", "propose", x.intent, x.panel>>, card)
             /\ intents' = [intents EXCEPT ![x.intent] =
                   [x.copy EXCEPT !.status = "proposed", !.proposal = card]]
    /\ Continue(c, Rest(c))
    /\ UNCHANGED entries

-----------------------------------------------------------------------------
(* The process restarts: its requests end and its memory is gone.           *)
Restart ==
    /\ call' = [c \in Client |-> Idle]
    /\ intents' = [i \in DOMAIN intents |-> [intents[i] EXCEPT !.live = FALSE]]
    /\ UNCHANGED <<runtimeVars, entries>>

GenesisInit == Init /\ intents = << >>

GenesisNext ==
    \/ Next /\ UNCHANGED intents
    \/ \E c \in Client :
          \/ \E r \in IntentRequest : ReceiveIntent(c, r)
          \/ StoreIntent(c)
          \/ \E i \in DOMAIN intents :
                \/ \E entry \in DOMAIN entries : StartLaunch(c, i, entry)
                \/ \E p \in Candidate : StartPropose(c, i, p)
          \/ Launch(c) \/ Propose(c)
    \/ Restart

GenesisSpec == GenesisInit /\ [][GenesisNext]_genesisVars

-----------------------------------------------------------------------------
(* Properties.                                                              *)

\* What an intent holds, that it names cards and entries that exist, and that
\* a client that waits for its answers has one intent of a key at a time.
GenesisTypeOK ==
    /\ \A i, j \in DOMAIN intents :
          intents[i].live /\ intents[j].live /\ intents[i].dedup = intents[j].dedup => i = j
    /\ \A i \in DOMAIN intents :
          /\ intents[i].status \in {"received", "design_required", "launched", "proposed"}
          /\ intents[i].candidates \subseteq DOMAIN entries
          /\ intents[i].card # None => intents[i].card \in DOMAIN cards
          /\ intents[i].proposal # None => cards[intents[i].proposal].panel = Workflow

\* One launch of an entry per deduplication key: an intent that is sent and
\* launched again, also to a process that has forgotten the first, gets the
\* card of the first launch.
OneLaunchPerKey ==
    \A i, j \in DOMAIN intents :
        /\ intents[i].dedup = intents[j].dedup
        /\ intents[i].card # None /\ intents[j].card # None
        /\ intents[i].entry = intents[j].entry
        => intents[i].card = intents[j].card

\* What was launched is a card of the workflow that the entry stands for.
LaunchedInWorkflow ==
    \A i \in DOMAIN intents : intents[i].card # None =>
        /\ Def(cards[intents[i].card].panel).id = Def(entries[intents[i].entry].panel).id
        /\ cards[intents[i].card].payload = intents[i].dedup
=============================================================================
