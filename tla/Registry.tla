------------------------------ MODULE Registry ------------------------------
(***************************************************************************)
(* PatchPanelRegistry (registry/service.py): the searchable index of panel  *)
(* versions.  An entry is [panel, status, origin, card]: the version it     *)
(* indexes, its lifecycle status, who made it ("bootstrap", "api" or        *)
(* "sink") and, for a sink, the proposal card.  Entries are numbered in     *)
(* the order they were registered.                                          *)
(***************************************************************************)
EXTENDS CardCalls

CONSTANT MaxEntries  \* bound

VARIABLE entries

ASSUME MaxEntriesAssumption == MaxEntries \in Nat

Status == {"draft", "review", "published", "archived", "superseded"}

MkEntry(p, status, origin, card) ==
    [panel |-> p, status |-> status, origin |-> origin, card |-> card]

\* register: nothing keeps two entries of one version apart.
registry_register(e) ==
    /\ Len(entries) < MaxEntries
    /\ entries' = Append(entries, e)

\* search with _entry_matches, the lifecycle part of the filters.
registry_search(include_archived, include_superseded) ==
    { i \in DOMAIN entries : /\ entries[i].status = "archived" => include_archived
                             /\ entries[i].status = "superseded" => include_superseded }

\* The entries of p's version; the first mutant leaves the archived ones out,
\* the second compares panel ids only.
SearchCurrent(p) == { i \in registry_search(FALSE, FALSE) : SameVersion(entries[i].panel, p) }

SearchById(p) == { i \in registry_search(TRUE, TRUE) : Def(entries[i].panel).id = Def(p).id }

SearchVersion(p) == { i \in registry_search(TRUE, TRUE) : SameVersion(entries[i].panel, p) }

\* update_metadata, in two transactions: the entry is read and must be a
\* draft; later the whole row is written back with the new status.
Editable(i) == entries[i].status = "draft"

write_entry(i, e) == entries' = [entries EXCEPT ![i] = e]

\* archive and supersede take any entry.
registry_archive(i) == entries' = [entries EXCEPT ![i].status = "archived"]

registry_supersede(i) == entries' = [entries EXCEPT ![i].status = "superseded"]
=============================================================================
