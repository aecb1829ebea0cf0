---------------------------- MODULE LeaseService ----------------------------
(***************************************************************************)
(* What the CardRuntime protocol promises its workers about leases, with    *)
(* every operation atomic: a card is leased to one worker at a time, only   *)
(* a lease that still counts can be extended, and a lease that has ended    *)
(* stays as it ended.  The in-memory runtime (CardRuntime) and the Postgres *)
(* lease store (LeaseStore) are shown to implement it.                      *)
(***************************************************************************)
EXTENDS Integers, Sequences

CONSTANTS
    Card,    \* the cards that can be leased
    Expiry   \* the instants a lease can be given to expire at

VARIABLES
    leases,  \* sequence of [card, expires, released]
    now      \* the clock

vars == <<leases, now>>

Active(l) == ~leases[l].released /\ leases[l].expires > now

Init == leases = << >> /\ now = 0

Acquire(c, e) ==
    /\ \A l \in DOMAIN leases : leases[l].card = c => ~Active(l)
    /\ leases' = Append(leases, [card |-> c, expires |-> e, released |-> FALSE])
    /\ UNCHANGED now

Renew(l, e) ==
    /\ Active(l)
    /\ leases' = [leases EXCEPT ![l].expires = e]
    /\ UNCHANGED now

\* Submission, release or expiry of leases that have not ended.
End(L) ==
    /\ \A l \in L : ~leases[l].released
    /\ leases' = [l \in DOMAIN leases |-> [leases[l] EXCEPT !.released = @ \/ l \in L]]
    /\ UNCHANGED now

Tick == now' = now + 1 /\ UNCHANGED leases

Next ==
    \/ \E c \in Card, e \in Expiry : Acquire(c, e)
    \/ \E l \in DOMAIN leases, e \in Expiry : Renew(l, e)
    \/ \E L \in SUBSET DOMAIN leases : End(L)
    \/ Tick

Spec == Init /\ [][Next]_vars
=============================================================================
