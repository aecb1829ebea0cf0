----------------------------- MODULE MCDelivery -----------------------------
(***************************************************************************)
(* Instances of Delivery for TLC: a relay of a boundary source, a worker    *)
(* and a boundary sink.                                                     *)
(***************************************************************************)
EXTENDS Delivery, HelloWorld, TLC

Boundary(tokens, target, deduplicates) ==
    [boundary |-> [tokens |-> tokens, target |-> target, deduplicates |-> deduplicates,
                   egress_key |-> << >>],
     allow_shadow_egress |-> FALSE]

At_(n, config) == [f \in DOMAIN n \union {"config"} |-> IF f = "config" THEN config ELSE n[f]]

Relay(version) ==
    [id |-> <<"relay">>,
     version |-> <<version>>,
     buckets |-> [b \in {"inbox", "outbox"} |-> None],
     nodes |-> << At_(MkNode("hook", "source", << >>, <<"received">>, None),
                      Boundary({"t1"}, None, TRUE)),
                  At_(MkNode("relay", "worker", <<"work">>, <<"worked">>, None),
                      Boundary({}, None, FALSE)),
                  At_(MkNode("post", "sink", <<"sent">>, << >>, None),
                      Boundary({}, None, FALSE)) >>,
     edges |-> { [from |-> "hook", to |-> "relay", on |-> "received"],
                 [from |-> "relay", to |-> "post", on |-> "worked"] },
     pipe_bindings |-> [received |-> Bind("inbox", "hook", "output"),
                        work |-> Bind("inbox", "relay", "input"),
                        worked |-> Bind("outbox", "relay", "output"),
                        sent |-> Bind("outbox", "post", "input")],
     contracts |-> << >>]

\* The third lacks the edge to its sink.
Relays ==
    [relay1 |-> Relay("1"), relay2 |-> Relay("2"), broken |-> [Relay("3") EXCEPT !.edges = {}]]
\* TLC evaluates Relays once and what a constant stands for at every use.
MCDefinition == Relays
OneDelivery == {<<"d1">>}
OneKey == {<<"k1">>}
CardKeys == {<<"c1">>}

\* The requests are alike: nothing but call tells them apart.
Requests == Permutations(Client)

\* Bound: once there is a mutation, only the beginning of the work goes on.
MutationWindow == mutations # << >> => \A card \in DOMAIN cards : Len(history[card]) <= 2

TwoReferences == {"r1", "r2"}
=============================================================================
