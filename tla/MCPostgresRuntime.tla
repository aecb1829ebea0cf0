------------------------- MODULE MCPostgresRuntime -------------------------
(***************************************************************************)
(* Instances of PostgresRuntime for TLC, on the panels of HelloWorld.       *)
(***************************************************************************)
EXTENDS PostgresRuntime, HelloWorld, TLC

OnePanel == {hello_v1}
TwoVersions == {hello_v1, hello_v2}
InboxOrDone == {"worker_inbox", "done"}
WorkerPipes == {"worker_input", "worker_output"}
MCRefLists == { <<Ref("a", 1)>> }
One == {1}
Sessions == Permutations(Session)

\* A later beginning, which Init reaches with two transactions: there is a
\* card, and a worker has claimed it.
Claimed ==
    /\ panels = {hello_v1}
    /\ cards = << [workflow_version |-> workflow_version(hello_v1), bucket |-> "worker_inbox"] >>
    /\ locations = << [card |-> 1, bucket |-> "worker_inbox", active |-> TRUE] >>
    /\ leases = << [card |-> 1, node |-> "example_worker", expires |-> 1, released |-> FALSE] >>
    /\ events = { [n |-> 1, card |-> 1, type |-> "card_created", lease |-> 0, from |-> None,
                   to |-> "worker_inbox"],
                  [n |-> 2, card |-> 1, type |-> "card_claimed", lease |-> 1, from |-> None,
                   to |-> None] }
    /\ artifacts = {}
    /\ idempotency = << >>
    /\ tx = [s \in Session |-> NoTx]
    /\ serial = 2
    /\ requests = 2
    /\ now = 0

FromClaimed == Claimed /\ [][Next]_vars /\ Fairness
=============================================================================
