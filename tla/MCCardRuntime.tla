--------------------------- MODULE MCCardRuntime ---------------------------
(***************************************************************************)
(* Instances of CardRuntime for TLC, on the panels of HelloWorld.           *)
(***************************************************************************)
EXTENDS CardRuntime, HelloWorld

OnePanel == {hello_v1}
TwoVersions == {hello_v1, hello_v2}
AllPanels == {hello_v1, hello_v2, other_v1}

MCBucket == {"intake", "worker_inbox", "worker_queue", "validation_inbox", "done", "rejected"}
MCNodeId == { n.id : n \in Elements(HelloNodes) }
WorkPipes == {"worker_input", "worker_output", "publish"}
WorkerPipes == {"worker_input", "worker_output"}

MCRefLists == { <<Ref("a", 1)>>, <<Ref("b", 2)>> }
MCArtifactId == {"a", "b"}
ZeroOrOne == {0, 1}
One == {1}
=============================================================================
