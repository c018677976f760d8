---------------------------- MODULE MCBrokerSync ----------------------------
(***************************************************************************)
(* BrokerSync on two nodes, one of which may be started again, with        *)
(* subscriptions to one resource of any node and to another of one node.   *)
(***************************************************************************)
EXTENDS BrokerSync

MCSubscriptions ==
  { [node |-> AnyNode, resource |-> "lock-state"],
    [node |-> "node1", resource |-> "clock-class"] }

MCMaxPods == [n \in Nodes |-> IF n = "node1" THEN 2 ELSE 1]
=============================================================================
