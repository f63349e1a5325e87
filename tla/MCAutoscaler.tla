---------------------------- MODULE MCAutoscaler ----------------------------
(* A service of up to three replicas for TLC; its loads press on one trigger *)
(* at a time, at rest, and in between.                                       *)
EXTENDS Autoscaler

Load(queue, kv, ttft) == [queue |-> queue, kv |-> kv, ttft |-> ttft]

SomeLoads ==
    {Load(0, 0, 0), Load(14, 0, 0), Load(0, 300, 0), Load(0, 0, 2400), Load(7, 150, 1500)}
=============================================================================
