------------------------------ MODULE MCRouter ------------------------------
(* The router's pools for TLC: every sequence of up to three of six         *)
(* backends, which differ in the respect their name says.                   *)
EXTENDS RouterFeed

Base == [name |-> "vllm", model |-> "m1", ceiling |-> 1, context |-> 12, price |-> 5,
         ttft |-> 8, caps |-> {"json"}, tps |-> 1]
MCBackends ==
    {Base,
     [Base EXCEPT !.name = "fast", !.price = 8, !.tps = 4, !.ttft = 15],
     [Base EXCEPT !.name = "unmeasured", !.price = 6, !.tps = 0],
     [Base EXCEPT !.name = "twin", !.model = "m2", !.ttft = 7],
     [Base EXCEPT !.name = "restricted", !.model = "m2", !.ceiling = 2, !.price = 16, !.tps = 2],
     [Base EXCEPT !.name = "local", !.model = "m2", !.price = 0, !.tps = 0, !.ttft = 15,
                  !.caps = {}, !.context = 13]}
Distinct(s) == \A i, j \in DOMAIN s : s[i] = s[j] => i = j
MCPools == {s \in UNION {[1..n -> MCBackends] : n \in 1..3} : Distinct(s)}
MCRequests == [class : {1, 2}, caps : {{}, {"json"}}, budget : {8, 15}, tokens : {10, 9}]
MCReadings == {7, 20}
MCPrices == {0, 3, 20}
=============================================================================
