----------------------------- MODULE MCGateway -----------------------------
(* Two tenants and two callers for TLC.  The cheaper backend takes Internal *)
(* requests and the other Restricted ones too, with the same model; nobody  *)
(* offers tools.                                                            *)
EXTENDS GatewayProperties, TLC

CONSTANTS ask, paraphrase, c1, c2, hr, contracts

MCPrompts == {ask, paraphrase}
MCSimilarity == [p \in MCPrompts |-> [q \in MCPrompts |-> IF p = q THEN 100 ELSE 93]]
MCNumbers == [p \in MCPrompts |-> {"118"}]

Cheap == [name |-> "vllm", model |-> "m", ceiling |-> 1, context |-> 13, price |-> 5,
          ttft |-> 8, caps |-> {"json"}, tps |-> 5]
MCPool == <<Cheap, [Cheap EXCEPT !.name = "restricted", !.ceiling = 2, !.price = 9]>>

Ask == [prompt |-> ask, class |-> 1, caps |-> {}, budget |-> 8, tokens |-> 10, settings |-> "t0"]
MCAsks == {Ask,
           [Ask EXCEPT !.prompt = paraphrase],
           [Ask EXCEPT !.class = 2],
           [Ask EXCEPT !.caps = {"tools"}]}
MCTenants == {hr, contracts}
MCScopes == [class : {1, 2}, model : {"m"}, settings : {"t0"}, tenant : MCTenants]
MCCallers == {c1, c2}
Symmetry == Permutations(MCCallers)
=============================================================================
