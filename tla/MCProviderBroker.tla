-------------------------- MODULE MCProviderBroker --------------------------
(* Two clients; a response costs one unit, for one token or two.           *)
EXTENDS ProviderBroker

CONSTANTS c1, c2

MCMaxCalls == [p \in Planes |-> IF p = "main" THEN 2 ELSE 1]
MCLimit == [m \in {"tokens", "cost"} |-> IF m = "tokens" THEN 3 ELSE 2]
MCUsages == {[m \in {"tokens", "cost"} |-> IF m = "tokens" THEN n ELSE 1] : n \in {1, 2}}
=============================================================================
