--------------------------- MODULE MCEngineLifecycle ---------------------------
EXTENDS EngineSafety, TLC

CONSTANTS adapter, pool, clock

MCPlan     == <<adapter, pool, clock>>
MCNeeds    == (adapter :> {}) @@ (pool :> {}) @@ (clock :> {pool})
MCOptional == {adapter}
MCSlippery == {adapter, clock}
MCCalls    == {0} \union (1..MaxStarts)
=============================================================================
