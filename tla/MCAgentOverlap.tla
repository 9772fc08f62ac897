--------------------------- MODULE MCAgentOverlap ---------------------------
(* A plan of two tasks without repairs, for two overlapping requests.       *)
EXTENDS AgentOverlap

CONSTANTS t1, t2

MCPlan == <<t1, t2>>
MCRepair == [t \in {t1, t2} |-> {}]
MCShapes == {[t \in {t1, t2} |-> {}]}
=============================================================================
