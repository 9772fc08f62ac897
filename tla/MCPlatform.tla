------------------------------ MODULE MCPlatform ------------------------------
(* The components that share no state with one another, side by side: one of *)
(* them, the focus, takes its steps while the others rest where they begin.  *)
EXTENDS CircuitBreaker, MCWorkflow, WorkflowDefinitions,
        DomWalk, RateLimit, WebFetch, Access, StepParams

CONSTANTS k1, k2, u1, u2, d1
VARIABLE focus

\* Whose the API keys are.
Holders == [k \in {k1, k2} |-> IF k = k1 THEN u1 ELSE u2]

MCInit ==
    /\ focus \in {"breaker", "workflow", "dag", "dom",
                  "edge", "quota", "fetch", "access", "fill"}
    /\ CircuitInit /\ DagInit /\ DomInit /\ RateInit
    /\ Init /\ (focus # "workflow" => def.block = {})
    /\ FetchInit /\ (focus # "fetch" => \A h \in Hosts : dns[h] = {})
    /\ AccessInit /\ (focus # "access" => sealed)
    /\ FillInit /\ (focus # "fill" => step = [target |-> "none", text |-> "none", ref |-> "vault",
                                              selector |-> TRUE, long |-> FALSE] /\ ~secretKey)

Quiet(names, v) == IF focus \in names THEN TRUE ELSE UNCHANGED v

MCNext ==
    /\ \/ focus = "breaker" /\ CircuitNext
       \/ focus = "workflow" /\ Next
       \/ focus = "dag" /\ DagNext
       \/ focus = "dom" /\ DomNext
       \/ focus = "edge" /\ EdgeNext
       \/ focus = "quota" /\ QuotaNext
       \/ focus = "fetch" /\ FetchNext
       \/ focus = "access" /\ AccessNext
       \/ focus = "fill" /\ FillNext
    /\ Quiet({"breaker"}, circuitVars) /\ Quiet({"workflow"}, vars)
    /\ Quiet({"dag"}, dagVars) /\ Quiet({"dom"}, domVars)
    /\ Quiet({"edge", "quota"}, rateVars) /\ Quiet({"fetch"}, fetchVars) /\ Quiet({"access"}, accessVars)
    /\ Quiet({"fill"}, fillVars)
    /\ UNCHANGED focus

MCSpec == MCInit /\ [][MCNext]_<<focus, circuitVars, vars, dagVars, domVars, rateVars,
                                  fetchVars, accessVars, fillVars>>
=============================================================================
