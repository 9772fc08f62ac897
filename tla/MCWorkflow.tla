----------------------------- MODULE MCWorkflow -----------------------------
(* Small workflows for the engine.                                          *)
EXTENDS Workflow

\* A workflow whose second step is conditional and may be skipped: a chain, and
\* a parallel block followed by a step that needs its first member.
MCSteps == 1..3
MCDefinitions ==
    {[deps |-> [s \in MCSteps |-> IF s = 3 THEN {1} ELSE {}], cond |-> {2}, skip |-> {2}, block |-> b, cap |-> 2]
        : b \in {{}, {1, 2}}}
=============================================================================
