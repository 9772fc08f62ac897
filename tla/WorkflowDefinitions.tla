------------------------- MODULE WorkflowDefinitions -------------------------
(***************************************************************************)
(* validate_workflow_definition: the graph of the steps is sorted with     *)
(* Kahn's algorithm, one node per step, and the parallel block is held     *)
(* against it.                                                             *)
(***************************************************************************)
EXTENDS Integers, FiniteSets, Sequences, SequencesExt

CONSTANTS
    Ids,          \* step ids of a definition
    Unknown,      \* an id that is not one of them
    MaxDeps,      \* bound on the entries of a step's depends_on
    MaxFan        \* bound on the entries that name a step

ASSUME DagAssumption == IsFiniteSet(Ids) /\ Unknown \notin Ids /\ MaxDeps \in Nat

VARIABLES
    dagDeps,      \* depends_on of every step: a list, which may name a step twice
    dagBlock,     \* a parallel block: its steps ({} for no block) and its depends_on
    dagCond,      \* step id its condition refers to, per step
    dagPhase,     \* "empty", "edges", "sort", "parallel", "accepted", "refused"
    queue, indegree, seen

dagVars == <<dagDeps, dagBlock, dagCond, dagPhase, queue, indegree, seen>>

NoBlock == [steps |-> {}, deps |-> {}]

\* The entries of t's depends_on that name s; the steps with such an entry; and
\* edges[s], one element per entry.
Entries(s, t) == {k \in DOMAIN dagDeps[t] : dagDeps[t][k] = s}
Dependents(s) == {t \in Ids : Entries(s, t) # {}}
EdgesFrom(s) == UNION {{t} \X Entries(s, t) : t \in Ids}

DagInit ==
    /\ dagDeps = [s \in Ids |-> <<>>]
    /\ dagBlock = NoBlock
    /\ dagCond = [s \in Ids |-> Unknown]
    /\ dagPhase = "empty"
    /\ queue = <<>>
    /\ indegree = [s \in Ids |-> 0]
    /\ seen = 0

\* The models' own validators: no step depends on itself, a condition refers to
\* another step (or to none), a block has two steps at least, all of them steps
\* of the definition; what the block depends on is not looked at here.
StepValid(s, deps) == s \notin Range(deps[s])
ConditionValid(s, t) == s # t
BlockValid(block) == Cardinality(block.steps) >= 2 /\ block.steps \subseteq Ids

\* A definition arrives and is parsed.
Submit ==
    /\ dagPhase = "empty"
    /\ dagDeps' \in [Ids -> BoundedSeq(Ids \cup {Unknown}, MaxDeps)]
    /\ \A s \in Ids : StepValid(s, dagDeps')
    /\ dagPhase' = "edges"
    /\ UNCHANGED <<dagBlock, dagCond, queue, indegree, seen>>

\* Edges and indegrees, one for each entry; unknown dependencies and fan-out are
\* refused.
Edges ==
    /\ dagPhase = "edges"
    /\ IF (\E s \in Ids : Unknown \in Range(dagDeps[s])) \/ \E s \in Ids : Cardinality(EdgesFrom(s)) > MaxFan
       THEN dagPhase' = "refused" /\ UNCHANGED <<queue, indegree>>
       ELSE /\ dagPhase' = "sort"
            /\ indegree' = [s \in Ids |-> Cardinality(DOMAIN dagDeps[s])]
            /\ queue' = SetToSeq({s \in Ids : DOMAIN dagDeps[s] = {}})
    /\ UNCHANGED <<dagDeps, dagBlock, dagCond, seen>>

\* Mutant: a dependent is freed by its last dependency counted once, though its
\* indegree counts every entry.
Pop_Once ==
    /\ dagPhase = "sort" /\ queue # <<>>
    /\ LET node == Head(queue)
           freed == {t \in Dependents(node) : indegree[t] = 1}
       IN  /\ indegree' = [t \in Ids |-> IF t \in Dependents(node) THEN indegree[t] - 1 ELSE indegree[t]]
           /\ queue' = Tail(queue) \o SetToSeq(freed)
    /\ seen' = seen + 1
    /\ UNCHANGED <<dagDeps, dagBlock, dagCond, dagPhase>>

\* One turn of the sort: every edge of the popped step lowers an indegree, and the
\* step whose indegree an edge brings to zero is queued.
Pop ==
    /\ dagPhase = "sort" /\ queue # <<>>
    /\ LET node == Head(queue)
           freed == {t \in Dependents(node) : indegree[t] = Cardinality(Entries(node, t))}
       IN  /\ indegree' = [t \in Ids |-> indegree[t] - Cardinality(Entries(node, t))]
           /\ queue' = Tail(queue) \o SetToSeq(freed)
    /\ seen' = seen + 1
    /\ UNCHANGED <<dagDeps, dagBlock, dagCond, dagPhase>>

\* The end of the sort: what has not been popped is on a cycle or behind one.
Conclude ==
    /\ dagPhase = "sort" /\ queue = <<>>
    /\ dagPhase' = IF seen = Cardinality(Ids) THEN "parallel" ELSE "refused"
    /\ UNCHANGED <<dagDeps, dagBlock, dagCond, queue, indegree, seen>>

\* What _validate_parallel refuses: a block that waits for an unknown step or for
\* one of its own, or whose steps wait for one another or look at one another's
\* outcome.
BlockRefused(block, cond) ==
    \/ Unknown \in block.deps \/ block.deps \cap block.steps # {}
    \/ \E s \in block.steps : Range(dagDeps[s]) \cap block.steps # {} \/ cond[s] \in block.steps

\* _validate_parallel.  The block and the conditions, part of the definition since
\* it arrived, are chosen here, where they are first looked at.
ValidateParallel ==
    /\ dagPhase = "parallel"
    /\ \/ dagBlock' = NoBlock
       \/ /\ dagBlock' \in [steps: SUBSET Ids, deps: SUBSET (Ids \cup {Unknown})]
          /\ BlockValid(dagBlock')
    /\ \E s \in Ids, t \in Ids \cup {Unknown} :
         ConditionValid(s, t) /\ dagCond' = [i \in Ids |-> IF i = s THEN t ELSE Unknown]
    /\ dagPhase' = IF BlockRefused(dagBlock', dagCond') THEN "refused" ELSE "accepted"
    /\ UNCHANGED <<dagDeps, queue, indegree, seen>>

DagNext == Submit \/ Edges \/ Pop \/ Conclude \/ ValidateParallel

DagSpec == DagInit /\ [][DagNext]_dagVars

-----------------------------------------------------------------------------
\* The engine can always go on: whatever set of steps is done, some other step
\* has all its dependencies in it.
NeverStuck ==
    \A done \in SUBSET Ids : done # Ids => \E s \in Ids \ done : Range(dagDeps[s]) \subseteq done

\* The sort accepts only graphs the engine can run to their end, however often a
\* list names a step: an accepted definition never leaves its run without a ready
\* step.  And what is refused either could get stuck (a cycle, an unknown step),
\* or some step is named by more than MaxFan entries, or the block is at fault.
AcceptedRuns ==
    /\ dagPhase = "accepted" => NeverStuck
    /\ dagPhase = "refused" => \/ ~NeverStuck
                               \/ \E s \in Ids : Cardinality(EdgesFrom(s)) > MaxFan
                               \/ BlockRefused(dagBlock, dagCond)
=============================================================================
