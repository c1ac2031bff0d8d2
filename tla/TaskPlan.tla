------------------------------ MODULE TaskPlan ------------------------------
(***************************************************************************)
(* Which tasks a command runs, and in which order (task.rs: plan, edges,   *)
(* find_cycle; manifest/mod.rs: Builtin::hooks).  A reference is a task or *)
(* a built-in command.  A graph says what each task depends on, in order,  *)
(* and the tasks of each hook, in order.                                   *)
(***************************************************************************)
EXTENDS Naturals, FiniteSets, Sequences, SequencesExt, TLC

CONSTANT Tasks

Builtins == {"build", "test"}
Nodes == Tasks \cup Builtins

ASSUME TaskPlanAssumption == IsFiniteSet(Tasks) /\ Tasks \cap Builtins = {}

Hooks == {"pre-compile", "post-compile", "pre-test", "post-test"}

HooksOf(builtin) == IF builtin = "build" THEN {"pre-compile", "post-compile"} ELSE Hooks

\* Mutant of Edges: a built-in command runs no task.
EdgesOfTasks(graph, node) ==
  IF node \in Tasks THEN ToSet(graph.depends[node]) ELSE {}

\* A task points at what it depends on, a built-in at the tasks of its hooks.
Edges(graph, node) ==
  IF node \in Tasks THEN ToSet(graph.depends[node])
  ELSE UNION {ToSet(graph.hooks[h]) : h \in HooksOf(node)}

Reached(graph, node) ==
  LET more(nodes) == nodes \cup UNION {Edges(graph, n) : n \in nodes}
      within[k \in Nat] == IF k = 0 THEN Edges(graph, node) ELSE more(within[k - 1])
  IN  within[Cardinality(Nodes)]

\* find_cycle: a graph where a walk from some task comes back is refused.
Cyclic(graph) ==
  \E t \in Tasks : \E n \in {t} \cup Reached(graph, t) : n \in Reached(graph, n)

Added(list, n) == IF n \in ToSet(list) THEN list ELSE Append(list, n)

Once(nodes) ==
  LET once[k \in 0..Len(nodes)] == IF k = 0 THEN <<>> ELSE Added(once[k - 1], nodes[k])
  IN  once[Len(nodes)]

\* plan: depth first, what a task depends on before it, each once.  Built-ins
\* are leaves.
Plan(graph, roots) ==
  LET under[n \in Nodes] ==
        IF n \in Builtins THEN <<n>>
        ELSE FlattenSeq([i \in DOMAIN graph.depends[n] |-> under[graph.depends[n][i]]]) \o <<n>>
  IN  Once(FlattenSeq([i \in DOMAIN roots |-> under[roots[i]]]))
=============================================================================
