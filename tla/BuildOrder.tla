----------------------------- MODULE BuildOrder -----------------------------
(***************************************************************************)
(* The order a workspace's members are built in: build_order (workspace.rs)*)
(* A depth-first walk looks for a cycle and names it; then Kahn's          *)
(* algorithm takes the earliest declared member whose upstream members are *)
(* all taken.  Members are numbered in declaration order.                  *)
(***************************************************************************)
EXTENDS Naturals, Sequences, FiniteSets

CONSTANTS Members,      \* 1 .. how many members the workspace has
          ModuleEdges   \* the module dependencies to consider

\* A member lists its modules in declaration order; one that names itself is
\* refused before (module_edges).
ASSUME MembersAssumption == /\ IsFiniteSet(Members) /\ Members # {}
                            /\ Members = 1..Cardinality(Members)
ASSUME ModuleEdgesAssumption ==
  \A e \in ModuleEdges : e \in [Members -> Seq(Members)]

VARIABLES
  modules,  \* modules[m]: the members m depends on (chosen in Init)
  walk,     \* "visit", "cycle" (refused), "take", "ordered"
  root,     \* the member the depth-first walk starts from next
  state,    \* state[m]: not visited, on the stack, or done
  stack,    \* the members the walk is inside of, the root first
  looked,   \* looked[m]: how many of m's modules the walk has looked at
  cycle,    \* the cycle it found
  order     \* the members taken so far

orderVars == <<modules, walk, root, state, stack, looked, cycle, order>>

Upstream(m) == {modules[m][i] : i \in DOMAIN modules[m]}
Taken == {order[i] : i \in DOMAIN order}

OrderInit ==
  /\ modules \in ModuleEdges
  /\ walk = "visit"
  /\ root = 1
  /\ state = [m \in Members |-> "new"]
  /\ stack = <<>>
  /\ looked = [m \in Members |-> 0]
  /\ cycle = <<>>
  /\ order = <<>>

-----------------------------------------------------------------------------
\* The member is never marked as the walk enters it.
EnterUnmarked(m) == state' = [state EXCEPT ![m] = "done"] /\ stack' = Append(stack, m)

\* A call of `visit` for a member that was not visited.
Enter(m) == /\ state' = [state EXCEPT ![m] = "open"]
            /\ stack' = Append(stack, m)

\* The loop over the members calls visit for the next one.
VisitRoot ==
  /\ walk = "visit" /\ stack = <<>> /\ root \in Members
  /\ root' = root + 1
  /\ IF state[root] = "new" THEN Enter(root) ELSE UNCHANGED <<state, stack>>
  /\ UNCHANGED <<modules, walk, looked, cycle, order>>

Top == stack[Len(stack)]
NextModule == modules[Top][looked[Top] + 1]

CycleFromTheRoot(at) == Append(stack, NextModule)
CycleFrom(at) == Append(SubSeq(stack, at, Len(stack)), NextModule)

\* visit goes on to the next module of the member it is inside of.
VisitModule ==
  /\ walk = "visit" /\ stack # <<>> /\ looked[Top] < Len(modules[Top])
  /\ looked' = [looked EXCEPT ![Top] = @ + 1]
  /\ IF state[NextModule] = "open"
     THEN /\ \E at \in DOMAIN stack :
               /\ stack[at] = NextModule
               /\ cycle' = CycleFrom(at)
          /\ walk' = "cycle"
          /\ UNCHANGED <<state, stack>>
     ELSE /\ IF state[NextModule] = "new" THEN Enter(NextModule)
                                          ELSE UNCHANGED <<state, stack>>
          /\ UNCHANGED <<walk, cycle>>
  /\ UNCHANGED <<modules, root, order>>

\* visit returns: every module of the member was looked at.
Leave ==
  /\ walk = "visit" /\ stack # <<>> /\ looked[Top] = Len(modules[Top])
  /\ state' = [state EXCEPT ![Top] = "done"]
  /\ stack' = SubSeq(stack, 1, Len(stack) - 1)
  /\ UNCHANGED <<modules, walk, root, looked, cycle, order>>

NoCycle ==
  /\ walk = "visit" /\ stack = <<>> /\ root \notin Members
  /\ walk' = "take"
  /\ UNCHANGED <<modules, root, state, stack, looked, cycle, order>>

-----------------------------------------------------------------------------
Ready == {m \in Members \ Taken : Upstream(m) \subseteq Taken}

\* The earliest declared member that is ready, and the first of all when
\* none is (`unwrap_or(0)`).
Earliest == IF Ready = {} THEN 1
            ELSE CHOOSE m \in Ready : \A n \in Ready : m <= n

Take ==
  /\ walk = "take"
  /\ order' = Append(order, Earliest)
  /\ walk' = IF Len(order') = Cardinality(Members) THEN "ordered" ELSE "take"
  /\ UNCHANGED <<modules, root, state, stack, looked, cycle>>

OrderNext == VisitRoot \/ VisitModule \/ Leave \/ NoCycle \/ Take

OrderSpec == OrderInit /\ [][OrderNext]_orderVars /\ WF_orderVars(OrderNext)

-----------------------------------------------------------------------------
OrderTypeOK ==
  /\ modules \in [Members -> Seq(Members)]
  /\ walk \in {"visit", "cycle", "take", "ordered"}
  /\ root \in Nat \ {0}
  /\ state \in [Members -> {"new", "open", "done"}]
  /\ stack \in Seq(Members)
  /\ looked \in [Members -> Nat]
  /\ cycle \in Seq(Members)
  /\ order \in Seq(Members)

\* Every member is taken once, after all it depends on: the walk leaves
\* nothing for `unwrap_or(0)` to answer, which would take the first member
\* again, or before what it depends on.
BuildableOrder ==
  \A i \in DOMAIN order : /\ Upstream(order[i]) \subseteq {order[j] : j \in 1..(i - 1)}
                          /\ \A j \in 1..(i - 1) : order[j] # order[i]

\* A workspace is refused only for a cycle it has, named as the path it is.
CycleIsReal ==
  walk = "cycle" =>
    /\ Len(cycle) > 1 /\ cycle[1] = cycle[Len(cycle)]
    /\ \A i \in 1..(Len(cycle) - 1) : cycle[i + 1] \in Upstream(cycle[i])
=============================================================================
