---------------------------- MODULE WorkspaceProofs ----------------------------
(***************************************************************************)
(* Proofs about a workspace and its one resolution.                        *)
(*                                                                         *)
(* Build order (BuildOrder): every member is taken once, after all it      *)
(* depends on, and a workspace is refused only for a cycle it has.         *)
(* Members takes the first of these for granted.  A member the walk has    *)
(* left has only members it has left below it, and can be given a rank     *)
(* above theirs; once all are left, a member of least rank among those not *)
(* taken is ready.                                                         *)
(*                                                                         *)
(* Versions (VersionOrder): what the comparison of versions is, and of     *)
(* which of them it is an order.                                           *)
(*                                                                         *)
(* Where packages land (Resolver): the walk keeps every classpath it gives *)
(* a package, or asks one for, justified by a declaration that reaches it  *)
(* along the edges walked; every declaration is settled or still waits; at *)
(* the end the packages on a classpath are closed along the edges.  The    *)
(* recursive definitions on the way - the walk's requests, the aggregate   *)
(* manifest, the paths - are unfolded by induction over a set of numbers.  *)
(*                                                                         *)
(* What members share (Workspace): every package was walked past no more   *)
(* than each path to it excludes, or will be; what a declaration reaches   *)
(* past its own exclusions is therefore in the graph.                      *)
(*                                                                         *)
(* Nearest wins (Resolver): there is a path for every settled package and  *)
(* every request, in the order the requests are mediated in; what is asked *)
(* for waits along its path or is settled along one no later.              *)
(***************************************************************************)
EXTENDS Workspace, VersionOrder, FiniteSetTheorems, WellFoundedInduction, TLAPS

Open(m) == \E k \in DOMAIN stack : stack[k] = m

StackInv ==
  /\ \A m \in Members : (state[m] = "open") <=> Open(m)
  /\ \A k, l \in DOMAIN stack : stack[k] = stack[l] => k = l
  /\ \A k \in DOMAIN stack : k > 1 => stack[k] \in Upstream(stack[k - 1])

\* What a member on the stack has looked at is done, or is next on it.
LookedInv ==
  /\ \A m \in Members : looked[m] <= Len(modules[m])
  /\ \A m \in Members : state[m] = "new" => looked[m] = 0
  /\ walk = "visit" =>
       \A k \in DOMAIN stack : \A i \in 1..looked[stack[k]] :
         \/ state[modules[stack[k]][i]] = "done"
         \/ k + 1 \in DOMAIN stack /\ stack[k + 1] = modules[stack[k]][i]

Ranked(rank, n) ==
  \A m \in Members : state[m] = "done" =>
    /\ rank[m] < n
    /\ \A u \in Upstream(m) : state[u] = "done" /\ rank[u] < rank[m]
RankInv == \E rank \in [Members -> Nat] : \E n \in Nat : Ranked(rank, n)

RootInv ==
  /\ \A m \in Members : m < root => state[m] # "new"
  /\ walk \in {"take", "ordered"} => \A m \in Members : state[m] = "done"

TakenInv ==
  /\ walk \in {"visit", "cycle"} => order = <<>>
  /\ IsFiniteSet(Taken) /\ Cardinality(Taken) = Len(order)
  /\ walk = "take" => Len(order) < Cardinality(Members)

IInv == OrderTypeOK /\ StackInv /\ LookedInv /\ RankInv /\ RootInv
        /\ TakenInv /\ BuildableOrder /\ CycleIsReal

-----------------------------------------------------------------------------
\* Members are the numbers from 1 on.
LEMMA HowMany ==
  /\ Cardinality(Members) \in Nat \ {0}
  /\ \A m : m \in Members <=> m \in Nat /\ 1 <= m /\ m <= Cardinality(Members)
<1>1. Cardinality(Members) \in Nat /\ Cardinality(Members) # 0
  BY MembersAssumption, FS_CardinalityType, FS_EmptySet
<1>2. Members = 1..Cardinality(Members)
  BY MembersAssumption
<1>3. QED BY <1>1, <1>2

LEMMA TopInStack ==
  ASSUME OrderTypeOK, stack # <<>>
  PROVE  Len(stack) \in DOMAIN stack /\ Len(stack) \in Nat \ {0} /\ Top \in Members
  BY DEF OrderTypeOK, Top

\* Some member of a set of members ranks lowest.
LEMMA LeastRank ==
  ASSUME NEW S \in SUBSET Members, S # {}, NEW rank \in [Members -> Nat]
  PROVE  \E m \in S : \A n \in S : rank[m] <= rank[n]
<1> DEFINE ranks == {rank[m] : m \in S}
<1>1. ranks \subseteq Nat /\ ranks # {}
  OBVIOUS
<1>2. PICK r \in ranks : \A q \in ranks : ~(<<q, r>> \in OpToRel(<, Nat))
  BY <1>1, NatLessThanWellFounded, WFMin
<1>3. \A q \in ranks : r <= q
  <2>1. SUFFICES ASSUME NEW q \in ranks, q < r PROVE FALSE
    BY <1>1
  <2>2. <<q, r>> \in OpToRel(<, Nat)
    BY <1>1, <2>1 DEF OpToRel
  <2>3. QED BY <1>2, <2>2
<1>4. QED BY <1>3

\* A member taken is a member: the least that is ready, or the first of all.
LEMMA EarliestIsMember ==
  ASSUME OrderTypeOK
  PROVE  Earliest \in Members /\ (Ready # {} => Earliest \in Ready)
<1>1. CASE Ready = {}
  BY <1>1, HowMany DEF Earliest
<1>2. CASE Ready # {}
  <2>1. Ready \subseteq Members /\ Members \subseteq Nat
    BY HowMany DEF Ready
  <2>2. \E m \in Ready : \A n \in Ready : [k \in Members |-> k][m] <= [k \in Members |-> k][n]
    BY <1>2, <2>1, LeastRank
  <2>3. PICK m \in Ready : \A n \in Ready : m <= n
    BY <2>1, <2>2
  <2>4. Earliest \in Ready
    BY <1>2, <2>3 DEF Earliest
  <2>5. QED BY <2>1, <2>4
<1>3. QED BY <1>1, <1>2

-----------------------------------------------------------------------------
LEMMA TypeInit == OrderInit => OrderTypeOK
  BY HowMany, ModuleEdgesAssumption DEF OrderInit, OrderTypeOK

LEMMA EnterType ==
  ASSUME OrderTypeOK, NEW m \in Members, Enter(m)
  PROVE  state' \in [Members -> {"new", "open", "done"}] /\ stack' \in Seq(Members)
  BY DEF OrderTypeOK, Enter

LEMMA TypeStep == OrderTypeOK /\ [OrderNext]_orderVars => OrderTypeOK'
<1> SUFFICES ASSUME OrderTypeOK, [OrderNext]_orderVars PROVE OrderTypeOK'
  OBVIOUS
<1>1. CASE VisitRoot
  <2>1. root' \in Nat \ {0} /\ UNCHANGED <<modules, walk, looked, cycle, order>>
    BY <1>1 DEF VisitRoot, OrderTypeOK
  <2>2. (root \in Members /\ Enter(root)) \/ UNCHANGED <<state, stack>>
    BY <1>1 DEF VisitRoot
  <2>3. QED BY <2>1, <2>2, EnterType DEF OrderTypeOK
<1>2. CASE VisitModule
  <2>1. Top \in Members /\ looked[Top] \in Nat
    BY <1>2, TopInStack DEF OrderTypeOK, VisitModule
  <2>2. NextModule \in Members
    BY <1>2, <2>1 DEF OrderTypeOK, VisitModule, NextModule
  <2>a. /\ looked' \in [Members -> Nat] /\ walk' \in {"visit", "cycle"}
        /\ UNCHANGED <<modules, root, order>>
    <3>1. /\ looked' = [looked EXCEPT ![Top] = @ + 1]
          /\ UNCHANGED <<modules, root, order>>
      BY <1>2 DEF VisitModule
    <3>2. walk' = "cycle" \/ walk' = walk
      BY <1>2 DEF VisitModule
    <3>3. walk = "visit"
      BY <1>2 DEF VisitModule
    <3>4. looked \in [Members -> Nat]
      BY DEF OrderTypeOK
    <3>5. looked' \in [Members -> Nat]
      BY ONLY <2>1, <3>1, <3>4
    <3>6. QED BY <3>1, <3>2, <3>3, <3>5
  <2>3. CASE state[NextModule] = "open"
    <3>1. PICK k \in DOMAIN stack : cycle' = CycleFrom(k)
      BY <1>2, <2>3 DEF VisitModule
    <3>2. cycle' \in Seq(Members)
      BY <2>2, <3>1 DEF CycleFrom, OrderTypeOK
    <3>3. UNCHANGED <<state, stack>>
      BY <1>2, <2>3 DEF VisitModule
    <3>4. QED BY <2>a, <3>2, <3>3 DEF OrderTypeOK
  <2>4. CASE state[NextModule] # "open"
    <3>1. Enter(NextModule) \/ UNCHANGED <<state, stack>>
      BY <1>2, <2>4 DEF VisitModule
    <3>2. state' \in [Members -> {"new", "open", "done"}] /\ stack' \in Seq(Members)
      BY <2>2, <3>1, EnterType DEF OrderTypeOK
    <3>3. UNCHANGED cycle
      BY <1>2, <2>4 DEF VisitModule
    <3>4. QED BY <2>a, <3>2, <3>3 DEF OrderTypeOK
  <2>5. QED BY <2>3, <2>4
<1>3. CASE Leave
  BY <1>3, TopInStack DEF Leave, OrderTypeOK
<1>4. CASE NoCycle
  BY <1>4 DEF NoCycle, OrderTypeOK
<1>5. CASE Take
  BY <1>5, EarliestIsMember DEF Take, OrderTypeOK
<1>6. CASE UNCHANGED orderVars
  BY <1>6 DEF orderVars, OrderTypeOK
<1>7. QED BY <1>1, <1>2, <1>3, <1>4, <1>5, <1>6 DEF OrderNext

-----------------------------------------------------------------------------
\* What entering a member and leaving it make of the stack.
LEMMA EnterStack ==
  ASSUME OrderTypeOK, NEW m \in Members, Enter(m)
  PROVE  /\ Len(stack) \in Nat /\ DOMAIN stack = 1..Len(stack)
         /\ DOMAIN stack' = 1..(Len(stack) + 1)
         /\ stack'[Len(stack) + 1] = m
         /\ \A k \in DOMAIN stack : stack'[k] = stack[k]
         /\ \A x \in Members : state'[x] = IF x = m THEN "open" ELSE state[x]
  BY DEF OrderTypeOK, Enter

LEMMA LeaveStack ==
  ASSUME OrderTypeOK, Leave
  PROVE  /\ Len(stack) \in Nat \ {0} /\ DOMAIN stack = 1..Len(stack)
         /\ Top = stack[Len(stack)] /\ Top \in Members
         /\ DOMAIN stack' = 1..(Len(stack) - 1)
         /\ \A k \in 1..(Len(stack) - 1) : stack'[k] = stack[k]
         /\ \A x \in Members : state'[x] = IF x = Top THEN "done" ELSE state[x]
  BY DEF OrderTypeOK, Leave, Top

LEMMA NextIsUpstream ==
  ASSUME OrderTypeOK, VisitModule
  PROVE  /\ Top \in Members /\ Top = stack[Len(stack)] /\ Len(stack) \in Nat \ {0}
         /\ NextModule \in Members /\ NextModule \in Upstream(Top)
         /\ NextModule = modules[Top][looked[Top] + 1]
         /\ \A x \in Members : looked'[x] = IF x = Top THEN looked[x] + 1 ELSE looked[x]
         /\ UNCHANGED <<modules, root, order>>
<1>1. Top \in Members /\ looked[Top] \in Nat /\ Len(stack) \in Nat \ {0}
  BY TopInStack DEF VisitModule, OrderTypeOK
<1>2. looked[Top] + 1 \in DOMAIN modules[Top]
  BY <1>1 DEF VisitModule, OrderTypeOK
<1>3. NextModule = modules[Top][looked[Top] + 1] /\ Top = stack[Len(stack)]
  BY DEF NextModule, Top
<1>4. NextModule \in Upstream(Top)
  BY <1>2, <1>3 DEF Upstream
<1>5. NextModule \in Members
  BY <1>1, <1>2, <1>3 DEF OrderTypeOK
<1>6. /\ \A x \in Members : looked'[x] = IF x = Top THEN looked[x] + 1 ELSE looked[x]
      /\ UNCHANGED <<modules, root, order>>
  BY <1>1 DEF VisitModule, OrderTypeOK
<1>7. QED BY <1>1, <1>3, <1>4, <1>5, <1>6

\* The three things a step of the walk may do.
LEMMA VisitModuleCases ==
  ASSUME OrderTypeOK, VisitModule
  PROVE  \/ state[NextModule] = "new" /\ Enter(NextModule) /\ UNCHANGED <<walk, cycle>>
         \/ state[NextModule] = "done" /\ UNCHANGED <<state, stack, walk, cycle>>
         \/ /\ state[NextModule] = "open" /\ walk' = "cycle" /\ UNCHANGED <<state, stack>>
            /\ \E k \in DOMAIN stack : stack[k] = NextModule /\ cycle' = CycleFrom(k)
  BY NextIsUpstream DEF VisitModule, OrderTypeOK

LEMMA EnterKeepsStack ==
  ASSUME OrderTypeOK, StackInv, NEW m \in Members, state[m] = "new", Enter(m),
         stack # <<>> => m \in Upstream(stack[Len(stack)]), UNCHANGED modules
  PROVE  StackInv'
<1> USE EnterStack
<1>0. \A k \in DOMAIN stack : stack[k] # m
  BY DEF StackInv, Open
<1>1. ASSUME NEW x \in Members PROVE (state'[x] = "open") <=> Open(x)'
  <2>1. Open(x)' <=> x = m \/ Open(x)
    BY DEF Open
  <2>2. QED BY <2>1 DEF StackInv
<1>2. \A k, l \in DOMAIN stack' : stack'[k] = stack'[l] => k = l
  BY <1>0 DEF StackInv
<1>3. ASSUME NEW k \in DOMAIN stack', k > 1 PROVE (stack[k] \in Upstream(stack[k - 1]))'
  <2>1. CASE k = Len(stack) + 1
    BY <1>3, <2>1 DEF Upstream
  <2>2. CASE k \in DOMAIN stack
    <3>1. k - 1 \in DOMAIN stack /\ stack'[k] = stack[k] /\ stack'[k - 1] = stack[k - 1]
      BY <1>3, <2>2
    <3>2. stack[k] \in Upstream(stack[k - 1])
      BY <1>3, <2>2 DEF StackInv
    <3>3. QED BY <3>1, <3>2 DEF Upstream
  <2>3. QED BY <2>1, <2>2
<1>4. QED BY <1>1, <1>2, <1>3 DEF StackInv

LEMMA StackStep ==
  ASSUME OrderTypeOK, StackInv, [OrderNext]_orderVars
  PROVE  StackInv'
<1>1. CASE VisitRoot
  <2>1. CASE state[root] = "new"
    <3>1. root \in Members /\ Enter(root) /\ stack = <<>> /\ UNCHANGED modules
      BY <1>1, <2>1 DEF VisitRoot
    <3>2. QED BY <2>1, <3>1, EnterKeepsStack
  <2>2. CASE state[root] # "new"
    BY <1>1, <2>2 DEF VisitRoot, StackInv, Open, Upstream
  <2>3. QED BY <2>1, <2>2
<1>2. CASE VisitModule
  <2>1. CASE UNCHANGED <<state, stack>>
    BY <1>2, <2>1, NextIsUpstream DEF StackInv, Open, Upstream
  <2>2. CASE state[NextModule] = "new" /\ Enter(NextModule)
    BY <1>2, <2>2, NextIsUpstream, EnterKeepsStack
  <2>3. QED BY <1>2, <2>1, <2>2, VisitModuleCases
<1>3. CASE Leave
  <2> USE <1>3, LeaveStack
  <2>1. ASSUME NEW x \in Members PROVE (state'[x] = "open") <=> Open(x)'
    <3>1. Open(x)' <=> x # Top /\ Open(x)
      BY DEF Open, StackInv
    <3>2. QED BY <3>1 DEF StackInv
  <2>2. \A k, l \in DOMAIN stack' : stack'[k] = stack'[l] => k = l
    BY DEF StackInv
  <2>3. ASSUME NEW k \in DOMAIN stack', k > 1 PROVE (stack[k] \in Upstream(stack[k - 1]))'
    <3>1. k \in DOMAIN stack /\ stack'[k] = stack[k] /\ stack'[k - 1] = stack[k - 1]
      BY <2>3
    <3>2. stack[k] \in Upstream(stack[k - 1])
      BY <2>3, <3>1 DEF StackInv
    <3>3. UNCHANGED modules
      BY DEF Leave
    <3>4. QED BY <3>1, <3>2, <3>3 DEF Upstream
  <2>4. QED BY <2>1, <2>2, <2>3 DEF StackInv
<1>4. CASE NoCycle
  BY <1>4 DEF NoCycle, StackInv, Open, Upstream
<1>5. CASE Take
  BY <1>5 DEF Take, StackInv, Open, Upstream
<1>6. CASE UNCHANGED orderVars
  BY <1>6 DEF orderVars, StackInv, Open, Upstream
<1>7. QED BY <1>1, <1>2, <1>3, <1>4, <1>5, <1>6 DEF OrderNext

-----------------------------------------------------------------------------
LEMMA LookedStep ==
  ASSUME OrderTypeOK, StackInv, LookedInv, [OrderNext]_orderVars
  PROVE  LookedInv'
<1>1. CASE VisitRoot
  <2>0. /\ UNCHANGED <<modules, looked, walk>> /\ root \in Members /\ stack = <<>>
        /\ (state[root] = "new" /\ Enter(root)) \/ UNCHANGED <<state, stack>>
    BY <1>1 DEF VisitRoot
  <2>1. CASE UNCHANGED <<state, stack>>
    BY <2>0, <2>1 DEF LookedInv
  <2>2. CASE state[root] = "new" /\ Enter(root)
    <3>1. DOMAIN stack' = {1} /\ stack'[1] = root /\ looked[root] = 0
      BY <2>0, <2>2, EnterStack DEF LookedInv
    <3>2. \A x \in Members : state'[x] = IF x = root THEN "open" ELSE state[x]
      BY <2>0, <2>2, EnterStack
    <3>3. QED BY <2>0, <3>1, <3>2 DEF LookedInv
  <2>3. QED BY <2>0, <2>1, <2>2
<1>2. CASE VisitModule
  <2> USE <1>2, NextIsUpstream
  <2>1. \A m \in Members : looked'[m] <= Len(modules'[m])
    BY DEF VisitModule, LookedInv, OrderTypeOK
  <2>2. state[Top] = "open" /\ Len(stack) \in DOMAIN stack
    BY TopInStack DEF StackInv, Open, VisitModule, Top
  <2>3. CASE state[NextModule] = "open" /\ walk' = "cycle" /\ UNCHANGED <<state, stack>>
    BY <2>1, <2>2, <2>3 DEF LookedInv
  <2>4. CASE state[NextModule] = "done" /\ UNCHANGED <<state, stack, walk, cycle>>
    <3>1. ASSUME NEW k \in DOMAIN stack, NEW i \in 1..looked'[stack[k]]
          PROVE  \/ state[modules[stack[k]][i]] = "done"
                 \/ k + 1 \in DOMAIN stack /\ stack[k + 1] = modules[stack[k]][i]
      <4>0. stack[k] \in Members /\ looked[stack[k]] \in Nat
        BY DEF OrderTypeOK
      <4>1. CASE stack[k] = Top /\ i = looked[Top] + 1
        BY <2>4, <4>1
      <4>2. CASE i \in 1..looked[stack[k]]
        BY <4>2 DEF LookedInv, VisitModule
      <4>3. looked'[stack[k]] = IF stack[k] = Top THEN looked[stack[k]] + 1 ELSE looked[stack[k]]
        BY <4>0
      <4>4. i \in 1..looked[stack[k]] \/ (stack[k] = Top /\ i = looked[Top] + 1)
        BY ONLY <3>1, <4>0, <4>3
      <4>5. QED BY <4>1, <4>2, <4>4
    <3>2. QED BY <2>1, <2>2, <2>4, <3>1 DEF LookedInv
  <2>5. CASE state[NextModule] = "new" /\ Enter(NextModule) /\ UNCHANGED <<walk, cycle>>
    <3> USE <2>5, EnterStack
    <3>1. ASSUME NEW k \in DOMAIN stack', NEW i \in 1..looked'[stack'[k]]
          PROVE  \/ state'[modules[stack'[k]][i]] = "done"
                 \/ k + 1 \in DOMAIN stack' /\ stack'[k + 1] = modules[stack'[k]][i]
      <4>1. CASE k = Len(stack) + 1
        BY <2>2, <3>1, <4>1 DEF LookedInv
      <4>2. CASE k \in DOMAIN stack
        <5>0. stack'[k] = stack[k] /\ stack[k] \in Members
          BY <4>2 DEF OrderTypeOK
        <5>1. CASE stack[k] = Top /\ i = looked[Top] + 1
          <6>1. k = Len(stack)
            BY <2>2, <4>2, <5>1 DEF StackInv
          <6>2. QED BY <5>0, <5>1, <6>1
        <5>2. CASE i \in 1..looked[stack[k]]
          <6>1. \/ state[modules[stack[k]][i]] = "done"
                \/ k + 1 \in DOMAIN stack /\ stack[k + 1] = modules[stack[k]][i]
            BY <4>2, <5>2 DEF LookedInv, VisitModule
          <6>2. modules[stack[k]][i] \in Members
            BY <5>0, <5>2 DEF LookedInv, OrderTypeOK
          <6>3. QED BY <4>2, <5>0, <6>1, <6>2
        <5>3. looked'[stack[k]] = IF stack[k] = Top THEN looked[stack[k]] + 1 ELSE looked[stack[k]]
          BY <5>0
        <5>4. looked[stack[k]] \in Nat
          BY <5>0 DEF OrderTypeOK
        <5>5. i \in 1..looked[stack[k]] \/ (stack[k] = Top /\ i = looked[Top] + 1)
          BY ONLY <3>1, <5>0, <5>3, <5>4
        <5>6. QED BY <5>1, <5>2, <5>5
      <4>3. QED BY <4>1, <4>2
    <3>2. \A m \in Members : state'[m] = "new" => looked'[m] = 0
      BY <2>2 DEF LookedInv
    <3>3. QED BY <2>1, <3>1, <3>2 DEF LookedInv
  <2>6. QED BY <2>3, <2>4, <2>5, VisitModuleCases
<1>3. CASE Leave
  <2> USE <1>3, LeaveStack
  <2>0. UNCHANGED <<modules, looked, walk>> /\ walk = "visit"
    BY DEF Leave
  <2>1. ASSUME NEW k \in DOMAIN stack', NEW i \in 1..looked[stack'[k]]
        PROVE  \/ state'[modules[stack'[k]][i]] = "done"
               \/ k + 1 \in DOMAIN stack' /\ stack'[k + 1] = modules[stack'[k]][i]
    <3>0. k \in 1..(Len(stack) - 1) /\ k \in DOMAIN stack
      <4>1. DOMAIN stack' = 1..(Len(stack) - 1)
        OBVIOUS
      <4>2. Len(stack) \in Nat \ {0} /\ DOMAIN stack = 1..Len(stack)
        OBVIOUS
      <4>3. k \in DOMAIN stack'
        BY ONLY <2>1
      <4>4. QED BY ONLY <4>1, <4>2, <4>3
    <3>1. k \in DOMAIN stack /\ stack'[k] = stack[k] /\ stack[k] \in Members
      <4>1. stack'[k] = stack[k]
        BY <3>0
      <4>2. stack \in Seq(Members)
        BY DEF OrderTypeOK
      <4>3. stack[k] \in Members
        BY ONLY <3>0, <4>2
      <4>4. QED BY ONLY <3>0, <4>1, <4>3
    <3>2. \/ state[modules[stack[k]][i]] = "done"
          \/ k + 1 \in DOMAIN stack /\ stack[k + 1] = modules[stack[k]][i]
      BY <2>0, <2>1, <3>1 DEF LookedInv
    <3>3. modules[stack[k]][i] \in Members
      BY <2>1, <3>1 DEF LookedInv, OrderTypeOK
    <3>4. QED BY <3>1, <3>2, <3>3
  <2>2. QED BY <2>0, <2>1 DEF LookedInv
<1>4. CASE NoCycle
  BY <1>4 DEF NoCycle, LookedInv
<1>5. CASE Take
  BY <1>5 DEF Take, LookedInv
<1>6. CASE UNCHANGED orderVars
  BY <1>6 DEF orderVars, LookedInv
<1>7. QED BY <1>1, <1>2, <1>3, <1>4, <1>5, <1>6 DEF OrderNext
-----------------------------------------------------------------------------
\* The member the walk leaves has looked at all its modules; each is done.
LEMMA LeftAllDone ==
  ASSUME OrderTypeOK, LookedInv, Leave
  PROVE  \A u \in Upstream(Top) : state[u] = "done"
<1>1. SUFFICES ASSUME NEW i \in DOMAIN modules[Top]
               PROVE  state[modules[Top][i]] = "done"
  BY DEF Upstream
<1>2. Top \in Members /\ Len(stack) \in Nat \ {0} /\ DOMAIN stack = 1..Len(stack)
      /\ Top = stack[Len(stack)]
  BY LeaveStack
<1>3. walk = "visit" /\ looked[Top] = Len(modules[Top])
  BY DEF Leave
<1>4. i \in 1..looked[Top]
  BY <1>2, <1>3 DEF OrderTypeOK
<1>5. Len(stack) \in DOMAIN stack /\ Len(stack) + 1 \notin DOMAIN stack
  BY <1>2
<1>6. QED BY <1>2, <1>3, <1>4, <1>5 DEF LookedInv

LEMMA RankStep ==
  ASSUME OrderTypeOK, StackInv, LookedInv, RankInv, [OrderNext]_orderVars
  PROVE  RankInv'
<1>0. PICK rank \in [Members -> Nat], n \in Nat : Ranked(rank, n)
  BY DEF RankInv
<1>u. \A m \in Members : Upstream(m) \subseteq Members
  BY DEF Upstream, OrderTypeOK
<1>k. ASSUME UNCHANGED modules,
             \A m \in Members : (state'[m] = "done") <=> (state[m] = "done")
      PROVE  RankInv'
  <2>1. Ranked(rank, n)'
    BY <1>0, <1>u, <1>k DEF Ranked, Upstream
  <2>2. QED BY <2>1 DEF RankInv
<1>1. CASE VisitRoot
  <2>1. UNCHANGED modules /\ root \in Members
        /\ (UNCHANGED <<state, stack>> \/ (state[root] = "new" /\ Enter(root)))
    BY <1>1 DEF VisitRoot
  <2>2. QED BY <1>k, <2>1, EnterStack
<1>2. CASE VisitModule
  <2>1. UNCHANGED modules /\ NextModule \in Members
        /\ (UNCHANGED <<state, stack>> \/ (state[NextModule] = "new" /\ Enter(NextModule)))
    BY <1>2, NextIsUpstream, VisitModuleCases
  <2>2. QED BY <1>k, <2>1, EnterStack
<1>3. CASE Leave
  <2>0. PICK above \in [Members -> Nat] : above = [rank EXCEPT ![Top] = n]
    BY <1>0
  <2>a. PICK most \in Nat : most = n + 1
    BY <1>0
  <2>1. UNCHANGED modules /\ walk = "visit"
    BY <1>3 DEF Leave
  <2>2. Top \in Members /\ state[Top] = "open"
    BY <1>3, LeaveStack DEF StackInv, Open
  <2>3. \A x \in Members : state'[x] = IF x = Top THEN "done" ELSE state[x]
    BY <1>3, LeaveStack
  <2>4. \A x \in Members : above[x] = IF x = Top THEN n ELSE rank[x]
    BY <1>0, <2>0
  <2>5. ASSUME NEW m \in Members, state'[m] = "done"
        PROVE  above[m] < n + 1
               /\ \A u \in Upstream(m) : state'[u] = "done" /\ above[u] < above[m]
    <3>1. CASE m = Top
      <4>1. above[m] = n /\ n \in Nat
        BY <1>0, <2>4, <3>1
      <4>2. ASSUME NEW u \in Upstream(Top) PROVE state'[u] = "done" /\ above[u] < n
        <5>1. u \in Members /\ state[u] = "done"
          BY <1>3, <1>u, <2>2, <4>2, LeftAllDone
        <5>2. u # Top
          BY <2>2, <5>1
        <5>3. QED BY <1>0, <2>3, <2>4, <5>1, <5>2 DEF Ranked
      <4>3. QED BY <3>1, <4>1, <4>2
    <3>2. CASE m # Top
      <4>1. state[m] = "done" /\ rank[m] < n /\ above[m] = rank[m]
        BY <1>0, <2>3, <2>4, <2>5, <3>2 DEF Ranked
      <4>2. ASSUME NEW u \in Upstream(m) PROVE state'[u] = "done" /\ above[u] < rank[m]
        <5>1. u \in Members /\ state[u] = "done" /\ rank[u] < rank[m]
          BY <1>0, <1>u, <4>1, <4>2 DEF Ranked
        <5>2. u # Top
          BY <2>2, <5>1
        <5>3. QED BY <2>3, <2>4, <5>1, <5>2
      <4>3. above[m] \in Nat /\ rank[m] \in Nat /\ n \in Nat
        BY <1>0, <4>1
      <4>4. QED BY <4>1, <4>2, <4>3
    <3>3. QED BY <3>1, <3>2
  <2>6. \A m \in Members : Upstream(m)' = Upstream(m)
    BY <2>1 DEF Upstream
  <2>7. Ranked(above, most)'
    BY <2>5, <2>6, <2>a DEF Ranked
  <2>8. QED BY <2>0, <2>a, <2>7 DEF RankInv
<1>4. CASE NoCycle
  BY <1>4, <1>k DEF NoCycle
<1>5. CASE Take
  BY <1>5, <1>k DEF Take
<1>6. CASE UNCHANGED orderVars
  BY <1>6, <1>k DEF orderVars
<1>7. QED BY <1>1, <1>2, <1>3, <1>4, <1>5, <1>6 DEF OrderNext

LEMMA RootStep ==
  ASSUME OrderTypeOK, StackInv, RootInv, [OrderNext]_orderVars
  PROVE  RootInv'
<1>0. Members \subseteq Nat /\ root \in Nat \ {0}
  BY HowMany DEF OrderTypeOK
<1>1. CASE VisitRoot
  <2>1. /\ UNCHANGED walk /\ walk = "visit" /\ root \in Members /\ root' = root + 1
        /\ (UNCHANGED <<state, stack>> /\ state[root] # "new") \/ Enter(root)
    BY <1>1 DEF VisitRoot
  <2>2. ASSUME NEW m \in Members, m < root' PROVE state'[m] # "new"
    <3>1. m < root \/ m = root
      BY <1>0, <2>1, <2>2
    <3>2. CASE UNCHANGED <<state, stack>> /\ state[root] # "new"
      BY <3>1, <3>2 DEF RootInv
    <3>3. CASE Enter(root)
      BY <2>1, <3>1, <3>3, EnterStack DEF RootInv
    <3>4. QED BY <2>1, <3>2, <3>3
  <2>3. QED BY <2>1, <2>2 DEF RootInv
<1>2. CASE VisitModule
  <2>1. UNCHANGED root /\ NextModule \in Members /\ walk' \in {"visit", "cycle"}
    BY <1>2, NextIsUpstream DEF VisitModule
  <2>2. UNCHANGED <<state, stack>> \/ Enter(NextModule)
    BY <1>2, VisitModuleCases
  <2>3. \A m \in Members : state[m] # "new" => state'[m] # "new"
    BY <2>1, <2>2, EnterStack
  <2>4. QED BY <2>1, <2>3 DEF RootInv
<1>3. CASE Leave
  <2>1. UNCHANGED <<root, walk>> /\ walk = "visit"
    BY <1>3 DEF Leave
  <2>2. QED BY <1>3, <2>1, LeaveStack DEF RootInv
<1>4. CASE NoCycle
  <2>1. root \notin Members /\ stack = <<>> /\ UNCHANGED <<state, stack, root>>
    BY <1>4 DEF NoCycle
  <2>2. \A m \in Members : m < root
    BY <1>0, <2>1, HowMany
  <2>3. \A m \in Members : state[m] # "open"
    BY <2>1 DEF StackInv, Open
  <2>4. \A m \in Members : state[m] = "done"
    BY <2>2, <2>3 DEF RootInv, OrderTypeOK
  <2>5. QED BY <2>1, <2>4 DEF RootInv
<1>5. CASE Take
  BY <1>5 DEF Take, RootInv
<1>6. CASE UNCHANGED orderVars
  BY <1>6 DEF orderVars, RootInv
<1>7. QED BY <1>1, <1>2, <1>3, <1>4, <1>5, <1>6 DEF OrderNext

-----------------------------------------------------------------------------
\* While members are left, one of them is ready: the one of least rank.
LEMMA SomeReady ==
  ASSUME OrderTypeOK, RankInv, RootInv, TakenInv, Take
  PROVE  Ready # {}
<1>1. walk = "take" /\ \A m \in Members : state[m] = "done"
  BY DEF Take, RootInv
<1>2. Members \ Taken # {}
  <2>1. Taken \subseteq Members
    BY DEF Taken, OrderTypeOK
  <2>2. Cardinality(Taken) # Cardinality(Members)
    BY <1>1, HowMany DEF TakenInv, OrderTypeOK
  <2>3. Taken # Members
    BY <2>2
  <2>4. QED BY <2>1, <2>3
<1>3. PICK rank \in [Members -> Nat], n \in Nat : Ranked(rank, n)
  BY DEF RankInv
<1>4. PICK m \in Members \ Taken : \A k \in Members \ Taken : rank[m] <= rank[k]
  BY <1>2, LeastRank
<1>5. Upstream(m) \subseteq Members
  BY DEF Upstream, OrderTypeOK
<1>6. ASSUME NEW u \in Upstream(m) PROVE u \in Taken
  <2>1. rank[u] < rank[m] /\ u \in Members
    BY <1>1, <1>3, <1>5, <1>6 DEF Ranked
  <2>2. rank[u] \in Nat /\ rank[m] \in Nat
    BY <2>1
  <2>3. QED BY <1>4, <2>1, <2>2
<1>7. QED BY <1>6 DEF Ready

LEMMA TakeAddsReady ==
  ASSUME OrderTypeOK, RankInv, RootInv, TakenInv, Take
  PROVE  /\ Earliest \in Members \ Taken /\ Upstream(Earliest) \subseteq Taken
         /\ Len(order) \in Nat /\ DOMAIN order = 1..Len(order)
         /\ DOMAIN order' = 1..(Len(order) + 1) /\ Len(order') = Len(order) + 1
         /\ order'[Len(order) + 1] = Earliest
         /\ \A i \in DOMAIN order : order'[i] = order[i]
         /\ UNCHANGED modules
<1>1. Earliest \in Ready
  BY SomeReady, EarliestIsMember
<1>2. Earliest \in Members \ Taken /\ Upstream(Earliest) \subseteq Taken
  BY <1>1 DEF Ready
<1>3. order' = Append(order, Earliest) /\ UNCHANGED modules
  BY DEF Take
<1>4. QED BY <1>2, <1>3 DEF OrderTypeOK

LEMMA TakenStep ==
  ASSUME OrderTypeOK, RankInv, RootInv, TakenInv, [OrderNext]_orderVars
  PROVE  TakenInv'
<1>a. ASSUME UNCHANGED order, walk' = "take" => Len(order) < Cardinality(Members),
             walk' \in {"visit", "cycle"} => order = <<>>
      PROVE  TakenInv'
  BY <1>a DEF TakenInv, Taken
<1>1. CASE VisitRoot
  BY <1>1, <1>a DEF VisitRoot, TakenInv
<1>2. CASE VisitModule
  BY <1>2, <1>a DEF VisitModule, TakenInv
<1>3. CASE Leave
  BY <1>3, <1>a DEF Leave, TakenInv
<1>4. CASE NoCycle
  <2>1. order = <<>> /\ UNCHANGED order
    BY <1>4 DEF NoCycle, TakenInv
  <2>2. Len(order) < Cardinality(Members)
    BY <2>1, HowMany
  <2>3. QED BY <1>4, <1>a, <2>1, <2>2 DEF NoCycle
<1>5. CASE Take
  <2> USE <1>5, TakeAddsReady
  <2>1. Taken' = Taken \cup {Earliest}
    BY DEF Taken
  <2>2. IsFiniteSet(Taken') /\ Cardinality(Taken') = Cardinality(Taken) + 1
    BY <2>1, FS_AddElement DEF TakenInv
  <2>3. /\ walk' \in {"take", "ordered"}
        /\ walk' = "take" => Len(order') # Cardinality(Members)
        /\ Len(order) < Cardinality(Members)
    BY DEF Take, TakenInv
  <2>4. Len(order') \in Nat /\ Cardinality(Members) \in Nat
    BY HowMany
  <2>5. walk' = "take" => Len(order') < Cardinality(Members)
    BY <2>3, <2>4
  <2>6. QED BY <2>2, <2>3, <2>5 DEF TakenInv
<1>6. CASE UNCHANGED orderVars
  BY <1>6 DEF orderVars, TakenInv, Taken
<1>7. QED BY <1>1, <1>2, <1>3, <1>4, <1>5, <1>6 DEF OrderNext

LEMMA BuildableStep ==
  ASSUME OrderTypeOK, RankInv, RootInv, TakenInv, BuildableOrder, [OrderNext]_orderVars
  PROVE  BuildableOrder'
<1>1. CASE Take
  <2> USE <1>1, TakeAddsReady
  <2>1. ASSUME NEW i \in DOMAIN order'
        PROVE  /\ (Upstream(order[i]) \subseteq {order[j] : j \in 1..(i - 1)})'
               /\ \A j \in 1..(i - 1) : order'[j] # order'[i]
    <3>1. CASE i = Len(order) + 1
      <4>1. {order'[j] : j \in 1..(i - 1)} = Taken
        BY <3>1 DEF Taken
      <4>2. PICK e \in Members : e = Earliest
        OBVIOUS
      <4>3. \A j \in 1..(i - 1) : order'[j] \in Taken
        BY <3>1 DEF Taken
      <4>4. order'[i] = e /\ e \notin Taken /\ Upstream(e) \subseteq Taken
        BY <3>1, <4>2
      <4>5. Upstream(e)' = Upstream(e)
        BY DEF Upstream
      <4>6. Upstream(order[i])' = Upstream(e)'
        BY <4>4 DEF Upstream
      <4>7. QED BY <4>1, <4>3, <4>4, <4>5, <4>6
    <3>2. CASE i \in DOMAIN order
      <4>2. Upstream(order[i]) \subseteq {order[j] : j \in 1..(i - 1)}
            /\ \A j \in 1..(i - 1) : order[j] # order[i]
        BY <3>2 DEF BuildableOrder
      <4>3. order'[i] = order[i] /\ \A j \in 1..(i - 1) : order'[j] = order[j]
        BY <3>2
      <4>4. Upstream(order[i])' = Upstream(order[i])
        BY <4>3 DEF Upstream
      <4>5. {order'[j] : j \in 1..(i - 1)} = {order[j] : j \in 1..(i - 1)}
        BY <4>3
      <4>6. QED BY <4>2, <4>3, <4>4, <4>5
    <3>3. QED BY <3>1, <3>2
  <2>2. QED BY <2>1 DEF BuildableOrder
<1>2. CASE UNCHANGED <<modules, order>>
  BY <1>2 DEF BuildableOrder, Upstream
<1>3. QED BY <1>1, <1>2
       DEF OrderNext, VisitRoot, VisitModule, Leave, NoCycle, orderVars

\* What closes the cycle is a module of the last member of the stack.
LEMMA CycleStep ==
  ASSUME OrderTypeOK, StackInv, CycleIsReal, [OrderNext]_orderVars
  PROVE  CycleIsReal'
<1>1. CASE VisitModule /\ walk' = "cycle"
  <2> USE <1>1, NextIsUpstream
  <2>1. PICK k \in DOMAIN stack : stack[k] = NextModule /\ cycle' = CycleFrom(k)
    BY VisitModuleCases DEF VisitModule
  <2>a. Len(stack) \in Nat /\ DOMAIN stack = 1..Len(stack) /\ stack \in Seq(Members)
    BY DEF OrderTypeOK
  <2>b. k \in 1..Len(stack)
    BY <2>1, <2>a
  <2>c. PICK n \in Nat : n = Len(stack) - k + 1
    BY <2>a, <2>b
  <2>2. n \in Nat \ {0} /\ k \in Nat \ {0} /\ Len(stack) = k + n - 1
    BY <2>a, <2>b, <2>c
  <2>3. /\ Len(cycle') = n + 1
        /\ \A i \in 1..n : cycle'[i] = stack[k + i - 1]
        /\ cycle'[n + 1] = NextModule
    <3>1. SubSeq(stack, k, Len(stack)) \in Seq(Members)
          /\ Len(SubSeq(stack, k, Len(stack))) = n
          /\ \A i \in 1..n : SubSeq(stack, k, Len(stack))[i] = stack[k + i - 1]
      BY ONLY <2>2, <2>a, <2>b, SMTT(30)
    <3>2. QED BY <2>1, <2>2, <3>1 DEF CycleFrom
  <2>4. ASSUME NEW i \in 1..n PROVE cycle'[i + 1] \in Upstream(cycle'[i])
    <3>1. CASE i = n
      BY <2>2, <2>3, <3>1
    <3>2. CASE i # n
      <4>1. i + 1 \in 1..n /\ k + i \in DOMAIN stack /\ k + i > 1
            /\ (k + i) - 1 = k + i - 1 /\ k + (i + 1) - 1 = k + i
        BY <2>2, <2>a, <3>2
      <4>2. stack[k + i] \in Upstream(stack[(k + i) - 1])
        BY <4>1 DEF StackInv
      <4>3. cycle'[i] = stack[k + i - 1] /\ cycle'[i + 1] = stack[k + i]
        BY <2>3, <4>1
      <4>4. QED BY <4>1, <4>2, <4>3
    <3>3. QED BY <3>1, <3>2
  <2>5. Len(cycle') > 1 /\ cycle'[1] = cycle'[Len(cycle')]
    BY <2>1, <2>2, <2>3
  <2>6. \A i \in 1..(Len(cycle') - 1) : (cycle[i + 1] \in Upstream(cycle[i]))'
    BY <2>2, <2>3, <2>4 DEF Upstream
  <2>7. QED BY <2>5, <2>6 DEF CycleIsReal
<1>2. CASE walk' # "cycle"
  BY <1>2 DEF CycleIsReal
<1>3. CASE UNCHANGED <<modules, walk, cycle>>
  BY <1>3 DEF CycleIsReal, Upstream
<1>4. QED BY <1>1, <1>2, <1>3
       DEF OrderNext, VisitRoot, Leave, NoCycle, Take, orderVars

-----------------------------------------------------------------------------
LEMMA IInvInit == OrderInit => IInv
<1> SUFFICES ASSUME OrderInit PROVE IInv
  OBVIOUS
<1>1. OrderTypeOK
  BY TypeInit
<1>2. StackInv /\ LookedInv
  BY <1>1 DEF OrderInit, StackInv, LookedInv, Open, OrderTypeOK
<1>3. RankInv
  <2>1. Ranked([m \in Members |-> 0], 0)
    BY DEF OrderInit, Ranked
  <2>2. QED BY <2>1 DEF RankInv
<1>4. RootInv
  BY HowMany DEF OrderInit, RootInv
<1>5. TakenInv
  <2>1. Taken = {} /\ Len(order) = 0
    BY DEF OrderInit, Taken
  <2>2. QED BY <2>1, FS_EmptySet DEF OrderInit, TakenInv
<1>6. BuildableOrder /\ CycleIsReal
  BY DEF OrderInit, BuildableOrder, CycleIsReal
<1>7. QED BY <1>1, <1>2, <1>3, <1>4, <1>5, <1>6 DEF IInv

LEMMA IInvStep == IInv /\ [OrderNext]_orderVars => IInv'
  BY TypeStep, StackStep, LookedStep, RankStep, RootStep, TakenStep,
     BuildableStep, CycleStep DEF IInv

LEMMA OrderIInv == OrderSpec => []IInv
  BY IInvInit, IInvStep, PTL DEF OrderSpec

\* The variables of build_order keep their types: what the walk and Kahn's
\* loop hold are members.
THEOREM OrderTyped == OrderSpec => []OrderTypeOK
<1>1. IInv => OrderTypeOK
  BY DEF IInv
<1>2. QED BY <1>1, OrderIInv, PTL

\* build_order answers an order to build in, whatever the modules: a member is
\* taken once and after all it depends on, and `unwrap_or(0)` answers nothing.
THEOREM OrderIsBuildable == OrderSpec => []BuildableOrder
<1>1. IInv => BuildableOrder
  BY DEF IInv
<1>2. QED BY <1>1, OrderIInv, PTL

\* build_order refuses only a workspace with a cycle, and names one.
THEOREM RefusedForACycle == OrderSpec => []CycleIsReal
<1>1. IInv => CycleIsReal
  BY DEF IInv
<1>2. QED BY <1>1, OrderIInv, PTL

-----------------------------------------------------------------------------
LEMMA FirstIsLeast ==
  ASSUME NEW S \in SUBSET Nat, S # {}
  PROVE  First(S) \in S /\ \A j \in S : First(S) <= j
<1>1. PICK i \in S : \A j \in S : ~(<<j, i>> \in OpToRel(<, Nat))
  BY NatLessThanWellFounded, WFMin
<1>2. \A j \in S : i <= j
  <2>1. SUFFICES ASSUME NEW j \in S, j < i PROVE FALSE
    OBVIOUS
  <2>2. <<j, i>> \in OpToRel(<, Nat)
    BY <2>1 DEF OpToRel
  <2> QED BY <1>1, <2>2
<1> QED BY <1>2 DEF First

LEMMA Items ==
  ASSUME NEW v \in Version, NEW i \in Nat
  PROVE  /\ At(v, i) \in Number \cup Word \cup {Missing}
         /\ i \notin DOMAIN v => At(v, i) = Missing
  BY DEF Version, At

LEMMA ItemsAgree ==
  ASSUME NEW a \in Number \cup Word \cup {Missing}, NEW b \in Number \cup Word \cup {Missing}
  PROVE  CompareItems(a, b) \in {-1, 0, 1} /\ CompareItems(b, a) = 0 - CompareItems(a, b)
<1>1. /\ a.kind \in {"number", "word", "missing"} /\ a.of \in Nat
      /\ b.kind \in {"number", "word", "missing"} /\ b.of \in Nat
  BY DEF Number, Word, Missing
<1>2. a.kind = "missing" => a.of = 0
  BY DEF Number, Word, Missing
<1>3. b.kind = "missing" => b.of = 0
  BY DEF Number, Word, Missing
<1> QED BY <1>1, <1>2, <1>3 DEF CompareItems, Sign, Null, Release

LEMMA DifferIsNat ==
  ASSUME NEW v \in Version, NEW w \in Version
  PROVE  /\ Differ(v, w) \subseteq Nat
         /\ \A i \in Nat : i \in Differ(v, w) <=> CompareItems(At(v, i), At(w, i)) # 0
<1>1. DOMAIN v \subseteq Nat /\ DOMAIN w \subseteq Nat
  BY DEF Version
<1>2. CompareItems(Missing, Missing) = 0
  BY DEF CompareItems, Missing, Sign
<1> QED BY <1>1, <1>2 DEF Differ, At

\* Which of two versions is newer does not depend on which is asked about:
\* what `jrs outdated` calls newer, nothing calls older.
THEOREM ComparisonAgrees ==
  ASSUME NEW v \in Version, NEW w \in Version
  PROVE  /\ CompareVersions(v, w) \in {-1, 0, 1}
         /\ CompareVersions(w, v) = 0 - CompareVersions(v, w)
<1>1. \A i \in Nat : /\ CompareItems(At(v, i), At(w, i)) \in {-1, 0, 1}
                     /\ CompareItems(At(w, i), At(v, i)) = 0 - CompareItems(At(v, i), At(w, i))
  BY Items, ItemsAgree
<1>2. Differ(v, w) \subseteq Nat /\ Differ(v, w) = Differ(w, v)
  <2>1. Differ(v, w) \subseteq Nat /\ Differ(w, v) \subseteq Nat
    BY DifferIsNat
  <2>2. \A i \in Nat : i \in Differ(v, w) <=> CompareItems(At(v, i), At(w, i)) # 0
    BY DifferIsNat
  <2>3. \A i \in Nat : i \in Differ(w, v) <=> CompareItems(At(w, i), At(v, i)) # 0
    BY DifferIsNat
  <2>4. \A i \in Nat : i \in Differ(v, w) <=> i \in Differ(w, v)
    BY <1>1, <2>2, <2>3
  <2> QED BY <2>1, <2>4
<1>3. CASE Differ(v, w) = {}
  <2>1. CompareVersions(v, w) = 0 /\ CompareVersions(w, v) = 0
    BY <1>2, <1>3 DEF CompareVersions
  <2> QED BY <2>1
<1>4. CASE Differ(v, w) # {}
  BY <1>1, <1>2, <1>4, FirstIsLeast DEF CompareVersions
<1> QED BY <1>3, <1>4

-----------------------------------------------------------------------------
(* Versions that are numbers only.                                         *)

Size(v, i) == IF i \in DOMAIN v THEN v[i].of ELSE 0

LEMMA PlainItems ==
  ASSUME NEW v \in Plain, NEW w \in Plain, NEW i \in Nat
  PROVE  /\ Size(v, i) \in Nat /\ Size(w, i) \in Nat
         /\ CompareItems(At(v, i), At(w, i)) = Sign(Size(v, i), Size(w, i))
<1>1. /\ i \in DOMAIN v => v[i] \in Number
      /\ i \in DOMAIN w => w[i] \in Number
  BY DEF Plain
<1>2. \A a \in Number : a.kind = "number" /\ a.of \in Nat
  BY DEF Number
<1> QED BY <1>1, <1>2 DEF Size, At, CompareItems, Missing, Null

LEMMA PlainCompare ==
  ASSUME NEW v \in Plain, NEW w \in Plain
  PROVE  \/ /\ CompareVersions(v, w) = 0
            /\ \A i \in Nat : Size(v, i) = Size(w, i)
         \/ \E i \in Nat : /\ CompareVersions(v, w) = Sign(Size(v, i), Size(w, i))
                           /\ Size(v, i) # Size(w, i)
                           /\ \A j \in Nat : j < i => Size(v, j) = Size(w, j)
<1>1. v \in Version /\ w \in Version
  BY DEF Version, Plain
<1>2. \A i \in Nat : i \in Differ(v, w) <=> Size(v, i) # Size(w, i)
  BY <1>1, DifferIsNat, PlainItems DEF Sign
<1>3. CASE Differ(v, w) = {}
  BY <1>2, <1>3 DEF CompareVersions
<1>4. CASE Differ(v, w) # {}
  <2> DEFINE i == First(Differ(v, w))
  <2>1. i \in Differ(v, w) /\ i \in Nat /\ \A j \in Differ(v, w) : i <= j
    BY <1>1, <1>4, DifferIsNat, FirstIsLeast
  <2>2. CompareVersions(v, w) = Sign(Size(v, i), Size(w, i))
    BY <1>4, <2>1, PlainItems DEF CompareVersions
  <2>3. \A j \in Nat : j < i => Size(v, j) = Size(w, j)
    BY <1>2, <2>1
  <2> QED BY <1>2, <2>1, <2>2, <2>3
<1> QED BY <1>3, <1>4

\* Among releases written in numbers alone the comparison is an order:
\* nothing is newer than what is newer than itself, so the newest of a list
\* is newer than all of it, wherever it stands.
THEOREM ReleasesAreOrdered ==
  ASSUME NEW u \in Plain, NEW v \in Plain, NEW w \in Plain,
         CompareVersions(u, v) <= 0, CompareVersions(v, w) <= 0
  PROVE  CompareVersions(u, w) <= 0
<1> DEFINE Less(x, y, i) == /\ Size(x, i) < Size(y, i)
                            /\ \A j \in Nat : j < i => Size(x, j) = Size(y, j)
           Equal(x, y) == \A i \in Nat : Size(x, i) = Size(y, i)
<1>1. ASSUME NEW x \in Plain, NEW y \in Plain
      PROVE  CompareVersions(x, y) <= 0 <=> Equal(x, y) \/ \E i \in Nat : Less(x, y, i)
  <2>1. \A i \in Nat : Size(x, i) \in Nat /\ Size(y, i) \in Nat
    BY PlainItems
  <2>2. CASE CompareVersions(x, y) = 0 /\ Equal(x, y)
    BY <2>2
  <2>3. ASSUME NEW i \in Nat, CompareVersions(x, y) = Sign(Size(x, i), Size(y, i)),
               Size(x, i) # Size(y, i), \A j \in Nat : j < i => Size(x, j) = Size(y, j)
        PROVE  CompareVersions(x, y) <= 0 <=> Equal(x, y) \/ \E k \in Nat : Less(x, y, k)
    <3>1. CASE Size(x, i) < Size(y, i)
      BY <2>1, <2>3, <3>1 DEF Sign
    <3>2. CASE Size(x, i) > Size(y, i)
      <4>1. CompareVersions(x, y) = 1
        BY <2>1, <2>3, <3>2 DEF Sign
      <4>2. ~Equal(x, y)
        BY <2>3
      <4>3. ASSUME NEW k \in Nat, Less(x, y, k) PROVE FALSE
        <5>1. CASE k < i
          BY <2>1, <2>3, <4>3, <5>1
        <5>2. CASE k = i
          BY <2>1, <3>2, <4>3, <5>2
        <5>3. CASE i < k
          BY <2>3, <4>3, <5>3
        <5> QED BY <5>1, <5>2, <5>3
      <4> QED BY <4>1, <4>2, <4>3
    <3> QED BY <2>1, <2>3, <3>1, <3>2
  <2> QED BY <2>2, <2>3, PlainCompare
<1>2. \A i \in Nat : Size(u, i) \in Nat /\ Size(v, i) \in Nat /\ Size(w, i) \in Nat
  BY PlainItems
<1>3. CASE Equal(u, v)
  <2>1. \A i \in Nat : Less(v, w, i) => Less(u, w, i)
    BY <1>3
  <2> QED BY <1>1, <1>3, <2>1
<1>4. CASE Equal(v, w)
  <2>1. \A i \in Nat : Less(u, v, i) => Less(u, w, i)
    BY <1>4
  <2> QED BY <1>1, <1>4, <2>1
<1>5. ASSUME NEW i \in Nat, NEW k \in Nat, Less(u, v, i), Less(v, w, k)
      PROVE  \E j \in Nat : Less(u, w, j)
  <2>1. CASE i <= k
    <3>1. Size(u, i) < Size(w, i)
      BY <1>2, <1>5, <2>1
    <3>2. \A j \in Nat : j < i => Size(u, j) = Size(w, j)
      BY <1>5, <2>1
    <3> QED BY <3>1, <3>2
  <2>2. CASE k < i
    <3>1. Size(u, k) < Size(w, k)
      BY <1>2, <1>5, <2>2
    <3>2. \A j \in Nat : j < k => Size(u, j) = Size(w, j)
      BY <1>5, <2>2
    <3> QED BY <3>1, <3>2
  <2> QED BY <2>1, <2>2
<1> QED BY <1>1, <1>3, <1>4, <1>5

\* With words it is none: 1-sp1 is newer than 1, which is the same as 1.0,
\* which is newer than 1-sp1.  What is picked out of such a list depends on
\* how it is ordered.
THEOREM WordsGoRound ==
  \E u, v, w \in Version : /\ CompareVersions(u, v) = 1
                           /\ CompareVersions(v, w) = 0
                           /\ CompareVersions(w, u) = 1
<1> DEFINE one == [kind |-> "number", of |-> 1]
           zero == [kind |-> "number", of |-> 0]
           sp == [kind |-> "word", of |-> ServicePack]
           u == <<one, sp, one>>
           v == <<one>>
           w == <<one, zero>>
<1>1. u \in Version /\ v \in Version /\ w \in Version
  BY DEF Version, Number, Word, ServicePack
<1>2. /\ CompareItems(one, one) = 0 /\ CompareItems(sp, Missing) = 1
      /\ CompareItems(Missing, zero) = 0 /\ CompareItems(zero, sp) = 1
  BY DEF CompareItems, Missing, Sign, Null, Release, ServicePack
<1>3. /\ At(u, 1) = one /\ At(u, 2) = sp
      /\ At(v, 1) = one /\ At(v, 2) = Missing
      /\ At(w, 1) = one /\ At(w, 2) = zero
  BY DEF At
<1>4. /\ 1 \notin Differ(u, v) /\ 2 \in Differ(u, v)
      /\ 1 \notin Differ(w, u) /\ 2 \in Differ(w, u)
      /\ Differ(v, w) = {}
  BY <1>1, <1>2, <1>3 DEF Differ
<1>5. First(Differ(u, v)) = 2 /\ First(Differ(w, u)) = 2
  <2>1. Differ(u, v) \subseteq {1, 2, 3} /\ Differ(w, u) \subseteq {1, 2, 3}
    BY DEF Differ
  <2> QED BY <1>4, <2>1 DEF First
<1>6. /\ CompareVersions(u, v) = 1 /\ CompareVersions(v, w) = 0 /\ CompareVersions(w, u) = 1
  BY <1>2, <1>3, <1>4, <1>5 DEF CompareVersions
<1> QED BY <1>1, <1>6

-----------------------------------------------------------------------------
(* Recursion over the numbers.                                             *)

LEMMA Induct ==
  ASSUME NEW S \in SUBSET Nat, 0 \in S, \A n \in S : n + 1 \in S
  PROVE  S = Nat
<1>1. SUFFICES ASSUME Nat \ S # {} PROVE FALSE
  OBVIOUS
<1>2. PICK n \in Nat \ S : \A m \in Nat \ S : ~(<<m, n>> \in OpToRel(<, Nat))
  BY <1>1, NatLessThanWellFounded, WFMin
<1>3. n - 1 \in Nat /\ n - 1 \notin S
  <2>1. n \in Nat /\ n # 0
    BY <1>2
  <2>2. n - 1 \in Nat /\ (n - 1) + 1 = n
    BY <2>1
  <2>3. QED BY <1>2, <2>2
<1>4. <<n - 1, n>> \in OpToRel(<, Nat)
  BY <1>2, <1>3 DEF OpToRel
<1>5. QED BY <1>2, <1>3, <1>4

\* The first n steps of a recursion.
Beginnings(X, x, g, n) ==
  {h \in [0..n -> X] : h[0] = x /\ \A i \in 1..n : h[i] = g[i - 1][h[i - 1]]}

LEMMA SomeBeginning ==
  ASSUME NEW X, NEW x \in X, NEW g \in [Nat -> [X -> X]]
  PROVE  \A n \in Nat : Beginnings(X, x, g, n) # {}
<1> DEFINE S == {n \in Nat : Beginnings(X, x, g, n) # {}}
<1>1. 0 \in S
  <2>1. [i \in 0..0 |-> x] \in Beginnings(X, x, g, 0)
    BY DEF Beginnings
  <2>2. QED BY <2>1
<1>2. ASSUME NEW n \in S PROVE n + 1 \in S
  <2>1. PICK h \in [0..n -> X] :
          h[0] = x /\ \A i \in 1..n : h[i] = g[i - 1][h[i - 1]]
    BY <1>2 DEF Beginnings
  <2>2. n \in Nat /\ h[n] \in X /\ g[n][h[n]] \in X
    BY <2>1
  <2>3. PICK k \in [0..(n + 1) -> X] :
          \A i \in 0..(n + 1) : k[i] = IF i = n + 1 THEN g[n][h[n]] ELSE h[i]
    <3>1. \A i \in 0..(n + 1) : (IF i = n + 1 THEN g[n][h[n]] ELSE h[i]) \in X
      BY <2>1, <2>2
    <3>2. [i \in 0..(n + 1) |-> IF i = n + 1 THEN g[n][h[n]] ELSE h[i]] \in [0..(n + 1) -> X]
      BY <3>1
    <3>3. QED BY <3>2
  <2>4. k[0] = x
    BY <2>1, <2>2, <2>3
  <2>5. ASSUME NEW i \in 1..(n + 1) PROVE k[i] = g[i - 1][k[i - 1]]
    <3>1. k[i - 1] = h[i - 1]
      BY <2>2, <2>3
    <3>2. CASE i = n + 1
      BY <2>2, <2>3, <3>1, <3>2
    <3>3. CASE i # n + 1
      <4>1. i \in 1..n
        BY <2>2, <3>3
      <4>2. k[i] = h[i]
        BY <2>2, <2>3, <3>3
      <4>3. QED BY <2>1, <3>1, <4>1, <4>2
    <3>4. QED BY <3>2, <3>3
  <2>6. k \in Beginnings(X, x, g, n + 1)
    BY <2>2, <2>3, <2>4, <2>5 DEF Beginnings
  <2>7. QED BY <2>2, <2>6
<1>3. S = Nat
  BY <1>1, <1>2, Induct
<1>4. QED BY <1>3

-----------------------------------------------------------------------------
(* Reaching along edges.                                                   *)

Closed(E, X) == \A e \in E : e[1] \in X => e[2] \in X
Spread(E, S) == {b \in Artifacts : \A X \in SUBSET Artifacts : S \subseteq X /\ Closed(E, X) => b \in X}
Reach(E, a) == Spread(E, {a})

LEMMA ReachGrows ==
  ASSUME NEW E, NEW a \in Artifacts
  PROVE  /\ a \in Reach(E, a)
         /\ \A e \in E : e[1] \in Reach(E, a) /\ e[2] \in Artifacts => e[2] \in Reach(E, a)
         /\ \A F : E \subseteq F => Reach(E, a) \subseteq Reach(F, a)
  BY DEF Reach, Spread, Closed

LEMMA ReachIsLeast ==
  ASSUME NEW E, NEW a \in Artifacts, NEW X \in SUBSET Artifacts, a \in X, Closed(E, X)
  PROVE  Reach(E, a) \subseteq X
  BY DEF Reach, Spread

\* Path, which closes a set step by step, comes to the same.
More(E, S) == S \cup {e[2] : e \in {e \in E : e[1] \in S}}

LEMMA SpreadUnfolds ==
  ASSUME NEW E, \A e \in E : e[2] \in Artifacts, NEW S \in SUBSET Artifacts
  PROVE  Spread(E, S) = IF More(E, S) = S THEN S ELSE Spread(E, More(E, S))
<1>1. S \subseteq More(E, S) /\ More(E, S) \in SUBSET Artifacts
  BY DEF More
<1>2. \A X \in SUBSET Artifacts : Closed(E, X) => (S \subseteq X <=> More(E, S) \subseteq X)
  BY <1>1 DEF Closed, More
<1>3. Spread(E, S) = Spread(E, More(E, S))
  BY <1>2 DEF Spread
<1>4. ASSUME More(E, S) = S PROVE Spread(E, S) = S
  <2>1. Closed(E, S)
    BY <1>4 DEF Closed, More
  <2>2. QED BY <2>1 DEF Spread
<1>5. QED BY <1>3, <1>4

\* A set that grows at each step is closed before it runs out of artifacts.
LEMMA ClosureIsSpread ==
  ASSUME NEW E, \A e \in E : e[2] \in Artifacts,
         NEW f, \A S \in SUBSET Artifacts : f[S] = IF More(E, S) = S THEN S ELSE f[More(E, S)]
  PROVE  \A S \in SUBSET Artifacts : f[S] = Spread(E, S)
<1>0. IsFiniteSet(Artifacts)
  BY EffectivePomAssumption
<1> DEFINE N == {n \in Nat : \A S \in SUBSET Artifacts :
                   Cardinality(Artifacts \ S) <= n => f[S] = Spread(E, S)}
<1>1. ASSUME NEW S \in SUBSET Artifacts
      PROVE  /\ IsFiniteSet(Artifacts \ S) /\ Cardinality(Artifacts \ S) \in Nat
             /\ S \subseteq More(E, S) /\ More(E, S) \in SUBSET Artifacts
             /\ More(E, S) # S =>
                  Cardinality(Artifacts \ More(E, S)) < Cardinality(Artifacts \ S)
  <2>1. IsFiniteSet(Artifacts \ S) /\ Cardinality(Artifacts \ S) \in Nat
    BY <1>0, FS_Subset, FS_CardinalityType
  <2>2. S \subseteq More(E, S) /\ More(E, S) \in SUBSET Artifacts
    BY DEF More
  <2>3. ASSUME More(E, S) # S
        PROVE  Cardinality(Artifacts \ More(E, S)) < Cardinality(Artifacts \ S)
    <3>1. PICK A, B : A = Artifacts \ S /\ B = Artifacts \ More(E, S)
      OBVIOUS
    <3>2. B \in SUBSET A /\ B # A /\ IsFiniteSet(A) /\ Cardinality(A) \in Nat
      BY <2>1, <2>2, <2>3, <3>1
    <3>3. Cardinality(B) \in Nat /\ Cardinality(B) <= Cardinality(A)
          /\ Cardinality(B) # Cardinality(A)
      BY <3>2, FS_Subset, FS_CardinalityType
    <3>4. QED BY <3>1, <3>2, <3>3
  <2>4. QED BY <2>1, <2>2, <2>3
<1>2. 0 \in N
  <2>1. SUFFICES ASSUME NEW S \in SUBSET Artifacts, Cardinality(Artifacts \ S) <= 0
                 PROVE  f[S] = Spread(E, S)
    OBVIOUS
  <2>2. Cardinality(Artifacts \ S) \in Nat /\ More(E, S) \in SUBSET Artifacts
    BY <1>1
  <2>a. Cardinality(Artifacts \ More(E, S)) \in Nat
    BY <1>1, <2>2
  <2>3. More(E, S) = S
    BY <1>1, <2>1, <2>2, <2>a
  <2>4. QED BY <2>3, SpreadUnfolds
<1>3. ASSUME NEW n \in N PROVE n + 1 \in N
  <2>0. n \in Nat /\ \A S \in SUBSET Artifacts :
                        Cardinality(Artifacts \ S) <= n => f[S] = Spread(E, S)
    OBVIOUS
  <2>1. ASSUME NEW S \in SUBSET Artifacts, Cardinality(Artifacts \ S) <= n + 1,
               More(E, S) # S
        PROVE  f[S] = Spread(E, S)
    <3>1. More(E, S) \in SUBSET Artifacts /\ Cardinality(Artifacts \ S) \in Nat
      BY <1>1
    <3>a. Cardinality(Artifacts \ More(E, S)) \in Nat
      BY <1>1, <3>1
    <3>b. Cardinality(Artifacts \ More(E, S)) < Cardinality(Artifacts \ S)
      BY <1>1, <2>1
    <3>2. Cardinality(Artifacts \ More(E, S)) <= n
      BY <2>0, <2>1, <3>1, <3>a, <3>b
    <3>3. f[More(E, S)] = Spread(E, More(E, S))
      BY <2>0, <3>1, <3>2
    <3>4. QED BY <2>1, <3>3, SpreadUnfolds
  <2>2. ASSUME NEW S \in SUBSET Artifacts, More(E, S) = S
        PROVE  f[S] = Spread(E, S)
    BY <2>2, SpreadUnfolds
  <2>3. \A S \in SUBSET Artifacts :
          Cardinality(Artifacts \ S) <= n + 1 => f[S] = Spread(E, S)
    BY <2>1, <2>2
  <2>4. QED BY <2>0, <2>3
<1>4. N = Nat
  BY <1>2, <1>3, Induct
<1>5. QED
  <2>1. SUFFICES ASSUME NEW S \in SUBSET Artifacts PROVE f[S] = Spread(E, S)
    OBVIOUS
  <2>2. PICK n \in Nat : n = Cardinality(Artifacts \ S)
    BY <1>1
  <2>3. \A T \in SUBSET Artifacts : Cardinality(Artifacts \ T) <= n => f[T] = Spread(E, T)
    BY <1>4
  <2>4. n <= n
    OBVIOUS
  <2>5. QED BY <2>2, <2>3, <2>4

EdgesOK == \A e \in edges : e[1] \in DOMAIN selected /\ e[2] \in DOMAIN selected \cap Artifacts

LEMMA PathIsReach ==
  ASSUME EdgesOK, NEW a \in Artifacts
  PROVE  \A b : Path(a, b) <=> b \in Reach(edges, a)
<1> DEFINE Closure[S \in SUBSET Artifacts] ==
      LET T == S \cup {e[2] : e \in {e \in edges : e[1] \in S}}
      IN  IF T = S THEN S ELSE Closure[T]
<1>0. PICK E : E = edges
  OBVIOUS
<1>1. \A e \in E : e[2] \in Artifacts
  BY <1>0 DEF EdgesOK
<1>2. PICK f : f = [S \in SUBSET Artifacts |-> Spread(E, S)]
  OBVIOUS
<1>3. f = [S \in SUBSET Artifacts |-> IF More(E, S) = S THEN S ELSE f[More(E, S)]]
  <2>1. \A S \in SUBSET Artifacts : More(E, S) \in SUBSET Artifacts
    BY <1>1 DEF More
  <2>2. \A S \in SUBSET Artifacts : f[S] = IF More(E, S) = S THEN S ELSE f[More(E, S)]
    BY <1>1, <1>2, <2>1, SpreadUnfolds
  <2>3. QED BY <1>2, <2>2
<1>4. \A b : Path(a, b) <=> b \in Closure[{a}]
  BY DEF Path
<1>a. f = [S \in SUBSET Artifacts |->
             IF S \cup {e[2] : e \in {e \in edges : e[1] \in S}} = S THEN S
             ELSE f[S \cup {e[2] : e \in {e \in edges : e[1] \in S}}]]
  BY <1>0, <1>3 DEF More
<1>b. Closure = [S \in SUBSET Artifacts |->
             IF S \cup {e[2] : e \in {e \in edges : e[1] \in S}} = S THEN S
             ELSE Closure[S \cup {e[2] : e \in {e \in edges : e[1] \in S}}]]
  BY <1>a
<1>5. Closure = [S \in SUBSET Artifacts |-> IF More(E, S) = S THEN S ELSE Closure[More(E, S)]]
  BY <1>0, <1>b DEF More
<1> HIDE DEF Closure
<1>6. PICK g : g = Closure
  OBVIOUS
<1>7. \A S \in SUBSET Artifacts : g[S] = IF More(E, S) = S THEN S ELSE g[More(E, S)]
  BY <1>5, <1>6
<1>8. g[{a}] = Spread(E, {a})
  BY <1>1, <1>7, ClosureIsSpread
<1>9. QED BY <1>0, <1>4, <1>6, <1>8 DEF Reach

-----------------------------------------------------------------------------
(* The requests of a POM.                                                  *)

\* Those of a sequence's items that go, in order.
Filters(f, asks, goes, size) ==
  /\ f = [n \in 0..size |-> f[n]] /\ f[0] = <<>>
  /\ \A n \in 1..size : /\ n \in goes => f[n] = Append(f[n - 1], asks[n])
                        /\ n \notin goes => f[n] = f[n - 1]

LEMMA ThoseThatGo ==
  ASSUME NEW asks, NEW goes, NEW size \in Nat
  PROVE  \E f : Filters(f, asks, goes, size)
<1>1. PICK All : All = {asks[n] : n \in Nat}
  OBVIOUS
<1>2. PICK X : X = Seq(All)
  OBVIOUS
<1>3. PICK g \in [Nat -> [X -> X]] :
        \A n \in Nat, x \in X :
          g[n][x] = IF n + 1 \in goes THEN Append(x, asks[n + 1]) ELSE x
  <2>1. \A n \in Nat, x \in X : (IF n + 1 \in goes THEN Append(x, asks[n + 1]) ELSE x) \in X
    BY <1>1, <1>2
  <2>2. [n \in Nat |-> [x \in X |-> IF n + 1 \in goes THEN Append(x, asks[n + 1]) ELSE x]]
          \in [Nat -> [X -> X]]
    BY <2>1
  <2>3. QED BY <2>2
<1>4. PICK x : x = <<>>
  OBVIOUS
<1>5. x \in X
  BY <1>2, <1>4
<1>6. PICK f \in [0..size -> X] :
        f[0] = x /\ \A n \in 1..size : f[n] = g[n - 1][f[n - 1]]
  <2>1. g \in [Nat -> [X -> X]]
    BY <1>3
  <2>2. Beginnings(X, x, g, size) # {}
    BY <2>1, <1>5, SomeBeginning
  <2>3. QED BY <2>2 DEF Beginnings
<1>7. ASSUME NEW n \in 1..size
      PROVE  f[n] = IF n \in goes THEN Append(f[n - 1], asks[n]) ELSE f[n - 1]
  <2>1. n - 1 \in Nat /\ n - 1 \in 0..size /\ (n - 1) + 1 = n
    OBVIOUS
  <2>2. f[n - 1] \in X
    BY <2>1
  <2>3. f[n] = g[n - 1][f[n - 1]]
    BY <1>6
  <2>4. QED BY <1>3, <2>1, <2>2, <2>3
<1>8. f = [n \in 0..size |-> f[n]]
  OBVIOUS
<1>9. QED BY <1>4, <1>6, <1>7, <1>8 DEF Filters

LEMMA TheyAreTheirs ==
  ASSUME NEW asks, NEW goes, NEW size \in Nat, NEW f, Filters(f, asks, goes, size)
  PROVE  f[size] \in Seq({asks[i] : i \in 1..size})
<1>1. PICK Some : Some = {asks[i] : i \in 1..size}
  OBVIOUS
<1> DEFINE S == {n \in Nat : n <= size => f[n] \in Seq(Some)}
<1>2. 0 \in S
  <2>1. f[0] = <<>>
    BY DEF Filters
  <2>2. <<>> \in Seq(Some)
    OBVIOUS
  <2>3. f[0] \in Seq(Some)
    BY <2>1, <2>2
  <2>4. QED BY <2>3
<1>3. ASSUME NEW n \in S PROVE n + 1 \in S
  <2>1. n \in Nat /\ n + 1 \in Nat /\ (n + 1) - 1 = n
    OBVIOUS
  <2>2. ASSUME n + 1 <= size PROVE f[n + 1] \in Seq(Some)
    <3>1. f[n] \in Seq(Some) /\ n + 1 \in 1..size
      BY <2>1, <2>2
    <3>2. asks[n + 1] \in Some
      BY <1>1, <3>1
    <3>3. f[n + 1] = IF n + 1 \in goes THEN Append(f[n], asks[n + 1]) ELSE f[n]
      BY <2>1, <3>1 DEF Filters
    <3>4. PICK a, b : a = f[n] /\ b = asks[n + 1]
      OBVIOUS
    <3>5. Append(a, b) \in Seq(Some)
      BY <3>1, <3>2, <3>4
    <3>6. QED BY <3>1, <3>3, <3>4, <3>5
  <2>3. QED BY <2>1, <2>2
<1>4. S = Nat
  BY <1>2, <1>3, Induct
<1>5. QED
  <2>1. size \in S
    BY <1>4
  <2>2. QED BY <1>1, <2>1

Asking(asks, goes, parent, deps, size) ==
  \A n \in 1..size : /\ asks[n] = Request(parent, deps[n])
                     /\ n \in goes <=> Admissible(deps[n], parent.excludes)

LEMMA ChildrenAreFiltered ==
  ASSUME NEW parent, NEW deps, deps = pom[<<parent.ga, parent.version>>].dependencies,
         NEW size \in Nat, Len(deps) = size
  PROVE  \E asks, goes, f : /\ Asking(asks, goes, parent, deps, size)
                           /\ Filters(f, asks, goes, size) /\ Children(parent) = f[size]
<1> DEFINE first[n \in 0..Len(deps)] ==
      IF n = 0 THEN <<>>
      ELSE IF Admissible(deps[n], parent.excludes)
      THEN Append(first[n - 1], Request(parent, deps[n])) ELSE first[n - 1]
<1>1. PICK asks : asks = [n \in Nat |-> Request(parent, deps[n])]
  OBVIOUS
<1>2. PICK goes : goes = {n \in Nat : Admissible(deps[n], parent.excludes)}
  OBVIOUS
<1>3. PICK f : Filters(f, asks, goes, size)
  BY ThoseThatGo
<1>4. f = [n \in 0..Len(deps) |->
        IF n = 0 THEN <<>>
        ELSE IF Admissible(deps[n], parent.excludes)
        THEN Append(f[n - 1], Request(parent, deps[n])) ELSE f[n - 1]]
  <2>1. \A n \in Nat : asks[n] = Request(parent, deps[n])
    BY <1>1
  <2>2. \A n \in Nat : n \in goes <=> Admissible(deps[n], parent.excludes)
    BY <1>2
  <2>3. \A n \in 0..size : n \in Nat /\ (n # 0 => n \in 1..size)
    OBVIOUS
  <2>4. \A n \in 0..size : f[n] = IF n = 0 THEN <<>>
                              ELSE IF Admissible(deps[n], parent.excludes)
                              THEN Append(f[n - 1], Request(parent, deps[n])) ELSE f[n - 1]
    BY <1>3, <2>1, <2>2, <2>3 DEF Filters
  <2>5. f = [n \in 0..Len(deps) |-> f[n]]
    BY <1>3 DEF Filters
  <2>6. QED BY <2>4, <2>5
<1>5. Children(parent) = first[Len(deps)]
  BY DEF Children
<1>6. first = [n \in 0..Len(deps) |->
        IF n = 0 THEN <<>>
        ELSE IF Admissible(deps[n], parent.excludes)
        THEN Append(first[n - 1], Request(parent, deps[n])) ELSE first[n - 1]]
  BY <1>4
<1> HIDE DEF first
<1>7. PICK h : h = first
  OBVIOUS
<1>8. \A n \in Nat : asks[n] = Request(parent, deps[n]) /\ (n \in goes <=> Admissible(deps[n], parent.excludes))
  BY <1>1, <1>2
<1>9. Filters(h, asks, goes, size)
  <2>1. \A n \in 1..size : n \in Nat /\ n # 0 /\ n \in 0..size
    OBVIOUS
  <2>a. 0 \in 0..size
    OBVIOUS
  <2>2. h = [n \in 0..size |-> h[n]]
    BY <1>6, <1>7
  <2>3. h[0] = <<>>
    BY <1>6, <1>7, <2>a
  <2>4. ASSUME NEW n \in 1..size
        PROVE  h[n] = IF n \in goes THEN Append(h[n - 1], asks[n]) ELSE h[n - 1]
    <3>1. h[n] = IF Admissible(deps[n], parent.excludes)
                 THEN Append(h[n - 1], Request(parent, deps[n])) ELSE h[n - 1]
      BY <1>6, <1>7, <2>1
    <3>2. asks[n] = Request(parent, deps[n]) /\ (n \in goes <=> Admissible(deps[n], parent.excludes))
      BY <1>8, <2>1
    <3>3. QED BY <3>1, <3>2
  <2>5. QED BY <2>2, <2>3, <2>4 DEF Filters
<1>10. Asking(asks, goes, parent, deps, size)
  <2>1. \A n \in 1..size : n \in Nat
    OBVIOUS
  <2>2. QED BY <1>8, <2>1 DEF Asking
<1>11. QED BY <1>5, <1>7, <1>9, <1>10

LEMMA ChildrenAreRequests ==
  ASSUME NEW parent, NEW deps, deps = pom[<<parent.ga, parent.version>>].dependencies,
         NEW size \in Nat, Len(deps) = size
  PROVE  Children(parent) \in Seq({Request(parent, deps[i]) : i \in 1..size})
<1>1. PICK asks, goes, f : /\ Asking(asks, goes, parent, deps, size)
                           /\ Filters(f, asks, goes, size) /\ Children(parent) = f[size]
  BY ChildrenAreFiltered
<1>2. f[size] \in Seq({asks[i] : i \in 1..size})
  BY <1>1, TheyAreTheirs
<1>3. {asks[i] : i \in 1..size} = {Request(parent, deps[i]) : i \in 1..size}
  BY <1>1 DEF Asking
<1>4. QED BY <1>1, <1>2, <1>3

-----------------------------------------------------------------------------
(* Where packages land.                                                    *)

\* What the walk is given: declarations of artifacts, each on a classpath, and
\* POMs that name artifacts.
RootsOK == /\ manifest.roots \in Seq(ToSet(manifest.roots))
           /\ \A r \in ToSet(manifest.roots) : r.ga \in Artifacts /\ r.classpath \in Classpath
PomInv == \A c \in DOMAIN pom :
            \E n \in Nat : /\ Len(pom[c].dependencies) = n
                           /\ \A i \in 1..n : pom[c].dependencies[i].ga \in Artifacts

\* A declaration that is there reaches a.
CompileRoot(a) == \E r \in ToSet(manifest.roots) : Compiles(r.classpath) /\ a \in Reach(edges, r.ga)
RunRoot(a) == \E r \in ToSet(manifest.roots) : Runs(r.classpath) /\ a \in Reach(edges, r.ga)
Just(c, a) == (Compiles(c) => CompileRoot(a)) /\ (Runs(c) => RunRoot(a))

\* What is asked for is asked by a declaration, or by what one reaches.
AskOK(x) == /\ x.ga \in Artifacts /\ x.classpath \in Classpath
            /\ x.parent \subseteq DOMAIN selected
            /\ Just(x.classpath, x.ga) \/ \E p \in x.parent : Just(x.classpath, p)
AsksOK(s) == \E S : s \in Seq(S) /\ \A x \in S : AskOK(x)

\* What is to be read is settled, and reached.
ReadOK(x) == x.ga \in DOMAIN selected /\ x.classpath \in Classpath /\ Just(x.classpath, x.ga)
ReadsOK(s) == \E S : s \in Seq(S) /\ \A x \in S : ReadOK(x)

SelectedInv ==
  /\ DOMAIN selected \subseteq Artifacts /\ selected = [a \in DOMAIN selected |-> selected[a]]
  /\ \A a \in DOMAIN selected :
       /\ "classpath" \in DOMAIN selected[a] /\ selected[a].classpath \in Classpath
       /\ Just(selected[a].classpath, a)

\* A declaration waits to be mediated, or is settled at least as wide.
Covers(c, d) == (Compiles(d) => Compiles(c)) /\ (Runs(d) => Runs(c))
Landed(r) == r.ga \in DOMAIN selected /\ Covers(selected[r.ga].classpath, r.classpath)
Waits(r) == \E i \in 1..Len(level) : level[i].ga = r.ga /\ level[i].classpath = r.classpath
RootsInv == at \in {"mediate", "fetch", "widen", "resolved"} =>
              \A r \in ToSet(manifest.roots) : Waits(r) \/ Landed(r)

PhaseInv == /\ at \in {"fetch", "widen", "resolved"} => level = <<>>
            /\ at = "resolved" => \A e \in edges : Widened(e) = selected[e[2]].classpath

LandInv ==
  /\ RootsOK /\ PomInv /\ SelectedInv /\ EdgesOK
  /\ AsksOK(level) /\ AsksOK(upcoming) /\ ReadsOK(admitted) /\ ReadsOK(rewalk)
  /\ RootsInv /\ PhaseInv

\* On the classpath on either side, on the joined one; and nowhere else.
LEMMA JoinIsBoth ==
  ASSUME NEW c \in Classpath, NEW d \in Classpath
  PROVE  /\ Join(c, d) \in Classpath
         /\ Compiles(Join(c, d)) <=> Compiles(c) \/ Compiles(d)
         /\ Runs(Join(c, d)) <=> Runs(c) \/ Runs(d)
  BY DEF Join, Classpath, Compiles, Runs

LEMMA JustJoins ==
  ASSUME NEW c \in Classpath, NEW d \in Classpath, NEW a, Just(c, a), Just(d, a)
  PROVE  Just(Join(c, d), a)
  BY JoinIsBoth DEF Just

\* What is reached along an edge is as justified as where the edge starts.
LEMMA JustAlong ==
  ASSUME RootsOK, NEW e \in edges, e[1] \in Artifacts, e[2] \in Artifacts, NEW c, Just(c, e[1])
  PROVE  Just(c, e[2])
<1>1. PICK E : E = edges
  OBVIOUS
<1>2. \A a \in Artifacts : e[1] \in Reach(E, a) => e[2] \in Reach(E, a)
  BY <1>1, ReachGrows
<1>3. QED BY <1>1, <1>2 DEF Just, CompileRoot, RunRoot, RootsOK

\* More edges take nothing back.
LEMMA JustStays ==
  ASSUME RootsOK, manifest' = manifest, edges \subseteq edges', NEW c, NEW a, Just(c, a)
  PROVE  Just(c, a)'
<1>1. PICK E, F : E = edges /\ F = edges'
  OBVIOUS
<1>2. \A b \in Artifacts : Reach(E, b) \subseteq Reach(F, b)
  BY <1>1, ReachGrows
<1>3. PICK R : R = ToSet(manifest.roots)
  OBVIOUS
<1>4. R = ToSet(manifest'.roots)
  BY <1>3
<1>5. \A r \in R : r.ga \in Artifacts
  BY <1>3 DEF RootsOK
<1>6. QED
  BY <1>1, <1>2, <1>3, <1>4, <1>5 DEF Just, CompileRoot, RunRoot

LEMMA AskStays ==
  ASSUME RootsOK, manifest' = manifest, edges \subseteq edges',
         DOMAIN selected \subseteq DOMAIN selected', NEW x, AskOK(x)
  PROVE  AskOK(x)'
<1>1. \A c, a : Just(c, a) => Just(c, a)'
  BY JustStays
<1>2. QED BY <1>1 DEF AskOK

LEMMA ReadStays ==
  ASSUME RootsOK, manifest' = manifest, edges \subseteq edges',
         DOMAIN selected \subseteq DOMAIN selected', NEW x, ReadOK(x)
  PROVE  ReadOK(x)'
<1>1. \A c, a : Just(c, a) => Just(c, a)'
  BY JustStays
<1>2. QED BY <1>1 DEF ReadOK

\* So sequences of them stay too.
LEMMA SequencesStay ==
  ASSUME RootsOK, manifest' = manifest, edges \subseteq edges',
         DOMAIN selected \subseteq DOMAIN selected', NEW s
  PROVE  (AsksOK(s) => AsksOK(s)') /\ (ReadsOK(s) => ReadsOK(s)')
<1>1. \A x : (AskOK(x) => AskOK(x)') /\ (ReadOK(x) => ReadOK(x)')
  BY AskStays, ReadStays
<1>2. QED BY <1>1 DEF AsksOK, ReadsOK

LEMMA LandStutters ==
  ASSUME LandInv, UNCHANGED resolveVars
  PROVE  LandInv'
<1>1. \A c, a : Just(c, a) = Just(c, a)'
  BY DEF resolveVars, Just, CompileRoot, RunRoot
<1>2. SelectedInv'
  BY <1>1 DEF LandInv, SelectedInv, resolveVars
<1>3. \A x : AskOK(x) = AskOK(x)' /\ ReadOK(x) = ReadOK(x)'
  BY <1>1 DEF AskOK, ReadOK, resolveVars
<1>4. AsksOK(level)' /\ AsksOK(upcoming)' /\ ReadsOK(admitted)' /\ ReadsOK(rewalk)'
  BY <1>3 DEF LandInv, AsksOK, ReadsOK, resolveVars
<1>5. RootsOK' /\ PomInv' /\ EdgesOK' /\ RootsInv' /\ PhaseInv'
  BY DEF LandInv, RootsOK, PomInv, EdgesOK, RootsInv, PhaseInv, Waits, Landed, Widened, resolveVars
<1>6. QED BY <1>2, <1>4, <1>5 DEF LandInv

\* The walk starts with what the manifest declares.
LEMMA LandStarts ==
  ASSUME RootsOK, PomInv, ResolveInit
  PROVE  LandInv
<1>1. SelectedInv /\ EdgesOK
  BY DEF ResolveInit, SelectedInv, EdgesOK
<1>2. PICK S, none : S = {} /\ none = <<>>
  OBVIOUS
<1>a. none \in Seq(S) /\ (\A x \in S : AskOK(x) /\ ReadOK(x))
  BY <1>2
<1>b. AsksOK(none) /\ ReadsOK(none)
  BY <1>a DEF AsksOK, ReadsOK
<1>3. AsksOK(<<>>) /\ ReadsOK(<<>>)
  BY <1>2, <1>b
<1>4. AsksOK(level) /\ AsksOK(upcoming) /\ ReadsOK(admitted) /\ ReadsOK(rewalk)
  BY <1>3 DEF ResolveInit
<1>5. RootsInv /\ PhaseInv
  BY DEF ResolveInit, RootsInv, PhaseInv
<1>6. QED BY <1>1, <1>4, <1>5 DEF LandInv

LEMMA SeedOK ==
  ASSUME RootsOK, Start, at' # "failed"
  PROVE  AsksOK(level)' /\ \A r \in ToSet(manifest.roots) : Waits(r)'
<1>1. PICK n \in Nat : n = Len(manifest.roots)
  BY DEF RootsOK
<1>2. PICK seed : seed = Seed
  OBVIOUS
<1>3. DOMAIN manifest.roots = 1..n /\ ToSet(manifest.roots) = {manifest.roots[i] : i \in 1..n}
  BY <1>1 DEF RootsOK, ToSet
<1>4. level' = seed /\ manifest' = manifest /\ UNCHANGED <<edges, selected>>
  BY <1>2 DEF Start, Fail
<1>5. \A i \in 1..n : /\ seed[i].ga = manifest.roots[i].ga
                      /\ seed[i].classpath = manifest.roots[i].classpath
                      /\ seed[i].parent = {}
  BY <1>2, <1>3 DEF Seed
<1>6. DOMAIN seed = 1..n /\ seed = [i \in 1..n |-> seed[i]]
  BY <1>2, <1>3 DEF Seed
<1>7. seed \in Seq({seed[i] : i \in 1..n}) /\ Len(seed) = n
  BY <1>6
<1>8. ASSUME NEW i \in 1..n PROVE AskOK(seed[i])'
  <2>1. PICK r \in ToSet(manifest.roots) : r = manifest.roots[i]
    BY <1>3
  <2>2. r.ga \in Artifacts /\ r.classpath \in Classpath
    BY <2>1 DEF RootsOK
  <2>3. r.ga \in Reach(edges, r.ga)
    <3>1. PICK E : E = edges
      OBVIOUS
    <3>2. QED BY <3>1, <2>2, ReachGrows
  <2>4. Just(r.classpath, r.ga)'
    BY <1>4, <2>1, <2>3 DEF Just, CompileRoot, RunRoot
  <2>5. QED BY <1>4, <1>5, <2>1, <2>2, <2>4 DEF AskOK
<1>9. AsksOK(level)'
  BY <1>4, <1>7, <1>8 DEF AsksOK
<1>10. ASSUME NEW r \in ToSet(manifest.roots) PROVE Waits(r)'
  BY <1>3, <1>4, <1>5, <1>7 DEF Waits
<1>11. QED BY <1>9, <1>10

\* What a POM asks for is asked by what is reached.
LEMMA ChildrenOK ==
  ASSUME LandInv, NEW parent, ReadOK(parent), <<parent.ga, parent.version>> \in DOMAIN pom
  PROVE  AsksOK(Children(parent))
<1>1. PICK deps : deps = pom[<<parent.ga, parent.version>>].dependencies
  OBVIOUS
<1>2. PICK n \in Nat : Len(deps) = n /\ \A i \in 1..n : deps[i].ga \in Artifacts
  BY <1>1 DEF LandInv, PomInv
<1>3. Children(parent) \in Seq({Request(parent, deps[i]) : i \in 1..n})
  BY <1>1, <1>2, ChildrenAreRequests
<1>4. ASSUME NEW i \in 1..n PROVE AskOK(Request(parent, deps[i]))
  <2>1. PICK x : x = Request(parent, deps[i])
    OBVIOUS
  <2>2. /\ x.ga = deps[i].ga /\ x.classpath = parent.classpath /\ x.parent = {parent.ga}
    BY <2>1 DEF Request
  <2>3. QED BY <1>2, <2>1, <2>2 DEF AskOK, ReadOK
<1>5. QED BY <1>3, <1>4 DEF AsksOK

LEMMA BothHalves ==
  ASSUME NEW s, NEW t
  PROVE  /\ AsksOK(s) /\ AsksOK(t) => AsksOK(s \o t)
         /\ ReadsOK(s) /\ ReadsOK(t) => ReadsOK(s \o t)
<1>1. \A S, T : s \in Seq(S) /\ t \in Seq(T) => s \o t \in Seq(S \cup T)
  <2>1. ASSUME NEW S, NEW T, s \in Seq(S), t \in Seq(T) PROVE s \o t \in Seq(S \cup T)
    <3>1. s \in Seq(S \cup T) /\ t \in Seq(S \cup T)
      BY <2>1
    <3>2. QED BY <3>1
  <2>2. QED BY <2>1
<1>2. ASSUME AsksOK(s), AsksOK(t) PROVE AsksOK(s \o t)
  <2>1. PICK S : s \in Seq(S) /\ \A x \in S : AskOK(x)
    BY <1>2 DEF AsksOK
  <2>2. PICK T : t \in Seq(T) /\ \A x \in T : AskOK(x)
    BY <1>2 DEF AsksOK
  <2>3. s \o t \in Seq(S \cup T) /\ \A x \in S \cup T : AskOK(x)
    BY <1>1, <2>1, <2>2
  <2>4. QED BY <2>3 DEF AsksOK
<1>3. ASSUME ReadsOK(s), ReadsOK(t) PROVE ReadsOK(s \o t)
  <2>1. PICK S : s \in Seq(S) /\ \A x \in S : ReadOK(x)
    BY <1>3 DEF ReadsOK
  <2>2. PICK T : t \in Seq(T) /\ \A x \in T : ReadOK(x)
    BY <1>3 DEF ReadsOK
  <2>3. s \o t \in Seq(S \cup T) /\ \A x \in S \cup T : ReadOK(x)
    BY <1>1, <2>1, <2>2
  <2>4. QED BY <2>3 DEF ReadsOK
<1>4. QED BY <1>2, <1>3

LEMMA FirstAndRest ==
  ASSUME NEW s, s # <<>>
  PROVE  /\ AsksOK(s) => AskOK(Head(s)) /\ AsksOK(Tail(s))
         /\ ReadsOK(s) => ReadOK(Head(s)) /\ ReadsOK(Tail(s))
<1>1. \A S : s \in Seq(S) => Head(s) \in S /\ Tail(s) \in Seq(S)
  OBVIOUS
<1>2. ASSUME AsksOK(s) PROVE AskOK(Head(s)) /\ AsksOK(Tail(s))
  BY <1>1, <1>2 DEF AsksOK
<1>3. ASSUME ReadsOK(s) PROVE ReadOK(Head(s)) /\ ReadsOK(Tail(s))
  BY <1>1, <1>3 DEF ReadsOK
<1>4. QED BY <1>2, <1>3

LEMMA MediateLands ==
  ASSUME LandInv, Mediate
  PROVE  LandInv'
<1>1. PICK item : item = Head(level)
  OBVIOUS
<1>2. AskOK(item) /\ AsksOK(Tail(level))
  BY <1>1, FirstAndRest DEF LandInv, Mediate
<1>3. /\ edges' = edges \cup {<<p, item.ga>> : p \in item.parent}
      /\ level' = Tail(level) /\ level # <<>> /\ at = "mediate"
      /\ UNCHANGED <<manifest, pom, at, upcoming>>
  BY <1>1 DEF Mediate, AddEdge
<1>4. /\ RootsOK /\ PomInv /\ SelectedInv /\ EdgesOK /\ AsksOK(upcoming)
      /\ ReadsOK(admitted) /\ ReadsOK(rewalk) /\ RootsInv
  BY DEF LandInv
<1>5. /\ item.ga \in Artifacts /\ item.classpath \in Classpath
      /\ item.parent \subseteq DOMAIN selected
  BY <1>2 DEF AskOK
\* The package itself, and those to be read.
<1>6. /\ DOMAIN selected' = DOMAIN selected \cup {item.ga}
      /\ selected' = [a \in DOMAIN selected' |-> selected'[a]]
      /\ \A a \in DOMAIN selected \ {item.ga} : selected'[a] = selected[a]
      /\ "classpath" \in DOMAIN selected'[item.ga]
      /\ selected'[item.ga].classpath =
           IF item.ga \in DOMAIN selected
           THEN Join(selected[item.ga].classpath, item.classpath) ELSE item.classpath
  <2>1. CASE item.ga \notin DOMAIN selected
    <3>1. Admit(item)
      BY <1>1, <2>1 DEF Mediate
    <3>2. QED BY <2>1, <3>1 DEF Admit
  <2>2. CASE item.ga \in DOMAIN selected
    <3>1. selected' = [selected EXCEPT ![item.ga] = Met(selected[item.ga], item)]
      BY <1>1, <2>2 DEF Mediate, Meet
    <3>2. "classpath" \in DOMAIN selected[item.ga]
          /\ selected = [a \in DOMAIN selected |-> selected[a]]
      BY <1>4, <2>2 DEF SelectedInv
    <3>3. PICK before : before = selected[item.ga]
      OBVIOUS
    <3>4. /\ "classpath" \in DOMAIN Met(before, item)
          /\ Met(before, item).classpath = Join(before.classpath, item.classpath)
      BY <3>2, <3>3 DEF Met
    <3>5. QED BY <2>2, <3>1, <3>2, <3>3, <3>4
  <2>3. QED BY <2>1, <2>2
<1>7. EdgesOK'
  <2>1. \A p \in item.parent : p \in DOMAIN selected'
    BY <1>5, <1>6
  <2>2. DOMAIN selected' \subseteq Artifacts
    BY <1>4, <1>5, <1>6 DEF SelectedInv
  <2>3. \A e \in edges : e[1] \in DOMAIN selected' /\ e[2] \in DOMAIN selected'
    BY <1>4, <1>6 DEF EdgesOK
  <2>4. QED BY <1>3, <1>6, <2>1, <2>2, <2>3 DEF EdgesOK
<1>8. edges \subseteq edges' /\ manifest' = manifest /\ DOMAIN selected \subseteq DOMAIN selected'
  BY <1>3, <1>6
<1>9. RootsOK' /\ PomInv'
  BY <1>3, <1>4 DEF RootsOK, PomInv
<1>10. Just(item.classpath, item.ga)'
  <2>1. CASE Just(item.classpath, item.ga)
    BY <1>4, <1>8, <2>1, JustStays
  <2>2. CASE \E p \in item.parent : Just(item.classpath, p)
    <3>1. PICK p \in item.parent : Just(item.classpath, p)
      BY <2>2
    <3>2. Just(item.classpath, p)'
      BY <1>4, <1>8, <3>1, JustStays
    <3>3. PICK e : e = <<p, item.ga>>
      OBVIOUS
    <3>4. e \in edges' /\ e[1] = p /\ e[2] = item.ga /\ p \in Artifacts
      BY <1>3, <1>4, <1>5, <3>1, <3>3 DEF SelectedInv
    <3>5. \A d \in edges' : d[1] \in Artifacts /\ d[2] \in Artifacts =>
             \A c : Just(c, d[1])' => Just(c, d[2])'
      <4>1. PICK E : E = edges'
        OBVIOUS
      <4>2. \A d \in E : \A a \in Artifacts :
              d[1] \in Reach(E, a) /\ d[2] \in Artifacts => d[2] \in Reach(E, a)
        BY ReachGrows
      <4>3. QED BY <1>9, <4>1, <4>2 DEF Just, CompileRoot, RunRoot, RootsOK
    <3>6. QED BY <1>5, <3>2, <3>4, <3>5
  <2>3. QED BY <1>2, <2>1, <2>2 DEF AskOK
<1>11. ASSUME NEW a \in DOMAIN selected, NEW c, c = selected[a].classpath
       PROVE  c \in Classpath /\ Just(c, a)'
  <2>1. c \in Classpath /\ Just(c, a)
    BY <1>4, <1>11 DEF SelectedInv
  <2>2. QED BY <1>4, <1>8, <2>1, JustStays
<1>12. ASSUME NEW c, c = selected'[item.ga].classpath
       PROVE  c \in Classpath /\ Just(c, item.ga)'
  <2>1. CASE item.ga \notin DOMAIN selected
    <3>1. c = item.classpath
      BY <1>6, <1>12, <2>1
    <3>2. PICK d : d = item.classpath /\ d \in Classpath /\ Just(d, item.ga)'
      BY <1>5, <1>10
    <3>3. QED BY <3>1, <3>2
  <2>2. CASE item.ga \in DOMAIN selected
    <3>1. PICK b \in Classpath : b = selected[item.ga].classpath /\ Just(b, item.ga)'
      BY <1>11, <2>2
    <3>2. PICK d \in Classpath : d = item.classpath /\ Just(d, item.ga)'
      BY <1>5, <1>10
    <3>3. c = Join(b, d)
      BY <1>6, <1>12, <2>2, <3>1, <3>2
    <3>4. QED BY <3>1, <3>2, <3>3, JoinIsBoth DEF Just
  <2>3. QED BY <2>1, <2>2
<1>13. SelectedInv'
  <2>1. DOMAIN selected' \subseteq Artifacts
    BY <1>4, <1>5, <1>6 DEF SelectedInv
  <2>2. ASSUME NEW a \in DOMAIN selected'
        PROVE  /\ "classpath" \in DOMAIN selected'[a]
               /\ \A c : c = selected'[a].classpath => c \in Classpath /\ Just(c, a)'
    <3>1. CASE a = item.ga
      BY <1>6, <1>12, <3>1
    <3>2. CASE a # item.ga
      <4>1. a \in DOMAIN selected /\ selected'[a] = selected[a]
        BY <1>6, <3>2
      <4>2. QED BY <1>4, <1>11, <4>1 DEF SelectedInv
    <3>3. QED BY <3>1, <3>2
  <2>3. \A a \in DOMAIN selected' : \E c : /\ c = selected'[a].classpath /\ c \in Classpath
                                           /\ Just(c, a)'
    BY <2>2
  <2>4. QED BY <1>6, <2>1, <2>2, <2>3 DEF SelectedInv
<1>14. AsksOK(level)' /\ AsksOK(upcoming)'
  <2>1. \A s : AsksOK(s) => AsksOK(s)'
    BY <1>4, <1>8, SequencesStay
  <2>2. PICK rest, later : rest = Tail(level) /\ later = upcoming
    OBVIOUS
  <2>3. AsksOK(rest)' /\ AsksOK(later)'
    BY <1>2, <1>4, <2>1, <2>2
  <2>4. level' = rest /\ upcoming' = later
    BY <1>3, <2>2
  <2>5. QED BY <2>3, <2>4
<1>15. ReadsOK(admitted)' /\ ReadsOK(rewalk)'
  <2>1. \A s : ReadsOK(s) => ReadsOK(s)'
    BY <1>4, <1>8, SequencesStay
  <2>2. PICK read, again : read = admitted /\ again = rewalk
    OBVIOUS
  <2>3. ReadsOK(read)' /\ ReadsOK(again)'
    BY <1>4, <2>1, <2>2
  <2>4. CASE item.ga \notin DOMAIN selected
    <3>1. admitted' = Append(read, item) /\ rewalk' = again
      BY <1>1, <2>2, <2>4 DEF Mediate, Admit
    <3>2. ReadOK(item)'
      BY <1>5, <1>6, <1>10 DEF ReadOK
    <3>3. ReadsOK(Append(read, item))'
      <4>1. PICK S : read \in Seq(S) /\ \A x \in S : ReadOK(x)'
        BY <2>3 DEF ReadsOK
      <4>2. read \in Seq(S \cup {item})
        BY <4>1
      <4>3. Append(read, item) \in Seq(S \cup {item})
        BY <4>2
      <4>4. QED BY <3>2, <4>1, <4>3 DEF ReadsOK
    <3>4. QED BY <2>3, <3>1, <3>3
  <2>5. CASE item.ga \in DOMAIN selected /\ ~WalksAgain(item)
    <3>1. admitted' = read /\ rewalk' = again
      BY <1>1, <2>2, <2>5 DEF Mediate, Meet
    <3>2. QED BY <2>3, <3>1
  <2>6. CASE item.ga \in DOMAIN selected /\ WalksAgain(item)
    <3>1. PICK x : x = [ga |-> item.ga, version |-> Met(selected[item.ga], item).version,
                        classpath |-> Met(selected[item.ga], item).classpath,
                        depth |-> Met(selected[item.ga], item).depth,
                        parent |-> {}, excludes |-> KeptOut(item)]
      OBVIOUS
    <3>2. admitted' = read /\ rewalk' = Append(again, x)
      BY <1>1, <2>2, <2>6, <3>1 DEF Mediate, Meet
    <3>3. x.ga = item.ga /\ x.classpath = selected'[item.ga].classpath
      <4>1. "classpath" \in DOMAIN selected[item.ga]
        BY <1>4, <2>6 DEF SelectedInv
      <4>2. Met(selected[item.ga], item).classpath
              = Join(selected[item.ga].classpath, item.classpath)
        BY <4>1 DEF Met
      <4>3. QED BY <1>6, <2>6, <3>1, <4>2
    <3>4. ReadOK(x)'
      <4>1. PICK c : c = x.classpath
        OBVIOUS
      <4>2. c \in Classpath /\ Just(c, item.ga)'
        BY <1>12, <3>3, <4>1
      <4>3. QED BY <1>6, <3>3, <4>1, <4>2 DEF ReadOK
    <3>5. ReadsOK(Append(again, x))'
      <4>1. PICK S : again \in Seq(S) /\ \A y \in S : ReadOK(y)'
        BY <2>3 DEF ReadsOK
      <4>2. again \in Seq(S \cup {x})
        BY <4>1
      <4>3. Append(again, x) \in Seq(S \cup {x})
        BY <4>2
      <4>4. QED BY <3>4, <4>1, <4>3 DEF ReadsOK
    <3>6. QED BY <2>3, <3>2, <3>5
  <2>7. QED BY <2>4, <2>5, <2>6
\* Where the roots are.
<1>16. RootsInv'
  <2>1. PICK S : level \in Seq(S)
    BY DEF LandInv, AsksOK
  <2>2. PICK queue, n : queue = level /\ n = Len(level)
    OBVIOUS
  <2>3. /\ n \in Nat \ {0} /\ level' = Tail(queue) /\ Len(Tail(queue)) = n - 1 /\ item = queue[1]
        /\ \A i \in 1..(n - 1) : Tail(queue)[i] = queue[i + 1]
    BY <1>1, <1>3, <2>1, <2>2
  <2>4. ASSUME NEW r \in ToSet(manifest.roots) PROVE Waits(r)' \/ Landed(r)'
    <3>1. r.classpath \in Classpath
      BY <1>4 DEF RootsOK
    <3>2. ASSUME NEW a \in DOMAIN selected, Covers(selected[a].classpath, r.classpath)
          PROVE  Covers(selected'[a].classpath, r.classpath)
      <4>1. CASE a = item.ga
        BY <1>5, <1>6, <1>11, <3>2, <4>1, JoinIsBoth DEF Covers
      <4>2. CASE a # item.ga
        BY <1>6, <3>2, <4>2
      <4>3. QED BY <4>1, <4>2
    <3>3. CASE Landed(r)
      <4>1. Landed(r)'
        BY <1>6, <3>2, <3>3 DEF Landed
      <4>2. QED BY <4>1
    <3>4. CASE Waits(r)
      <4>1. PICK i \in 1..n : queue[i].ga = r.ga /\ queue[i].classpath = r.classpath
        BY <2>2, <3>4 DEF Waits
      <4>2. CASE i = 1
        <5>1. item.ga = r.ga /\ item.classpath = r.classpath
          BY <2>3, <4>1, <4>2
        <5>2. Covers(selected'[item.ga].classpath, item.classpath)
          BY <1>5, <1>6, <1>11, JoinIsBoth DEF Covers
        <5>3. Landed(r)'
          BY <1>6, <5>1, <5>2 DEF Landed
        <5>4. QED BY <5>3
      <4>3. CASE i # 1
        <5>1. i - 1 \in 1..(n - 1) /\ (i - 1) + 1 = i
          BY <2>3, <4>3
        <5>2. Waits(r)'
          BY <2>3, <4>1, <5>1 DEF Waits
        <5>3. QED BY <5>2
      <4>4. QED BY <4>2, <4>3
    <3>5. QED BY <1>3, <1>4, <3>3, <3>4 DEF RootsInv
  <2>5. QED BY <1>3, <2>4 DEF RootsInv
<1>17. PhaseInv'
  BY <1>3 DEF PhaseInv
<1>18. QED BY <1>7, <1>9, <1>13, <1>14, <1>15, <1>16, <1>17 DEF LandInv

LEMMA WidenLands ==
  ASSUME LandInv, NEW e \in edges, Widen(e)
  PROVE  LandInv'
<1>1. /\ RootsOK /\ PomInv /\ SelectedInv /\ EdgesOK /\ RootsInv
      /\ AsksOK(level) /\ AsksOK(upcoming) /\ ReadsOK(admitted) /\ ReadsOK(rewalk)
  BY DEF LandInv
<1>2. /\ UNCHANGED <<manifest, pom, at, level, admitted, rewalk, upcoming, edges>>
      /\ at = "widen"
      /\ selected' = [selected EXCEPT ![e[2]].classpath = Widened(e)]
  BY DEF Widen
<1>3. PICK c, d : c = selected[e[2]].classpath /\ d = selected[e[1]].classpath
  OBVIOUS
<1>4. /\ e[1] \in DOMAIN selected /\ e[2] \in DOMAIN selected
      /\ e[1] \in Artifacts /\ e[2] \in Artifacts
  BY <1>1 DEF EdgesOK, SelectedInv
<1>5. c \in Classpath /\ d \in Classpath /\ Just(c, e[2]) /\ Just(d, e[1])
  BY <1>1, <1>3, <1>4 DEF SelectedInv
<1>6. /\ DOMAIN selected' = DOMAIN selected
      /\ selected' = [a \in DOMAIN selected' |-> selected'[a]]
      /\ \A a \in DOMAIN selected \ {e[2]} : selected'[a] = selected[a]
      /\ "classpath" \in DOMAIN selected'[e[2]]
      /\ selected'[e[2]].classpath = Join(c, d)
  <2>1. "classpath" \in DOMAIN selected[e[2]] /\ selected = [a \in DOMAIN selected |-> selected[a]]
    BY <1>1, <1>4 DEF SelectedInv
  <2>2. PICK package : package = [selected[e[2]] EXCEPT !.classpath = Widened(e)]
    OBVIOUS
  <2>3. "classpath" \in DOMAIN package /\ package.classpath = Join(c, d)
    BY <1>3, <2>1, <2>2 DEF Widened
  <2>4. selected' = [selected EXCEPT ![e[2]] = package]
    BY <1>2, <2>2
  <2>5. QED BY <1>4, <2>1, <2>3, <2>4
<1>7. \A b : \A a : Just(b, a) => Just(b, a)'
  BY <1>1, <1>2, JustStays
<1>8. Join(c, d) \in Classpath /\ Just(Join(c, d), e[2])
  <2>1. Just(d, e[2])
    BY <1>1, <1>4, <1>5, JustAlong
  <2>2. QED BY <1>5, <2>1, JustJoins, JoinIsBoth
<1>9. SelectedInv'
  <2>1. ASSUME NEW a \in DOMAIN selected'
        PROVE  /\ "classpath" \in DOMAIN selected'[a]
               /\ \E b : b = selected'[a].classpath /\ b \in Classpath /\ Just(b, a)'
    <3>1. CASE a = e[2]
      <4>1. PICK b : b = Join(c, d)
        OBVIOUS
      <4>2. b \in Classpath /\ Just(b, a)'
        BY <1>7, <1>8, <3>1, <4>1
      <4>3. QED BY <1>6, <3>1, <4>1, <4>2
    <3>2. CASE a # e[2]
      <4>1. a \in DOMAIN selected /\ selected'[a] = selected[a]
        BY <1>6, <3>2
      <4>2. PICK b : b = selected[a].classpath
        OBVIOUS
      <4>3. "classpath" \in DOMAIN selected[a] /\ b \in Classpath /\ Just(b, a)
        BY <1>1, <4>1, <4>2 DEF SelectedInv
      <4>4. QED BY <1>7, <4>1, <4>2, <4>3
    <3>3. QED BY <3>1, <3>2
  <2>2. DOMAIN selected' \subseteq Artifacts
    BY <1>1, <1>6 DEF SelectedInv
  <2>3. QED BY <1>6, <2>1, <2>2 DEF SelectedInv
<1>10. EdgesOK' /\ RootsOK' /\ PomInv' /\ PhaseInv'
  BY <1>1, <1>2, <1>6 DEF LandInv, EdgesOK, RootsOK, PomInv, PhaseInv
<1>11. AsksOK(level)' /\ AsksOK(upcoming)' /\ ReadsOK(admitted)' /\ ReadsOK(rewalk)'
  <2>1. PICK s, t, u, v : s = level /\ t = upcoming /\ u = admitted /\ v = rewalk
    OBVIOUS
  <2>2. AsksOK(s)' /\ AsksOK(t)' /\ ReadsOK(u)' /\ ReadsOK(v)'
    BY <1>1, <1>2, <1>6, <2>1, SequencesStay
  <2>3. s = level' /\ t = upcoming' /\ u = admitted' /\ v = rewalk'
    BY <1>2, <2>1
  <2>4. QED BY <2>2, <2>3
<1>12. RootsInv'
  <2>1. ASSUME NEW r \in ToSet(manifest.roots) PROVE Waits(r)' \/ Landed(r)'
    <3>1. CASE Waits(r)
      BY <1>2, <3>1 DEF Waits
    <3>2. CASE Landed(r)
      <4>1. CASE r.ga = e[2]
        <5>1. r.classpath \in Classpath /\ Covers(c, r.classpath)
          BY <1>1, <1>3, <3>2, <4>1 DEF RootsOK, Landed
        <5>2. Covers(Join(c, d), r.classpath)
          BY <1>5, <5>1, JoinIsBoth DEF Covers
        <5>3. QED BY <1>4, <1>6, <4>1, <5>2 DEF Landed
      <4>2. CASE r.ga # e[2]
        BY <1>6, <3>2, <4>2 DEF Landed
      <4>3. QED BY <4>1, <4>2
    <3>3. QED BY <1>1, <1>2, <3>1, <3>2 DEF RootsInv
  <2>2. QED BY <1>2, <2>1 DEF RootsInv
<1>13. QED BY <1>9, <1>10, <1>11, <1>12 DEF LandInv

\* Nothing settled and no edge changes: what holds of a sequence holds still.
Settled == <<manifest, pom, selected, edges>>

LEMMA SettledStays ==
  ASSUME LandInv, UNCHANGED Settled
  PROVE  /\ RootsOK' /\ PomInv' /\ SelectedInv' /\ EdgesOK'
         /\ \A s : (AsksOK(s) => AsksOK(s)') /\ (ReadsOK(s) => ReadsOK(s)')
         /\ \A r : Landed(r) => Landed(r)'
<1>1. \A c, a : Just(c, a) = Just(c, a)'
  BY DEF Settled, Just, CompileRoot, RunRoot
<1>2. SelectedInv'
  BY <1>1 DEF LandInv, SelectedInv, Settled
<1>3. RootsOK' /\ PomInv' /\ EdgesOK'
  BY DEF LandInv, RootsOK, PomInv, EdgesOK, Settled
<1>4. \A s : (AsksOK(s) => AsksOK(s)') /\ (ReadsOK(s) => ReadsOK(s)')
  BY SequencesStay DEF LandInv, Settled
<1>5. \A r : Landed(r) => Landed(r)'
  BY DEF Landed, Settled
<1>6. QED BY <1>2, <1>3, <1>4, <1>5

LEMMA LandFails ==
  ASSUME LandInv, UNCHANGED Settled, at' = "failed",
         UNCHANGED <<level, admitted, rewalk, upcoming>>
  PROVE  LandInv'
<1>1. PICK s, t, u, v : s = level /\ t = upcoming /\ u = admitted /\ v = rewalk
  OBVIOUS
<1>2. AsksOK(s)' /\ AsksOK(t)' /\ ReadsOK(u)' /\ ReadsOK(v)'
  BY <1>1, SettledStays DEF LandInv
<1>3. s = level' /\ t = upcoming' /\ u = admitted' /\ v = rewalk'
  BY <1>1
<1>4. AsksOK(level)' /\ AsksOK(upcoming)' /\ ReadsOK(admitted)' /\ ReadsOK(rewalk)'
  BY <1>2, <1>3
<1>5. RootsInv' /\ PhaseInv'
  BY DEF RootsInv, PhaseInv
<1>6. QED BY <1>4, <1>5, SettledStays DEF LandInv

LEMMA StartLands ==
  ASSUME LandInv, Start
  PROVE  LandInv'
<1>1. UNCHANGED Settled /\ UNCHANGED <<admitted, rewalk, upcoming>>
  BY DEF Start, Fail, Settled
<1>2. CASE at' = "failed"
  <2>1. level' = level
    BY <1>2 DEF Start, Fail
  <2>2. QED BY <1>1, <1>2, <2>1, LandFails
<1>3. CASE at' # "failed"
  <2>1. at' = "mediate"
    BY <1>3 DEF Start, Fail
  <2>2. AsksOK(level)' /\ \A r \in ToSet(manifest.roots) : Waits(r)'
    BY <1>3, SeedOK DEF LandInv
  <2>3. PICK t, u, v : t = upcoming /\ u = admitted /\ v = rewalk
    OBVIOUS
  <2>4. AsksOK(t)' /\ ReadsOK(u)' /\ ReadsOK(v)'
    BY <1>1, <2>3, SettledStays DEF LandInv
  <2>5. AsksOK(upcoming)' /\ ReadsOK(admitted)' /\ ReadsOK(rewalk)'
    BY <1>1, <2>3, <2>4
  <2>6. RootsInv' /\ PhaseInv'
    BY <1>1, <2>1, <2>2 DEF RootsInv, PhaseInv, Settled
  <2>7. QED BY <1>1, <2>2, <2>5, <2>6, SettledStays DEF LandInv
<1>4. QED BY <1>2, <1>3

LEMMA ReadPomsLands ==
  ASSUME LandInv, ReadPoms
  PROVE  LandInv'
<1>1. UNCHANGED Settled /\ UNCHANGED <<level, upcoming>>
  BY DEF ReadPoms, Settled
<1>2. PICK s, t, u, v : s = level /\ t = upcoming /\ u = admitted \o rewalk /\ v = <<>>
  OBVIOUS
<1>3. s = level' /\ t = upcoming' /\ u = admitted' /\ v = rewalk'
  BY <1>2 DEF ReadPoms
<1>4. AsksOK(s)' /\ AsksOK(t)' /\ ReadsOK(u)' /\ ReadsOK(v)'
  <2>1. ReadsOK(u)
    BY <1>2, BothHalves DEF LandInv
  <2>2. ReadsOK(v)
    <3>1. PICK S : S = {}
      OBVIOUS
    <3>2. v \in Seq(S) /\ \A x \in S : ReadOK(x)
      BY <1>2, <3>1
    <3>3. QED BY <3>2 DEF ReadsOK
  <2>3. QED BY <1>1, <1>2, <2>1, <2>2, SettledStays DEF LandInv
<1>5. AsksOK(level)' /\ AsksOK(upcoming)' /\ ReadsOK(admitted)' /\ ReadsOK(rewalk)'
  BY <1>3, <1>4
<1>6. RootsInv' /\ PhaseInv'
  BY <1>1, SettledStays DEF LandInv, ReadPoms, RootsInv, PhaseInv, Waits, Settled
<1>7. QED BY <1>1, <1>5, <1>6, SettledStays DEF LandInv

LEMMA WalkLands ==
  ASSUME LandInv, Walk
  PROVE  LandInv'
<1>1. UNCHANGED Settled /\ UNCHANGED <<level, rewalk>>
  BY DEF Walk, Fail, Settled
<1>2. PICK parent : parent = Head(admitted)
  OBVIOUS
<1>3. CASE <<parent.ga, parent.version>> \notin DOMAIN pom \/ AsksForRange(parent)
  <2>1. Fail
    BY <1>2, <1>3 DEF Walk
  <2>2. QED BY <1>1, <2>1, LandFails DEF Fail
<1>4. CASE <<parent.ga, parent.version>> \in DOMAIN pom /\ ~AsksForRange(parent)
  <2>1. /\ upcoming' = upcoming \o Children(parent) /\ admitted' = Tail(admitted)
        /\ at' = at /\ at = "fetch" /\ admitted # <<>>
    BY <1>2, <1>4 DEF Walk
  <2>2. ReadOK(parent) /\ ReadsOK(Tail(admitted))
    BY <1>2, <2>1, FirstAndRest DEF LandInv
  <2>3. AsksOK(Children(parent))
    BY <1>4, <2>2, ChildrenOK
  <2>4. AsksOK(upcoming \o Children(parent))
    BY <2>3, BothHalves DEF LandInv
  <2>5. PICK s, t, u, v : /\ s = level /\ t = upcoming \o Children(parent)
                          /\ u = Tail(admitted) /\ v = rewalk
    OBVIOUS
  <2>6. AsksOK(s)' /\ AsksOK(t)' /\ ReadsOK(u)' /\ ReadsOK(v)'
    BY <1>1, <2>2, <2>4, <2>5, SettledStays DEF LandInv
  <2>7. s = level' /\ t = upcoming' /\ u = admitted' /\ v = rewalk'
    BY <1>1, <2>1, <2>5
  <2>8. AsksOK(level)' /\ AsksOK(upcoming)' /\ ReadsOK(admitted)' /\ ReadsOK(rewalk)'
    BY <2>6, <2>7
  <2>9. RootsInv' /\ PhaseInv'
    BY <1>1, <2>1, SettledStays DEF LandInv, RootsInv, PhaseInv, Waits, Settled
  <2>10. QED BY <1>1, <2>8, <2>9, SettledStays DEF LandInv
<1>5. QED BY <1>3, <1>4

LEMMA NextLevelLands ==
  ASSUME LandInv, NextLevel
  PROVE  LandInv'
<1>1. UNCHANGED Settled /\ UNCHANGED <<admitted, rewalk>>
  BY DEF NextLevel, Settled
<1>2. PICK s, t, u, v : s = upcoming /\ t = <<>> /\ u = admitted /\ v = rewalk
  OBVIOUS
<1>3. s = level' /\ t = upcoming' /\ u = admitted' /\ v = rewalk'
  BY <1>2 DEF NextLevel
<1>4. AsksOK(s)' /\ AsksOK(t)' /\ ReadsOK(u)' /\ ReadsOK(v)'
  <2>1. AsksOK(t)
    <3>1. PICK S : S = {}
      OBVIOUS
    <3>2. t \in Seq(S) /\ \A x \in S : AskOK(x)
      BY <1>2, <3>1
    <3>3. QED BY <3>2 DEF AsksOK
  <2>2. QED BY <1>1, <1>2, <2>1, SettledStays DEF LandInv
<1>5. AsksOK(level)' /\ AsksOK(upcoming)' /\ ReadsOK(admitted)' /\ ReadsOK(rewalk)'
  BY <1>3, <1>4
<1>6. at = "fetch" /\ level = <<>> /\ at' \in {"failed", "widen", "mediate"}
      /\ (at' = "widen" => level' = <<>>)
  BY DEF NextLevel, LandInv, PhaseInv
<1>7. RootsInv'
  <2>1. \A r \in ToSet(manifest.roots) : Landed(r)
    <3>1. \A r : ~Waits(r)
      BY <1>6 DEF Waits
    <3>2. QED BY <1>6, <3>1 DEF LandInv, RootsInv
  <2>2. QED BY <1>1, <2>1, SettledStays DEF RootsInv, Settled
<1>8. PhaseInv'
  BY <1>6 DEF PhaseInv
<1>9. QED BY <1>1, <1>5, <1>7, <1>8, SettledStays DEF LandInv

LEMMA SettleLands ==
  ASSUME LandInv, Settle
  PROVE  LandInv'
<1>1. UNCHANGED Settled /\ UNCHANGED <<level, upcoming, admitted, rewalk>>
  BY DEF Settle, Settled
<1>2. PICK s, t, u, v : s = level /\ t = upcoming /\ u = admitted /\ v = rewalk
  OBVIOUS
<1>3. s = level' /\ t = upcoming' /\ u = admitted' /\ v = rewalk'
  BY <1>1, <1>2
<1>4. AsksOK(s)' /\ AsksOK(t)' /\ ReadsOK(u)' /\ ReadsOK(v)'
  BY <1>1, <1>2, SettledStays DEF LandInv
<1>5. AsksOK(level)' /\ AsksOK(upcoming)' /\ ReadsOK(admitted)' /\ ReadsOK(rewalk)'
  BY <1>3, <1>4
<1>6. RootsInv'
  BY <1>1, SettledStays DEF LandInv, Settle, RootsInv, Waits, Settled
<1>7. PhaseInv'
  BY <1>1 DEF LandInv, Settle, PhaseInv, Widened, Settled
<1>8. QED BY <1>1, <1>5, <1>6, <1>7, SettledStays DEF LandInv

LEMMA LandStep ==
  ASSUME LandInv, [ResolveNext]_resolveVars
  PROVE  LandInv'
<1>1. CASE UNCHANGED resolveVars
  BY <1>1, LandStutters
<1>2. CASE ResolveNext
  BY <1>2, StartLands, MediateLands, ReadPomsLands, WalkLands, NextLevelLands, WidenLands,
     SettleLands DEF ResolveNext
<1>3. QED BY <1>1, <1>2

\* Settled, the packages on a classpath are closed along the edges.
LEMMA WhereRootsPutIt ==
  ASSUME LandInv
  PROVE  LandsWhereRootsPutIt
<1>1. SUFFICES ASSUME at = "resolved", NEW a \in DOMAIN selected
      PROVE  /\ Compiles(selected[a].classpath)
                  = \E r \in {r \in ToSet(manifest.roots) : Path(r.ga, a)} : Compiles(r.classpath)
             /\ Runs(selected[a].classpath)
                  = \E r \in {r \in ToSet(manifest.roots) : Path(r.ga, a)} : Runs(r.classpath)
  BY DEF LandsWhereRootsPutIt
<1>2. PICK E : E = edges
  OBVIOUS
<1>3. \A r \in ToSet(manifest.roots) : r.ga \in Artifacts /\ Landed(r)
  <2>1. \A r : ~Waits(r)
    BY <1>1 DEF LandInv, PhaseInv, Waits
  <2>2. QED BY <1>1, <2>1 DEF LandInv, RootsOK, RootsInv
<1>4. \A r \in ToSet(manifest.roots) : Path(r.ga, a) <=> a \in Reach(E, r.ga)
  BY <1>2, <1>3, PathIsReach DEF LandInv
<1>5. \A e \in E : /\ e[1] \in DOMAIN selected /\ e[2] \in DOMAIN selected
                   /\ Join(selected[e[2]].classpath, selected[e[1]].classpath)
                        = selected[e[2]].classpath
  BY <1>1, <1>2 DEF LandInv, PhaseInv, EdgesOK, Widened
<1>6. \A b \in DOMAIN selected : b \in Artifacts /\ selected[b].classpath \in Classpath
  BY DEF LandInv, SelectedInv
<1>7. PICK C : C = {b \in DOMAIN selected : Compiles(selected[b].classpath)}
  OBVIOUS
<1>8. PICK R : R = {b \in DOMAIN selected : Runs(selected[b].classpath)}
  OBVIOUS
<1>9. C \in SUBSET Artifacts /\ R \in SUBSET Artifacts
  BY <1>6, <1>7, <1>8
<1>10. Closed(E, C) /\ Closed(E, R)
  <2>1. \A e \in E : /\ e[1] \in C => e[2] \in C
                     /\ e[1] \in R => e[2] \in R
    BY <1>5, <1>6, <1>7, <1>8, JoinIsBoth
  <2>2. QED BY <2>1 DEF Closed
<1>11. \A r \in ToSet(manifest.roots) : /\ Compiles(r.classpath) => r.ga \in C
                                        /\ Runs(r.classpath) => r.ga \in R
  BY <1>3, <1>7, <1>8 DEF Landed, Covers
<1>12. ASSUME NEW r \in ToSet(manifest.roots), a \in Reach(E, r.ga)
       PROVE  /\ Compiles(r.classpath) => Compiles(selected[a].classpath)
              /\ Runs(r.classpath) => Runs(selected[a].classpath)
  <2>1. r.ga \in C => a \in C
    BY <1>3, <1>9, <1>10, <1>12, ReachIsLeast
  <2>2. r.ga \in R => a \in R
    BY <1>3, <1>9, <1>10, <1>12, ReachIsLeast
  <2>3. QED BY <1>7, <1>8, <1>11, <2>1, <2>2
<1>13. Just(selected[a].classpath, a)
  BY DEF LandInv, SelectedInv
<1>14. Compiles(selected[a].classpath) =>
         \E r \in {r \in ToSet(manifest.roots) : Path(r.ga, a)} : Compiles(r.classpath)
  BY <1>2, <1>4, <1>13 DEF Just, CompileRoot
<1>15. Runs(selected[a].classpath) =>
         \E r \in {r \in ToSet(manifest.roots) : Path(r.ga, a)} : Runs(r.classpath)
  BY <1>2, <1>4, <1>13 DEF Just, RunRoot
<1>16. ASSUME NEW r \in {r \in ToSet(manifest.roots) : Path(r.ga, a)}
       PROVE  /\ Compiles(r.classpath) => Compiles(selected[a].classpath)
              /\ Runs(r.classpath) => Runs(selected[a].classpath)
  BY <1>4, <1>12
<1>17. \A c : Compiles(c) \in BOOLEAN /\ Runs(c) \in BOOLEAN
  BY DEF Compiles, Runs
<1>18. QED BY <1>14, <1>15, <1>16, <1>17

-----------------------------------------------------------------------------
(* A workspace's one manifest.                                             *)

LEMMA SomeFirst ==
  ASSUME NEW S \in SUBSET Nat, S # {}
  PROVE  \E i \in S : \A j \in S : i <= j
<1>1. PICK i \in S : \A j \in S : ~(<<j, i>> \in OpToRel(<, Nat))
  BY NatLessThanWellFounded, WFMin
<1>2. \A j \in S : <<j, i>> \in OpToRel(<, Nat) <=> j < i
  BY DEF OpToRel
<1>3. \A j \in S : ~(j < i)
  BY <1>1, <1>2
<1>4. \A j \in S : j \in Nat /\ i \in Nat
  OBVIOUS
<1>5. QED BY <1>3, <1>4

LEMMA DeclareIsTyped ==
  ASSUME NEW sections \in [main : Seq(Root), dev : Seq(Root)], NEW d \in Root
  PROVE  Declare(sections, d) \in [main : Seq(Root), dev : Seq(Root)]
<1> DEFINE In(section) == {i \in DOMAIN section : section[i].ga = d.ga}
           Fold(section) == [i \in DOMAIN section |->
                               IF i \in In(section) THEN Merged(section[i], d) ELSE section[i]]
           position == CHOOSE i \in In(sections.dev) : \A j \in In(sections.dev) : i <= j
<1>1. \A r \in Root : Merged(r, d) \in Root
  BY DEF Merged, Root, Classpath
<1>2. ASSUME NEW section \in Seq(Root) PROVE Fold(section) \in Seq(Root)
  <2>1. PICK n \in Nat : n = Len(section) /\ DOMAIN section = 1..n
    OBVIOUS
  <2>2. PICK folded : folded = Fold(section)
    OBVIOUS
  <2>3. folded = [i \in 1..n |-> folded[i]]
    BY <2>1, <2>2
  <2>4. ASSUME NEW i \in 1..n PROVE folded[i] \in Root
    <3>1. section[i] \in Root
      BY <2>1
    <3>2. folded[i] = IF i \in In(section) THEN Merged(section[i], d) ELSE section[i]
      BY <2>1, <2>2
    <3>3. QED BY <1>1, <3>1, <3>2
  <2>5. folded \in Seq(Root)
    BY <2>1, <2>3, <2>4
  <2>6. QED BY <2>2, <2>5
<1>3. sections.main \in Seq(Root) /\ sections.dev \in Seq(Root)
  OBVIOUS
<1>4. ASSUME In(sections.dev) # {}
      PROVE  position \in 1..Len(sections.dev) /\ RemoveAt(sections.dev, position) \in Seq(Root)
  <2>1. PICK k : k \in In(sections.dev)
    BY <1>4
  <2>2. PICK n \in Nat : n = Len(sections.dev)
    OBVIOUS
  <2>3. In(sections.dev) \in SUBSET (1..n)
    BY <2>2
  <2>4. \E i \in In(sections.dev) : \A j \in In(sections.dev) : i <= j
    <3>1. PICK S : S = In(sections.dev)
      OBVIOUS
    <3>2. S \in SUBSET Nat /\ S # {}
      BY <2>1, <2>3, <3>1
    <3>3. QED BY <3>1, <3>2, SomeFirst
  <2>5. position \in In(sections.dev)
    BY <2>4
  <2> HIDE DEF position
  <2>6. position \in 1..n
    BY <2>3, <2>5
  <2>7. PICK dev, k1 : dev = sections.dev /\ k1 = position
    OBVIOUS
  <2>8. SubSeq(dev, 1, k1 - 1) \in Seq(Root) /\ SubSeq(dev, k1 + 1, Len(dev)) \in Seq(Root)
    BY <1>3, <2>2, <2>6, <2>7
  <2>9. QED BY <2>2, <2>6, <2>7, <2>8 DEF RemoveAt
<1>5. Declare(sections, d) =
        IF In(sections.main) # {} THEN [sections EXCEPT !.main = Fold(@)]
        ELSE IF d.classpath = "test"
        THEN [sections EXCEPT !.dev = IF In(@) # {} THEN Fold(@) ELSE Append(@, d)]
        ELSE IF In(sections.dev) = {} THEN [sections EXCEPT !.main = Append(@, d)]
        ELSE [main |-> Append(sections.main,
                              Merged([sections.dev[position] EXCEPT !.classpath = d.classpath], d)),
              dev |-> RemoveAt(sections.dev, position)]
  BY DEF Declare
<1>6. ASSUME In(sections.dev) # {}
      PROVE  [sections.dev[position] EXCEPT !.classpath = d.classpath] \in Root
  <2>1. PICK r \in Root : r = sections.dev[position]
    <3>1. position \in 1..Len(sections.dev)
      BY <1>4, <1>6
    <3> HIDE DEF position
    <3>2. QED BY <1>3, <3>1
  <2>2. [r EXCEPT !.classpath = d.classpath] \in Root
    BY DEF Root
  <2>3. QED BY <2>1, <2>2
<1>7. Fold(sections.main) \in Seq(Root) /\ Fold(sections.dev) \in Seq(Root)
  BY <1>2, <1>3
<1> HIDE DEF In, Fold, position
<1>8. CASE In(sections.main) # {}
  BY <1>5, <1>7, <1>8
<1>9. CASE In(sections.main) = {} /\ d.classpath = "test"
  <2>1. Append(sections.dev, d) \in Seq(Root)
    BY <1>3
  <2>2. PICK dev \in Seq(Root) :
          dev = IF In(sections.dev) # {} THEN Fold(sections.dev) ELSE Append(sections.dev, d)
    BY <1>7, <2>1
  <2>3. Declare(sections, d) = [sections EXCEPT !.dev = dev]
    BY <1>5, <1>9, <2>2
  <2>4. QED BY <2>2, <2>3
<1>10. CASE In(sections.main) = {} /\ d.classpath # "test" /\ In(sections.dev) = {}
  BY <1>3, <1>5, <1>10
<1>11. CASE In(sections.main) = {} /\ d.classpath # "test" /\ In(sections.dev) # {}
  <2>1. PICK r \in Root :
          r = Merged([sections.dev[position] EXCEPT !.classpath = d.classpath], d)
    BY <1>1, <1>6, <1>11
  <2>2. Append(sections.main, r) \in Seq(Root) /\ RemoveAt(sections.dev, position) \in Seq(Root)
    BY <1>3, <1>4, <1>11
  <2>3. QED BY <1>5, <1>11, <2>1, <2>2
<1>12. QED BY <1>8, <1>9, <1>10, <1>11

\* One sequence of several, one after the other.
Flattens(k, s, size) ==
  \A i \in 1..size : k[i] = IF i = 1 THEN s[i] ELSE k[i - 1] \o s[i]

LEMMA FlatUnfolds ==
  ASSUME NEW R, NEW size \in Nat \ {0}, NEW s \in [1..size -> Seq(R)]
  PROVE  \E k : FlattenSeq(s) = k[size] /\ Flattens(k, s, size)
<1> DEFINE flatten[i \in 1..Len(s)] == IF i = 1 THEN s[i] ELSE flatten[i - 1] \o s[i]
<1>1. Len(s) = size /\ size # 0
  <2>1. s \in Seq(Seq(R))
    OBVIOUS
  <2>2. QED BY <2>1
<1>2. FlattenSeq(s) = flatten[Len(s)]
  BY <1>1 DEF FlattenSeq
<1>3. PICK X : X = Seq(R)
  OBVIOUS
<1>4. PICK g \in [Nat -> [X -> X]] :
        \A n \in Nat, x \in X : g[n][x] = IF n + 1 \in 1..size THEN x \o s[n + 1] ELSE x
  <2>1. \A n \in Nat, x \in X : (IF n + 1 \in 1..size THEN x \o s[n + 1] ELSE x) \in X
    BY <1>3
  <2>2. [n \in Nat |-> [x \in X |-> IF n + 1 \in 1..size THEN x \o s[n + 1] ELSE x]]
          \in [Nat -> [X -> X]]
    BY <2>1
  <2>3. QED BY <2>2
<1>5. PICK none \in X : none = <<>>
  <2>1. <<>> \in X
    BY <1>3
  <2>2. QED BY <2>1
<1>6. PICK h \in [0..size -> X] :
        h[0] = none /\ \A n \in 1..size : h[n] = g[n - 1][h[n - 1]]
  <2>1. g \in [Nat -> [X -> X]]
    BY <1>4
  <2>2. Beginnings(X, none, g, size) # {}
    BY <2>1, SomeBeginning
  <2>3. QED BY <2>2 DEF Beginnings
<1>7. PICK f : f = [i \in 1..size |-> h[i]]
  OBVIOUS
<1>8. ASSUME NEW i \in 1..size PROVE f[i] = IF i = 1 THEN s[i] ELSE f[i - 1] \o s[i]
  <2>1. i - 1 \in Nat /\ i - 1 \in 0..size /\ (i - 1) + 1 = i /\ h[i - 1] \in X
    BY <1>6
  <2>2. h[i] = h[i - 1] \o s[i]
    <3>1. PICK n \in Nat, x \in X : n = i - 1 /\ x = h[i - 1] /\ n + 1 = i
      BY <2>1
    <3>2. h[i] = g[n][x]
      BY <1>6, <3>1
    <3>3. QED BY <1>4, <3>1, <3>2
  <2>3. CASE i = 1
    <3>1. s[i] \in Seq(R)
      OBVIOUS
    <3>2. <<>> \o s[i] = s[i]
      BY <3>1
    <3>3. h[i - 1] = <<>>
      BY <1>5, <1>6, <2>3
    <3>4. QED BY <1>7, <2>2, <2>3, <3>2, <3>3
  <2>4. CASE i # 1
    <3>1. i - 1 \in 1..size
      BY <2>1, <2>4
    <3>2. QED BY <1>7, <2>2, <2>4, <3>1
  <2>5. QED BY <2>3, <2>4
<1>9. f = [i \in 1..Len(s) |-> IF i = 1 THEN s[i] ELSE f[i - 1] \o s[i]]
  BY <1>1, <1>7, <1>8
<1>10. flatten = [i \in 1..Len(s) |-> IF i = 1 THEN s[i] ELSE flatten[i - 1] \o s[i]]
  BY <1>9
<1> HIDE DEF flatten
<1>11. PICK k : k = flatten
  OBVIOUS
<1>12. QED BY <1>1, <1>2, <1>10, <1>11 DEF Flattens

LEMMA FlatIsTyped ==
  ASSUME NEW R, NEW size \in Nat \ {0}, NEW s \in [1..size -> Seq(R)]
  PROVE  FlattenSeq(s) \in Seq(R)
<1>0. PICK k : FlattenSeq(s) = k[size] /\ Flattens(k, s, size)
  BY FlatUnfolds
<1>1. /\ FlattenSeq(s) = k[size]
      /\ \A i \in 1..size : k[i] = IF i = 1 THEN s[i] ELSE k[i - 1] \o s[i]
  BY <1>0 DEF Flattens
<1>2. size \in Nat /\ size # 0
  OBVIOUS
<1> DEFINE S == {n \in Nat : n + 1 <= size => k[n + 1] \in Seq(R)}
<1>13. 0 \in S
  <2>1. 1 \in 1..size
    OBVIOUS
  <2>2. k[1] = s[1]
    BY <1>1, <2>1
  <2>3. k[0 + 1] \in Seq(R)
    BY <2>1, <2>2
  <2>4. QED BY <2>3
<1>14. ASSUME NEW n \in S PROVE n + 1 \in S
  <2>1. n \in Nat
    OBVIOUS
  <2>2. ASSUME (n + 1) + 1 <= size PROVE k[(n + 1) + 1] \in Seq(R)
    <3>1. PICK m \in 2..size : m = (n + 1) + 1 /\ m - 1 = n + 1
      BY <2>1, <2>2
    <3>2. m \in 1..size /\ m # 1
      OBVIOUS
    <3>3. k[m] = k[m - 1] \o s[m]
      BY <1>1, <3>2
    <3>4. k[m - 1] \in Seq(R)
      BY <2>1, <2>2, <3>1
    <3>5. s[m] \in Seq(R)
      BY <3>2
    <3>6. QED BY <3>1, <3>3, <3>4, <3>5
  <2>3. QED BY <2>1, <2>2
<1>15. S = Nat
  BY <1>13, <1>14, Induct
<1>16. k[size] \in Seq(R)
  <2>1. PICK n \in Nat : n + 1 = size
    <3>1. size - 1 \in Nat /\ (size - 1) + 1 = size
      BY <1>2
    <3>2. QED BY <3>1
  <2>2. n \in S
    BY <1>15
  <2>3. QED BY <2>1, <2>2
<1>17. QED BY <1>1, <1>16

\* The two sections as they grow, a declaration at a time.
Sections == [main : Seq(Root), dev : Seq(Root)]
Declares(h, d, n) ==
  /\ \A i \in 1..n : d[i] \in Root
  /\ \A i \in 0..n : h[i] = IF i = 0 THEN [main |-> <<>>, dev |-> <<>>]
                           ELSE Declare(h[i - 1], d[i])

LEMMA SectionsAreTyped ==
  ASSUME NEW d, NEW h, NEW n \in Nat, Declares(h, d, n)
  PROVE  \A i \in 0..n : h[i] \in Sections
<1> DEFINE S == {i \in Nat : i <= n => h[i] \in Sections}
<1>1. 0 \in S
  <2>1. h[0] = [main |-> <<>>, dev |-> <<>>]
    BY DEF Declares
  <2>2. PICK none \in Seq(Root) : none = <<>>
    <3>1. <<>> \in Seq(Root)
      OBVIOUS
    <3>2. QED BY <3>1
  <2>3. [main |-> none, dev |-> none] \in Sections
    BY DEF Sections
  <2>4. QED BY <2>1, <2>2, <2>3
<1>2. ASSUME NEW i \in S PROVE i + 1 \in S
  <2>1. i \in Nat
    OBVIOUS
  <2>2. ASSUME i + 1 <= n PROVE h[i + 1] \in Sections
    <3>1. PICK j \in 1..n : j = i + 1 /\ j - 1 = i
      BY <2>1, <2>2
    <3>2. h[i] \in Sections
      BY <2>1, <2>2
    <3>3. j \in 0..n /\ j # 0
      OBVIOUS
    <3>4. h[j] = Declare(h[i], d[j]) /\ d[j] \in Root
      BY <3>1, <3>3 DEF Declares
    <3>5. PICK x \in Sections, r \in Root : x = h[i] /\ r = d[j]
      BY <3>2, <3>4
    <3>6. Declare(x, r) \in Sections
      BY DeclareIsTyped DEF Sections
    <3>7. QED BY <3>1, <3>4, <3>5, <3>6
  <2>3. QED BY <2>1, <2>2
<1>3. S = Nat
  BY <1>1, <1>2, Induct
<1>4. \A i \in 0..n : i \in S
  BY <1>3
<1>5. QED BY <1>4

\* Members in declaration order, and what they declare.
LEMMA AggregateUnfolds ==
  ASSUME NEW w, WorkspaceOK(w)
  PROVE  \E d, h : \E n \in Nat :
           /\ d = FlattenSeq([m \in 1..Cardinality(Members) |-> w.declared[m]])
           /\ n = Len(d) /\ Declares(h, d, n)
           /\ Aggregate(w).roots = h[n].main \o h[n].dev
<1> DEFINE all == FlattenSeq([m \in 1..Cardinality(Members) |-> w.declared[m]])
           sections[n \in 0..Len(all)] ==
             IF n = 0 THEN [main |-> <<>>, dev |-> <<>>] ELSE Declare(sections[n - 1], all[n])
<1>1. PICK X : X = [main : Seq(Root), dev : Seq(Root)]
  OBVIOUS
<1>2. PICK size \in Nat \ {0} : size = Cardinality(Members) /\ Members = 1..size
  <2>1. Cardinality(Members) \in Nat /\ Cardinality(Members) # 0
    BY MembersAssumption, FS_CardinalityType, FS_EmptySet
  <2>2. QED BY <2>1, MembersAssumption
<1>3. all \in Seq(Root)
  <2>1. PICK s : s = [m \in 1..size |-> w.declared[m]]
    OBVIOUS
  <2>2. s \in [1..size -> Seq(Root)]
    BY <1>2, <2>1 DEF WorkspaceOK
  <2>3. FlattenSeq(s) \in Seq(Root)
    BY <2>2, FlatIsTyped
  <2>4. all = FlattenSeq(s)
    BY <1>2, <2>1
  <2>5. QED BY <2>3, <2>4
<1>4. PICK d : d = all
  OBVIOUS
<1>5. PICK n \in Nat : n = Len(d) /\ \A i \in 1..n : d[i] \in Root
  <2> HIDE DEF all
  <2>1. d \in Seq(Root)
    BY <1>3, <1>4
  <2>2. Len(d) \in Nat /\ \A i \in 1..Len(d) : d[i] \in Root
    BY <2>1
  <2>3. QED BY <2>2
<1>6. PICK g \in [Nat -> [X -> X]] :
        \A i \in Nat, x \in X : i + 1 \in 1..n => g[i][x] = Declare(x, d[i + 1])
  <2>1. \A i \in Nat, x \in X :
          (IF i + 1 \in 1..n THEN Declare(x, d[i + 1]) ELSE x) \in X
    BY <1>1, <1>5, DeclareIsTyped
  <2>2. PICK k : k = [i \in Nat |-> [x \in X |-> IF i + 1 \in 1..n THEN Declare(x, d[i + 1]) ELSE x]]
    OBVIOUS
  <2>3. k \in [Nat -> [X -> X]]
    BY <2>1, <2>2
  <2>4. QED BY <2>2, <2>3
<1>7. PICK none \in X : none = [main |-> <<>>, dev |-> <<>>]
  <2>1. <<>> \in Seq(Root)
    OBVIOUS
  <2>2. [main |-> <<>>, dev |-> <<>>] \in X
    BY <1>1, <2>1
  <2>3. QED BY <2>2
<1>8. PICK f \in [0..n -> X] :
        f[0] = none /\ \A i \in 1..n : f[i] = g[i - 1][f[i - 1]]
  <2>1. g \in [Nat -> [X -> X]]
    BY <1>6
  <2>2. Beginnings(X, none, g, n) # {}
    BY <2>1, SomeBeginning
  <2>3. QED BY <2>2 DEF Beginnings
<1>9. ASSUME NEW i \in 0..n
      PROVE  f[i] = IF i = 0 THEN [main |-> <<>>, dev |-> <<>>] ELSE Declare(f[i - 1], d[i])
  <2>1. CASE i = 0
    BY <1>7, <1>8, <2>1
  <2>2. CASE i # 0
    <3>1. PICK j \in Nat, x \in X : j = i - 1 /\ x = f[i - 1] /\ j + 1 = i
      <4>1. i - 1 \in Nat /\ i - 1 \in 0..n /\ (i - 1) + 1 = i
        BY <2>2
      <4>2. QED BY <1>8, <4>1
    <3>2. i \in 1..n
      BY <2>2
    <3>3. f[i] = g[j][x]
      BY <1>8, <3>1, <3>2
    <3>4. QED BY <1>6, <2>2, <3>1, <3>2, <3>3
  <2>3. QED BY <2>1, <2>2
<1>10. f = [i \in 0..Len(all) |->
              IF i = 0 THEN [main |-> <<>>, dev |-> <<>>] ELSE Declare(f[i - 1], all[i])]
  BY <1>4, <1>5, <1>8, <1>9
<1>11. sections = [i \in 0..Len(all) |->
                     IF i = 0 THEN [main |-> <<>>, dev |-> <<>>]
                     ELSE Declare(sections[i - 1], all[i])]
  BY <1>10
<1>12. Aggregate(w).roots = sections[Len(all)].main \o sections[Len(all)].dev
  BY DEF Aggregate
<1> HIDE DEF sections
<1>13. PICK h : h = sections
  OBVIOUS
<1>14. \A i \in 0..n : h[i] = IF i = 0 THEN [main |-> <<>>, dev |-> <<>>]
                              ELSE Declare(h[i - 1], d[i])
  BY <1>4, <1>5, <1>11, <1>13
<1>15. d = FlattenSeq([m \in 1..Cardinality(Members) |-> w.declared[m]])
  BY <1>4
<1>16. Aggregate(w).roots = h[n].main \o h[n].dev
  BY <1>4, <1>5, <1>12, <1>13
<1>17. Declares(h, d, n)
  BY <1>5, <1>14 DEF Declares
<1>18. QED BY <1>5, <1>15, <1>16, <1>17

LEMMA AggregateIsTyped ==
  ASSUME NEW w, WorkspaceOK(w)
  PROVE  Aggregate(w).roots \in Seq(Root)
<1>1. PICK d, h : \E n \in Nat :
           /\ d = FlattenSeq([m \in 1..Cardinality(Members) |-> w.declared[m]])
           /\ n = Len(d) /\ Declares(h, d, n)
           /\ Aggregate(w).roots = h[n].main \o h[n].dev
  BY AggregateUnfolds
<1>2. PICK n \in Nat : Declares(h, d, n) /\ Aggregate(w).roots = h[n].main \o h[n].dev
  BY <1>1
<1>3. h[n] \in Sections
  BY <1>2, SectionsAreTyped
<1>4. QED BY <1>2, <1>3 DEF Sections

\* A project of its own is resolved from what it declares.
LEMMA ResolvedIsTyped ==
  ASSUME NEW w, WorkspaceOK(w)
  PROVE  Resolved(w).roots \in Seq(Root)
<1>1. w.declared[1] \in Seq(Root)
  <2>1. 1 \in Members
    <3>1. Cardinality(Members) \in Nat /\ Cardinality(Members) # 0
      BY MembersAssumption, FS_CardinalityType, FS_EmptySet
    <3>2. QED BY <3>1, MembersAssumption
  <2>2. QED BY <2>1 DEF WorkspaceOK
<1>2. CASE w.alone
  <2>1. "roots" \in DOMAIN Aggregate(w)
    BY DEF Aggregate
  <2>2. QED BY <1>1, <1>2, <2>1 DEF Resolved
<1>3. CASE ~w.alone
  BY <1>3, AggregateIsTyped DEF Resolved
<1>4. QED BY <1>2, <1>3

LEMMA TypedRootsAreOK ==
  ASSUME manifest.roots \in Seq(Root)
  PROVE  RootsOK
<1>1. PICK s \in Seq(Root) : s = manifest.roots
  OBVIOUS
<1>2. PICK R : R = {s[i] : i \in DOMAIN s}
  OBVIOUS
<1>3. s \in Seq(R)
  <2>1. \A i \in DOMAIN s : s[i] \in R
    BY <1>2
  <2>2. QED BY <2>1
<1>4. \A r \in R : r.ga \in Artifacts /\ r.classpath \in Classpath
  <2>1. \A r \in R : r \in Root
    BY <1>2
  <2>2. QED BY <2>1 DEF Root
<1>5. QED BY <1>1, <1>2, <1>3, <1>4 DEF RootsOK, ToSet

-----------------------------------------------------------------------------
(* Finite sets.                                                            *)

\* What holds of the empty set, and of a set with one more, holds of all.
LEMMA OneByOne ==
  ASSUME NEW S, IsFiniteSet(S), NEW P, {} \in P,
         \A T \in SUBSET S : \A x \in S : T \in P => T \cup {x} \in P
  PROVE  S \in P
<1> DEFINE N == {n \in Nat : \A T \in SUBSET S : Cardinality(T) <= n => T \in P}
<1>1. \A T \in SUBSET S : /\ IsFiniteSet(T) /\ Cardinality(T) \in Nat
                          /\ Cardinality(T) = 0 <=> T = {}
                          /\ \A x \in T : Cardinality(T \ {x}) = Cardinality(T) - 1
  BY FS_Subset, FS_CardinalityType, FS_EmptySet, FS_RemoveElement
<1>2. 0 \in N
  <2>1. \A T \in SUBSET S : Cardinality(T) <= 0 => T = {}
    BY <1>1
  <2>2. QED BY <2>1
<1>3. ASSUME NEW n \in N PROVE n + 1 \in N
  <2>1. ASSUME NEW T \in SUBSET S, Cardinality(T) <= n + 1, T # {} PROVE T \in P
    <3>1. PICK x : x \in T
      BY <2>1
    <3>2. Cardinality(T \ {x}) <= n /\ T \ {x} \in SUBSET S
      BY <1>1, <2>1, <3>1
    <3>3. T \ {x} \in P /\ x \in S /\ T = (T \ {x}) \cup {x}
      BY <3>1, <3>2
    <3>4. QED BY <3>2, <3>3
  <2>2. \A T \in SUBSET S : Cardinality(T) <= n + 1 => T \in P
    BY <2>1
  <2>3. QED BY <2>2
<1>4. N = Nat
  BY <1>2, <1>3, Induct
<1>5. PICK n \in Nat : n = Cardinality(S)
  BY <1>1
<1>6. n \in N
  BY <1>4
<1>7. QED BY <1>5, <1>6

\* Finitely many numbers have a bound.
LEMMA SomeBound ==
  ASSUME NEW S, IsFiniteSet(S), NEW f, \A x \in S : f[x] \in Nat
  PROVE  \E k \in Nat : \A x \in S : f[x] < k
<1> DEFINE P == {T \in SUBSET S : \E k \in Nat : \A x \in T : f[x] < k}
<1>1. {} \in P
  OBVIOUS
<1>2. ASSUME NEW T \in SUBSET S, NEW x \in S, T \in P PROVE T \cup {x} \in P
  <2>1. PICK k \in Nat : \A y \in T : f[y] < k
    BY <1>2
  <2>2. PICK l \in Nat : l = k + f[x] + 1
    OBVIOUS
  <2>3. \A y \in T \cup {x} : f[y] < l
    BY <2>1, <2>2
  <2>4. QED BY <2>3
<1>3. S \in P
  <2> HIDE DEF P
  <2>1. QED BY <1>1, <1>2, OneByOne
<1>4. QED BY <1>3

-----------------------------------------------------------------------------
(* Going on until something stops it.                                      *)

\* From where one comes to where.
Comes(S, stop, next) ==
  {p \in S \X S : \A R \in SUBSET (S \X S) :
     /\ \A t \in stop : <<t, t>> \in R
     /\ \A s \in S \ stop : \A t \in S : <<next[s], t>> \in R => <<s, t>> \in R
     => p \in R}

LEMMA ComesByStep ==
  ASSUME NEW S, NEW stop \in SUBSET S, NEW next \in [S -> S]
  PROVE  \A s, t \in S : <<s, t>> \in Comes(S, stop, next) <=>
           \/ s \in stop /\ t = s
           \/ s \notin stop /\ <<next[s], t>> \in Comes(S, stop, next)
<1> DEFINE C == Comes(S, stop, next)
           Kept1(R) == /\ \A t \in stop : <<t, t>> \in R
                       /\ \A s \in S \ stop : \A t \in S : <<next[s], t>> \in R => <<s, t>> \in R
           D == {p \in S \X S : \/ p[1] \in stop /\ p[2] = p[1]
                                \/ p[1] \notin stop /\ <<next[p[1]], p[2]>> \in C}
<1>1. \A p \in S \X S : p \in C <=> \A R \in SUBSET (S \X S) : Kept1(R) => p \in R
  BY DEF Comes
<1> HIDE DEF C
<1>2. Kept1(C)
  <2>1. \A t \in stop : <<t, t>> \in C
    BY <1>1
  <2>2. ASSUME NEW s \in S \ stop, NEW t \in S, <<next[s], t>> \in C PROVE <<s, t>> \in C
    <3>1. <<next[s], t>> \in S \X S /\ <<s, t>> \in S \X S
      OBVIOUS
    <3>2. QED BY <1>1, <2>2, <3>1
  <2>3. QED BY <2>1, <2>2
<1>3. D \subseteq C
  <2>1. SUFFICES ASSUME NEW s \in S, NEW t \in S, <<s, t>> \in D PROVE <<s, t>> \in C
    OBVIOUS
  <2>2. QED BY <1>2, <2>1
<1>4. Kept1(D)
  <2>1. \A t \in stop : <<t, t>> \in D
    OBVIOUS
  <2>2. ASSUME NEW s \in S \ stop, NEW t \in S, <<next[s], t>> \in D PROVE <<s, t>> \in D
    BY <1>3, <2>2
  <2>3. QED BY <2>1, <2>2
<1>5. C \subseteq D
  <2>1. C \subseteq S \X S
    BY DEF C, Comes
  <2>2. D \in SUBSET (S \X S)
    OBVIOUS
  <2> HIDE DEF D, Kept1
  <2>3. QED BY <1>1, <1>4, <2>1, <2>2
<1>6. \A s, t \in S : <<s, t>> \in C <=> <<s, t>> \in D
  BY <1>3, <1>5
<1>7. \A s, t \in S : <<s, t>> \in D <=> \/ s \in stop /\ t = s
                                         \/ s \notin stop /\ <<next[s], t>> \in C
  OBVIOUS
<1>8. QED BY <1>6, <1>7 DEF C

Recurs(f, S, stop, out, next) ==
  \A s \in S : f[s] = IF s \in stop THEN out[s] ELSE f[next[s]]

\* Such a function there is, whether it always stops or not.
LEMMA TailRecursion ==
  ASSUME NEW S, NEW stop \in SUBSET S, NEW out, NEW next \in [S -> S]
  PROVE  \E f : f = [s \in S |-> f[s]] /\ Recurs(f, S, stop, out, next)
<1>a. PICK C : C = Comes(S, stop, next)
  OBVIOUS
<1>1. \A s, t \in S : <<s, t>> \in C <=> \/ s \in stop /\ t = s
                                         \/ s \notin stop /\ <<next[s], t>> \in C
  BY <1>a, ComesByStep
<1>2. PICK E : E = [s \in S |-> {t \in S : <<s, t>> \in C}]
  OBVIOUS
<1>3. \A s \in S : E[s] = IF s \in stop THEN {s} ELSE E[next[s]]
  <2>1. SUFFICES ASSUME NEW s \in S PROVE E[s] = IF s \in stop THEN {s} ELSE E[next[s]]
    OBVIOUS
  <2>2. next[s] \in S
    OBVIOUS
  <2>3. CASE s \in stop
    <3>1. \A t \in S : <<s, t>> \in C <=> t = s
      BY <1>1, <2>3
    <3>2. E[s] = {s}
      BY <1>2, <3>1
    <3>3. QED BY <2>3, <3>2
  <2>4. CASE s \notin stop
    <3>1. \A t \in S : <<s, t>> \in C <=> <<next[s], t>> \in C
      BY <1>1, <2>4
    <3>2. QED BY <1>2, <2>2, <2>4, <3>1
  <2>5. QED BY <2>3, <2>4
<1>4. PICK f : f = [s \in S |-> IF E[s] = {} THEN 0 ELSE out[CHOOSE t : t \in E[s]]]
  OBVIOUS
<1>5. \A s \in S : f[s] = IF s \in stop THEN out[s] ELSE f[next[s]]
  <2>1. SUFFICES ASSUME NEW s \in S PROVE f[s] = IF s \in stop THEN out[s] ELSE f[next[s]]
    OBVIOUS
  <2>2. next[s] \in S
    OBVIOUS
  <2>3. CASE s \in stop
    <3>1. E[s] = {s}
      BY <1>3, <2>3
    <3>2. (CHOOSE t : t \in E[s]) = s
      BY <3>1
    <3>3. QED BY <1>4, <2>3, <3>1, <3>2
  <2>4. CASE s \notin stop
    <3>1. E[s] = E[next[s]]
      BY <1>3, <2>4
    <3>2. QED BY <1>4, <2>2, <2>4, <3>1
  <2>5. QED BY <2>3, <2>4
<1>6. f = [s \in S |-> f[s]]
  BY <1>4
<1>7. QED BY <1>5, <1>6 DEF Recurs

\* A set no step leaves, on which each lowers a number.
Falls(I, m, stop, next) == \A s \in I : s \notin stop => next[s] \in I /\ m[next[s]] < m[s]

\* It stops if each step lowers some number.
LEMMA WhereItStops ==
  ASSUME NEW S, NEW stop, NEW out, NEW next, NEW f,
         Recurs(f, S, stop, out, next), NEW I \in SUBSET S, NEW m \in [I -> Nat],
         Falls(I, m, stop, next)
  PROVE  \A s \in I : \E t \in I : t \in stop /\ f[s] = out[t]
<1> DEFINE Good(s) == \E t \in I : t \in stop /\ f[s] = out[t]
           N == {m[s] : s \in {s \in I : ~Good(s)}}
<1>1. SUFFICES ASSUME N # {} PROVE FALSE
  OBVIOUS
<1>2. N \in SUBSET Nat
  OBVIOUS
<1>3. PICK n \in N : \A k \in N : ~(<<k, n>> \in OpToRel(<, Nat))
  <2> HIDE DEF N
  <2>1. QED BY <1>1, <1>2, NatLessThanWellFounded, WFMin
<1>4. PICK s \in I : ~Good(s) /\ n = m[s]
  OBVIOUS
<1>5. s \notin stop
  BY <1>4 DEF Recurs
<1>6. next[s] \in I /\ m[next[s]] < m[s] /\ f[s] = f[next[s]]
  BY <1>5 DEF Recurs, Falls
<1>7. ~Good(next[s])
  BY <1>4, <1>6
<1>8. m[next[s]] \in N
  BY <1>6, <1>7
<1>9. <<m[next[s]], n>> \in OpToRel(<, Nat)
  BY <1>2, <1>4, <1>6, <1>8 DEF OpToRel
<1>10. QED BY <1>3, <1>8, <1>9

Growing(U, grow) == grow \in [SUBSET U -> SUBSET U] /\ \A S \in SUBSET U : S \subseteq grow[S]
Closes(f, U, grow) == \A S \in SUBSET U : f[S] = IF grow[S] = S THEN S ELSE f[grow[S]]

\* A set that grows within a finite one until it no longer does.
LEMMA GrowsUntilClosed ==
  ASSUME NEW U, IsFiniteSet(U), NEW grow, Growing(U, grow), NEW f, Closes(f, U, grow),
         NEW I \in SUBSET SUBSET U, \A S \in I : grow[S] \in I
  PROVE  \A S \in I : f[S] \in I /\ grow[f[S]] = f[S]
<1>0. /\ grow \in [SUBSET U -> SUBSET U] /\ \A S \in SUBSET U : S \subseteq grow[S]
      /\ \A S \in SUBSET U : f[S] = IF grow[S] = S THEN S ELSE f[grow[S]]
  BY DEF Growing, Closes
<1>1. PICK out : out = [S \in SUBSET U |-> S]
  OBVIOUS
<1>2. PICK stop : stop = {S \in SUBSET U : grow[S] = S}
  OBVIOUS
<1>3. PICK m : m = [S \in I |-> Cardinality(U \ S)]
  OBVIOUS
<1>4. ASSUME NEW S \in I PROVE m[S] \in Nat /\ (S \notin stop => m[grow[S]] < m[S])
  <2>1. IsFiniteSet(U \ S) /\ Cardinality(U \ S) \in Nat
    BY FS_Subset, FS_CardinalityType
  <2>2. ASSUME S \notin stop PROVE m[grow[S]] < m[S]
    <3>1. PICK A, B : A = U \ S /\ B = U \ grow[S]
      OBVIOUS
    <3>2. B \in SUBSET A /\ B # A
      BY <1>0, <1>2, <2>2, <3>1
    <3>3. IsFiniteSet(A) /\ Cardinality(A) \in Nat
      BY <2>1, <3>1
    <3>4. Cardinality(B) \in Nat /\ Cardinality(B) <= Cardinality(A)
          /\ Cardinality(B) # Cardinality(A)
      BY <3>2, <3>3, FS_Subset, FS_CardinalityType
    <3>5. m[grow[S]] = Cardinality(B) /\ m[S] = Cardinality(A)
      BY <1>3, <3>1
    <3>6. QED BY <3>3, <3>4, <3>5
  <2>3. QED BY <1>3, <2>1, <2>2
<1>5. m \in [I -> Nat]
  BY <1>3, <1>4
<1>6. PICK X : X = SUBSET U
  OBVIOUS
<1>7. Recurs(f, X, stop, out, grow)
  BY <1>0, <1>1, <1>2, <1>6 DEF Recurs
<1>8. \A S \in I : \E T \in I : T \in stop /\ f[S] = out[T]
  <2>1. I \in SUBSET X
    BY <1>6
  <2>2. Falls(I, m, stop, grow)
    BY <1>4 DEF Falls
  <2> HIDE <1>1, <1>2, <1>3, <1>6
  <2>3. QED BY <1>5, <1>7, <2>1, <2>2, WhereItStops
<1>9. QED BY <1>1, <1>2, <1>8

\* The function of such a closure.
LEMMA SomeClosure ==
  ASSUME NEW U, NEW grow, Growing(U, grow)
  PROVE  \E f : f = [S \in SUBSET U |-> f[S]] /\ Closes(f, U, grow)
<1>1. PICK out : out = [S \in SUBSET U |-> S]
  OBVIOUS
<1>2. PICK stop : stop = {S \in SUBSET U : grow[S] = S}
  OBVIOUS
<1>3. PICK X : X = SUBSET U
  OBVIOUS
<1>4. PICK f : f = [S \in X |-> f[S]] /\ Recurs(f, X, stop, out, grow)
  <2>1. stop \in SUBSET X /\ grow \in [X -> X]
    BY <1>2, <1>3 DEF Growing
  <2>2. QED BY <2>1, TailRecursion
<1>5. \A S \in SUBSET U : f[S] = IF grow[S] = S THEN S ELSE f[grow[S]]
  BY <1>1, <1>2, <1>3, <1>4 DEF Recurs, Growing
<1>6. f = [S \in SUBSET U |-> f[S]]
  BY <1>3, <1>4
<1>7. QED BY <1>5, <1>6 DEF Closes

\* What a declaration reaches within the graph: all it can, past nothing it
\* excludes.
LEMMA ReachedIsClosed ==
  ASSUME EdgesOK, DOMAIN selected \subseteq Artifacts, NEW r
  PROVE  \E X \in SUBSET Artifacts :
           /\ X = ReachedFrom(r)
           /\ {r.ga} \cap DOMAIN selected \subseteq X
           /\ \A e \in edges : e[1] \in X /\ ~Excluded(e[2], r.excludes) => e[2] \in X
<1> DEFINE start == {r.ga} \cap DOMAIN selected
           To(S) == {e[2] : e \in {e \in edges : e[1] \in S /\ ~Excluded(e[2], r.excludes)}}
           Closure[S \in SUBSET Artifacts] ==
             LET T == S \cup To(S)
             IN  IF T = S THEN S ELSE Closure[T]
<1>1. PICK U : U = Artifacts
  OBVIOUS
<1>a. \A S : To(S) \subseteq U
  BY <1>1 DEF EdgesOK
<1>b. \A S : \A e \in edges : e[1] \in S /\ ~Excluded(e[2], r.excludes) => e[2] \in To(S)
  OBVIOUS
<1>c. ReachedFrom(r) = Closure[start]
  BY DEF ReachedFrom
<1> HIDE DEF To
<1>2. PICK grow : grow = [S \in SUBSET U |-> S \cup To(S)]
  OBVIOUS
<1>d. \A S \in SUBSET U : /\ grow[S] = S \cup To(S) /\ S \subseteq grow[S]
                          /\ grow[S] \in SUBSET U
  BY <1>a, <1>2
<1>3. Growing(U, grow)
  BY <1>2, <1>d DEF Growing
<1>4. PICK f : f = [S \in SUBSET U |-> f[S]] /\ Closes(f, U, grow)
  BY <1>3, SomeClosure
<1>5. f = [S \in SUBSET Artifacts |-> IF S \cup To(S) = S THEN S ELSE f[S \cup To(S)]]
  <2>1. \A S \in SUBSET Artifacts : f[S] = IF S \cup To(S) = S THEN S ELSE f[S \cup To(S)]
    BY <1>1, <1>d, <1>4 DEF Closes
  <2>2. f = [S \in SUBSET Artifacts |-> f[S]]
    BY <1>1, <1>4
  <2>3. QED BY <2>1, <2>2
<1>6. Closure = [S \in SUBSET Artifacts |-> IF S \cup To(S) = S THEN S ELSE Closure[S \cup To(S)]]
  BY <1>5
<1> HIDE DEF Closure
<1>8. PICK g : g = Closure
  OBVIOUS
<1>9. Closes(g, U, grow)
  BY <1>1, <1>d, <1>6, <1>8 DEF Closes
<1>10. start \in SUBSET U
  BY <1>1
<1>11. PICK I : I = {S \in SUBSET U : start \subseteq S}
  OBVIOUS
<1>12. I \in SUBSET SUBSET U /\ start \in I /\ \A S \in I : grow[S] \in I
  BY <1>d, <1>10, <1>11
<1>13. IsFiniteSet(U)
  BY <1>1, EffectivePomAssumption
<1>14. \A S \in I : g[S] \in I /\ grow[g[S]] = g[S]
  BY <1>3, <1>9, <1>12, <1>13, GrowsUntilClosed
<1>15. PICK X : X = g[start]
  OBVIOUS
<1>16. X \in I /\ grow[X] = X
  BY <1>12, <1>14, <1>15
<1>17. X \in SUBSET U /\ start \subseteq X
  BY <1>11, <1>16
<1>18. \A e \in edges : e[1] \in X /\ ~Excluded(e[2], r.excludes) => e[2] \in X
  BY <1>b, <1>d, <1>16, <1>17
<1>19. QED BY <1>1, <1>c, <1>8, <1>15, <1>17, <1>18

\* What a declaration keeps is within every set of packages, each with what is
\* excluded there, that has the declaration's and all that each of it asks for.
DepsOK == /\ \A b \in Artifacts : \A d \in ToSet(Deps(b)) : d.ga \in Artifacts /\ d.excludes \subseteq Patterns
          /\ \A a : ManagedExcludes(a) \subseteq Patterns

AskedFor(p) == {<<d.ga, p[2] \cup d.excludes \cup ManagedExcludes(d.ga)>> :
                  d \in {d \in ToSet(Deps(p[1])) : Admissible(d, p[2])}}

LEMMA KeptIsLeast ==
  ASSUME DepsOK, NEW r, r.ga \in Artifacts, r.excludes \subseteq Patterns,
         NEW C \in SUBSET (Artifacts \X SUBSET Patterns),
         <<r.ga, r.excludes \cup ManagedExcludes(r.ga)>> \in C,
         \A p \in C : AskedFor(p) \subseteq C
  PROVE  \A a \in Kept(r) : \E p \in C : p[1] = a
<1> DEFINE From(p) == {<<d.ga, p[2] \cup d.excludes \cup ManagedExcludes(d.ga)>> :
                         d \in {d \in ToSet(Deps(p[1])) : Admissible(d, p[2])}}
           Closure[S \in SUBSET (Artifacts \X SUBSET Patterns)] ==
             LET T == S \cup UNION {From(p) : p \in S}
             IN  IF T = S THEN S ELSE Closure[T]
<1>1. PICK U : U = Artifacts \X SUBSET Patterns
  OBVIOUS
<1>2. PICK from : from = [p \in U |-> AskedFor(p)]
  OBVIOUS
<1>3. \A p \in U : from[p] = From(p) /\ from[p] \subseteq U
  <2>1. SUFFICES ASSUME NEW p \in U PROVE from[p] = From(p) /\ from[p] \subseteq U
    OBVIOUS
  <2>2. from[p] = From(p) /\ from[p] = AskedFor(p)
    BY <1>2 DEF AskedFor
  <2>3. p[1] \in Artifacts /\ p[2] \subseteq Patterns
    BY <1>1
  <2>4. \A d \in ToSet(Deps(p[1])) : d.ga \in Artifacts /\ d.excludes \subseteq Patterns
                                     /\ ManagedExcludes(d.ga) \subseteq Patterns
    BY <2>3 DEF DepsOK
  <2>5. \A d \in ToSet(Deps(p[1])) :
          <<d.ga, p[2] \cup d.excludes \cup ManagedExcludes(d.ga)>> \in U
    BY <1>1, <2>3, <2>4
  <2>6. QED BY <2>2, <2>5
<1>4. PICK grow : grow = [S \in SUBSET U |-> S \cup UNION {from[p] : p \in S}]
  OBVIOUS
<1>5. \A S \in SUBSET U : /\ grow[S] = S \cup UNION {from[p] : p \in S}
                          /\ S \subseteq grow[S] /\ grow[S] \in SUBSET U
  BY <1>3, <1>4
<1>6. Growing(U, grow)
  BY <1>4, <1>5 DEF Growing
<1>7. PICK f : f = [S \in SUBSET U |-> f[S]] /\ Closes(f, U, grow)
  BY <1>6, SomeClosure
<1>8. \A S \in SUBSET U : UNION {from[p] : p \in S} = UNION {From(p) : p \in S}
  BY <1>3
<1> HIDE DEF From
<1>9. \A S \in SUBSET U : grow[S] = S \cup UNION {From(p) : p \in S}
  BY <1>5, <1>8
<1>10. f = [S \in SUBSET (Artifacts \X SUBSET Patterns) |->
              IF S \cup UNION {From(p) : p \in S} = S THEN S
              ELSE f[S \cup UNION {From(p) : p \in S}]]
  <2>1. \A S \in SUBSET (Artifacts \X SUBSET Patterns) :
          f[S] = IF S \cup UNION {From(p) : p \in S} = S THEN S
                 ELSE f[S \cup UNION {From(p) : p \in S}]
    BY <1>1, <1>7, <1>9 DEF Closes
  <2>2. f = [S \in SUBSET (Artifacts \X SUBSET Patterns) |-> f[S]]
    BY <1>1, <1>7
  <2>3. QED BY <2>1, <2>2
<1>11. Closure = [S \in SUBSET (Artifacts \X SUBSET Patterns) |->
              IF S \cup UNION {From(p) : p \in S} = S THEN S
              ELSE Closure[S \cup UNION {From(p) : p \in S}]]
  BY <1>10
<1>12. Kept(r) = {p[1] : p \in Closure[{<<r.ga, r.excludes \cup ManagedExcludes(r.ga)>>}]}
  BY DEF Kept, From
<1> HIDE DEF Closure
<1>13. PICK g : g = Closure
  OBVIOUS
<1>14. Closes(g, U, grow)
  BY <1>1, <1>9, <1>11, <1>13 DEF Closes
<1>15. PICK I : I = SUBSET C
  OBVIOUS
<1>16. I \in SUBSET SUBSET U /\ \A S \in I : grow[S] \in I
  <2>1. \A p \in C : from[p] \subseteq C
    BY <1>1, <1>2
  <2>2. C \subseteq U
    BY <1>1
  <2>3. \A S \in SUBSET C : grow[S] \subseteq C
    BY <1>5, <2>1, <2>2
  <2>4. QED BY <1>15, <2>2, <2>3
<1>17. IsFiniteSet(U)
  <2>1. IsFiniteSet(Artifacts) /\ IsFiniteSet(Patterns)
    BY EffectivePomAssumption, FS_AddElement DEF Patterns
  <2>2. IsFiniteSet(SUBSET Patterns)
    BY <2>1, FS_SUBSET
  <2>3. QED BY <1>1, <2>1, <2>2, FS_Product
<1>18. \A S \in I : g[S] \in I
  BY <1>6, <1>14, <1>16, <1>17, GrowsUntilClosed
<1>19. g[{<<r.ga, r.excludes \cup ManagedExcludes(r.ga)>>}] \subseteq C
  BY <1>15, <1>18
<1>20. QED BY <1>12, <1>13, <1>19

-----------------------------------------------------------------------------
(* Joining classpaths.                                                     *)

\* All of a set's, joined.
LEMMA JoinedIsJoined ==
  ASSUME NEW S \in SUBSET Classpath, NEW c \in S
  PROVE  Join(FoldSet(Join, "test", S), c) = FoldSet(Join, "test", S)
<1> DEFINE All(s) == IF "compile" \in s \/ {"provided", "runtime"} \subseteq s THEN "compile"
                     ELSE IF "provided" \in s THEN "provided"
                     ELSE IF "runtime" \in s THEN "runtime" ELSE "test"
           pick(s) == CHOOSE x \in s : TRUE
           iter[s \in SUBSET S] ==
             IF s = {} THEN "test" ELSE Join(pick(s), iter[s \ {pick(s)}])
<1>1. ASSUME NEW s \in SUBSET S, NEW x \in s
      PROVE  Join(x, All(s \ {x})) = All(s)
  <2>1. x \in {"compile", "provided", "runtime", "test"}
    BY DEF Classpath
  <2>2. CASE x = "compile"
    BY <2>2 DEF Join
  <2>3. CASE x = "provided"
    BY <2>3 DEF Join
  <2>4. CASE x = "runtime"
    BY <2>4 DEF Join
  <2>5. CASE x = "test"
    BY <2>5 DEF Join
  <2>6. QED BY <2>1, <2>2, <2>3, <2>4, <2>5
<1>2. All({}) = "test"
  OBVIOUS
<1>3. \A s \in SUBSET S : s # {} => pick(s) \in s
  OBVIOUS
<1>4. FoldSet(Join, "test", S) = iter[S]
  BY DEF FoldSet, MapThenFoldSet
<1> HIDE DEF pick, All
<1>5. PICK f : f = [s \in SUBSET S |-> All(s)]
  OBVIOUS
<1>6. f = [s \in SUBSET S |-> IF s = {} THEN "test" ELSE Join(pick(s), f[s \ {pick(s)}])]
  <2>1. ASSUME NEW s \in SUBSET S
        PROVE  f[s] = IF s = {} THEN "test" ELSE Join(pick(s), f[s \ {pick(s)}])
    BY <1>1, <1>2, <1>3, <1>5
  <2>2. QED BY <1>5, <2>1
<1>7. iter = [s \in SUBSET S |-> IF s = {} THEN "test" ELSE Join(pick(s), iter[s \ {pick(s)}])]
  BY <1>6
<1> HIDE DEF iter
<1>8. PICK g : g = iter
  OBVIOUS
<1>9. \A s \in SUBSET S : g[s] = IF s = {} THEN "test" ELSE Join(pick(s), g[s \ {pick(s)}])
  BY <1>7, <1>8
<1>10. IsFiniteSet(S)
  <2>1. IsFiniteSet({}) /\ \A T, x : IsFiniteSet(T) => IsFiniteSet(T \cup {x})
    BY FS_EmptySet, FS_AddElement
  <2>2. Classpath = ((({} \cup {"compile"}) \cup {"provided"}) \cup {"runtime"}) \cup {"test"}
    BY DEF Classpath
  <2>3. IsFiniteSet(Classpath)
    BY <2>1, <2>2
  <2>4. QED BY <2>3, FS_Subset
<1> DEFINE N == {n \in Nat : \A s \in SUBSET S : Cardinality(s) <= n => g[s] = All(s)}
<1>11. \A s \in SUBSET S : /\ IsFiniteSet(s) /\ Cardinality(s) \in Nat
                           /\ Cardinality(s) = 0 <=> s = {}
                           /\ \A x \in s : Cardinality(s \ {x}) = Cardinality(s) - 1
  BY <1>10, FS_Subset, FS_CardinalityType, FS_EmptySet, FS_RemoveElement
<1>12. 0 \in N
  <2>1. \A s \in SUBSET S : Cardinality(s) <= 0 => s = {}
    BY <1>11
  <2>2. QED BY <1>2, <1>9, <2>1
<1>13. ASSUME NEW n \in N PROVE n + 1 \in N
  <2>1. ASSUME NEW s \in SUBSET S, Cardinality(s) <= n + 1, s # {} PROVE g[s] = All(s)
    <3>1. PICK x \in s : x = pick(s)
      BY <1>3, <2>1
    <3>2. Cardinality(s \ {x}) <= n /\ s \ {x} \in SUBSET S
      BY <1>11, <2>1
    <3>3. g[s \ {x}] = All(s \ {x})
      BY <3>2
    <3>4. QED BY <1>1, <1>9, <2>1, <3>1, <3>3
  <2>2. \A s \in SUBSET S : Cardinality(s) <= n + 1 => g[s] = All(s)
    BY <1>2, <1>9, <2>1
  <2>3. QED BY <2>2
<1>14. N = Nat
  BY <1>12, <1>13, Induct
<1>15. g[S] = All(S)
  <2>1. PICK n \in Nat : n = Cardinality(S)
    BY <1>11
  <2>2. n \in N
    BY <1>14
  <2>3. QED BY <2>1, <2>2
<1>16. Join(All(S), c) = All(S)
  BY DEF All, Join, Classpath
<1>17. QED BY <1>4, <1>8, <1>15, <1>16

-----------------------------------------------------------------------------
(* The members a member depends on.                                        *)

\* What a workspace is made of.
Workable == /\ workspace \in Workspaces /\ modules = workspace.modules
            /\ pom = Effective(workspace.repo) /\ manifest = Resolved(workspace)

Listed == Members \X Classpath
Reached == UNION {[D -> Classpath] : D \in SUBSET Members}

LEMMA WorkableIsTyped ==
  ASSUME Workable
  PROVE  /\ WorkspaceOK(workspace) /\ modules \in [Members -> Seq(Members)]
         /\ workspace.on \in [Members -> Seq(Classpath)]
         /\ \A m \in Members : Len(workspace.on[m]) = Len(modules[m])
<1>1. WorkspaceOK(workspace)
  BY WorkspacesAssumption DEF Workable
<1>2. QED BY <1>1, ModuleEdgesAssumption DEF Workable, WorkspaceOK

LEMMA ModulesAreListed ==
  ASSUME Workable, NEW m \in Members
  PROVE  ModulesOf(m) \in Seq(Listed)
<1>1. PICK s \in Seq(Members), t \in Seq(Classpath) :
        s = modules[m] /\ t = workspace.on[m] /\ Len(s) = Len(t)
  BY WorkableIsTyped
<1>2. PICK n \in Nat : n = Len(s) /\ DOMAIN s = 1..n
  OBVIOUS
<1>3. ModulesOf(m) = [i \in 1..n |-> <<s[i], t[i]>>]
  BY <1>1, <1>2 DEF ModulesOf
<1>4. \A i \in 1..n : <<s[i], t[i]>> \in Listed
  BY <1>1, <1>2 DEF Listed
<1>5. QED BY <1>3, <1>4

LEMMA PassedAreListed ==
  ASSUME Workable, NEW u \in Members, NEW via \in Classpath
  PROVE  Passed(u, via) \in Seq(Listed)
<1>1. PICK s \in Seq(Members), t \in Seq(Classpath) :
        s = modules[u] /\ t = workspace.on[u] /\ Len(s) = Len(t)
  BY WorkableIsTyped
<1>2. PICK n \in Nat : n = Len(s) /\ DOMAIN s = 1..n
  OBVIOUS
<1>3. PICK all : all = [i \in 1..n |-> IF Carried(via, t[i]) = "none" THEN <<>>
                                       ELSE <<<<s[i], Carried(via, t[i])>>>>]
  OBVIOUS
<1>4. Passed(u, via) = FlattenSeq(all)
  BY <1>1, <1>2, <1>3 DEF Passed
<1>5. ASSUME NEW i \in 1..n PROVE all[i] \in Seq(Listed)
  <2>1. s[i] \in Members /\ t[i] \in Classpath
    BY <1>1, <1>2
  <2>2. Carried(via, t[i]) # "none" => Carried(via, t[i]) \in Classpath
    BY <2>1 DEF Carried, Classpath
  <2>3. CASE Carried(via, t[i]) = "none"
    BY <1>3, <2>3
  <2>4. CASE Carried(via, t[i]) # "none"
    <3>1. PICK x \in Listed : x = <<s[i], Carried(via, t[i])>>
      BY <2>1, <2>2, <2>4 DEF Listed
    <3>2. <<x>> \in Seq(Listed)
      OBVIOUS
    <3>3. QED BY <1>3, <2>4, <3>1, <3>2
  <2>5. QED BY <2>3, <2>4
<1>6. all \in [1..n -> Seq(Listed)]
  BY <1>3, <1>5
<1>7. CASE n = 0
  <2>1. all \in Seq(Listed) /\ Len(all) = 0
    BY <1>6, <1>7
  <2>2. FlattenSeq(all) = all
    BY <2>1 DEF FlattenSeq
  <2>3. QED BY <1>4, <2>1, <2>2
<1>8. CASE n # 0
  <2>1. n \in Nat \ {0}
    BY <1>8
  <2>2. FlattenSeq(all) \in Seq(Listed)
    BY <1>6, <2>1, FlatIsTyped
  <2>3. QED BY <1>4, <2>2
<1>9. QED BY <1>7, <1>8

\* How much of what may be found is found.
Height(c) == IF c = "test" THEN 1 ELSE IF c = "compile" THEN 3 ELSE 2
Found(reached) == {p \in Members \X (1..3) :
                     p[1] \in DOMAIN reached /\ p[2] <= Height(reached[p[1]])}

LEMMA JoinIsHigher ==
  ASSUME NEW c \in Classpath, NEW d \in Classpath
  PROVE  /\ Join(c, d) \in Classpath /\ Height(c) \in 1..3
         /\ Height(c) <= Height(Join(c, d))
         /\ Join(c, d) # c => Height(c) < Height(Join(c, d))
  BY DEF Join, Height, Classpath

LEMMA LowerByOne ==
  ASSUME NEW a \in Nat, NEW b \in Nat, NEW k \in Nat, b < a
  PROVE  b * k + k <= a * k /\ a * k \in Nat /\ b * k \in Nat
<1>1. PICK j \in Nat : a = b + 1 + j
  <2>1. a - b - 1 \in Nat /\ a = b + 1 + (a - b - 1)
    OBVIOUS
  <2>2. QED BY <2>1
<1>2. a * k = b * k + k + j * k
  BY <1>1
<1>3. j * k \in Nat /\ b * k \in Nat
  OBVIOUS
<1>4. QED BY <1>2, <1>3

\* The walk of a member's modules: what is yet to look at and what is found,
\* and one turn of it.
Searching == [queue : Seq(Listed), reached : Reached]
Turn(m, s) ==
  LET u == Head(s.queue)[1]
      c == Head(s.queue)[2]
      known == u \in DOMAIN s.reached
      joined == IF known THEN Join(s.reached[u], c) ELSE c
  IN  IF u = m \/ (known /\ joined = s.reached[u])
      THEN [s EXCEPT !.queue = Tail(@)]
      ELSE [queue |-> Tail(s.queue) \o Passed(u, c),
            reached |-> [x \in DOMAIN s.reached \cup {u} |->
                           IF x = u THEN joined ELSE s.reached[x]]]

LEMMA ReachedIs ==
  ASSUME NEW f
  PROVE  f \in Reached <=> /\ DOMAIN f \in SUBSET Members
                           /\ f = [x \in DOMAIN f |-> f[x]]
                           /\ \A x \in DOMAIN f : f[x] \in Classpath
<1>1. ASSUME f \in Reached PROVE /\ DOMAIN f \in SUBSET Members
                                 /\ f = [x \in DOMAIN f |-> f[x]]
                                 /\ \A x \in DOMAIN f : f[x] \in Classpath
  <2>1. PICK D \in SUBSET Members : f \in [D -> Classpath]
    BY <1>1 DEF Reached
  <2>2. QED BY <2>1
<1>2. ASSUME DOMAIN f \in SUBSET Members, f = [x \in DOMAIN f |-> f[x]],
             \A x \in DOMAIN f : f[x] \in Classpath
      PROVE  f \in Reached
  <2>1. f \in [DOMAIN f -> Classpath]
    BY <1>2
  <2>2. QED BY <1>2, <2>1 DEF Reached
<1>3. QED BY <1>1, <1>2

\* A turn looks at one, and either that is all or something more is found.
LEMMA TurnGoesOn ==
  ASSUME Workable, NEW m \in Members, NEW s \in Searching, s.queue # <<>>
  PROVE  LET t == Turn(m, s)
         IN  /\ t \in Searching
             /\ \/ t.reached = s.reached /\ Len(t.queue) = Len(s.queue) - 1
                \/ /\ Found(s.reached) \subseteq Found(t.reached)
                   /\ Found(s.reached) # Found(t.reached)
                   /\ \E u \in Members, c \in Classpath :
                        Len(t.queue) = Len(s.queue) - 1 + Len(Passed(u, c))
<1>1. PICK q \in Seq(Listed), f \in Reached : q = s.queue /\ f = s.reached /\ q # <<>>
      /\ s = [queue |-> q, reached |-> f]
  BY DEF Searching
<1>2. Head(q) \in Listed /\ Tail(q) \in Seq(Listed) /\ Len(Tail(q)) = Len(q) - 1
  BY <1>1
<1>3. PICK u \in Members, c \in Classpath : Head(q)[1] = u /\ Head(q)[2] = c
  BY <1>2 DEF Listed
<1>4. DOMAIN f \in SUBSET Members /\ \A x \in DOMAIN f : f[x] \in Classpath
  BY ReachedIs
<1>5. PICK j : j = IF u \in DOMAIN f THEN Join(f[u], c) ELSE c
  OBVIOUS
<1>6. j \in Classpath /\ Height(j) \in 1..3
  BY <1>4, <1>5, JoinIsHigher
<1>7. CASE u = m \/ (u \in DOMAIN f /\ j = f[u])
  <2>1. Turn(m, s) = [queue |-> Tail(q), reached |-> f]
    BY <1>1, <1>3, <1>5, <1>7 DEF Turn
  <2>2. QED BY <1>1, <1>2, <2>1 DEF Searching
<1>8. CASE ~(u = m \/ (u \in DOMAIN f /\ j = f[u]))
  <2>1. PICK g : g = [x \in DOMAIN f \cup {u} |-> IF x = u THEN j ELSE f[x]]
    OBVIOUS
  <2>2. PICK p \in Seq(Listed) : p = Passed(u, c)
    BY PassedAreListed
  <2>3. Turn(m, s) = [queue |-> Tail(q) \o p, reached |-> g]
    BY <1>1, <1>3, <1>5, <1>8, <2>1, <2>2 DEF Turn
  <2>4. g \in Reached
    <3>1. DOMAIN g = DOMAIN f \cup {u}
      BY <2>1
    <3>2. DOMAIN g \in SUBSET Members /\ \A x \in DOMAIN g : g[x] \in Classpath
      BY <1>4, <1>6, <2>1, <3>1
    <3>3. g = [x \in DOMAIN g |-> g[x]]
      BY <2>1
    <3>4. QED BY <3>2, <3>3, ReachedIs
  <2>5. Tail(q) \o p \in Seq(Listed) /\ Len(Tail(q) \o p) = Len(q) - 1 + Len(p)
    BY <1>2, <2>2
  <2>6. \A x \in DOMAIN f : Height(f[x]) \in 1..3
    BY <1>4, JoinIsHigher
  <2>7. u \in DOMAIN f => Height(f[u]) < Height(j)
    BY <1>4, <1>5, <1>8, JoinIsHigher
  <2>8. Found(f) \subseteq Found(g)
    <3>1. SUFFICES ASSUME NEW x \in DOMAIN f PROVE x \in DOMAIN g /\ Height(f[x]) <= Height(g[x])
      BY <2>1, <2>6, <1>6, <2>7 DEF Found
    <3>2. QED BY <1>6, <2>1, <2>6, <2>7
  <2>9. <<u, Height(j)>> \in Found(g) /\ <<u, Height(j)>> \notin Found(f)
    BY <1>6, <2>1, <2>6, <2>7 DEF Found
  <2>10. Turn(m, s) \in Searching
    BY <2>3, <2>4, <2>5 DEF Searching
  <2>11. Len(Turn(m, s).queue) = Len(s.queue) - 1 + Len(Passed(u, c))
    <3>1. Turn(m, s).queue = Tail(q) \o p
      BY <2>3
    <3>2. QED BY <1>1, <2>2, <2>5, <3>1
  <2>12. Turn(m, s).reached = g /\ s.reached = f
    BY <1>1, <2>3
  <2>13. QED BY <2>8, <2>9, <2>10, <2>11, <2>12
<1>9. QED BY <1>7, <1>8

LEMMA UpstreamIsTyped ==
  ASSUME Workable, NEW m \in Members
  PROVE  UpstreamOf(m) \in Reached
<1> DEFINE Body(h) ==
             [s \in [queue : Seq(Members \X Classpath),
                     reached : UNION {[S -> Classpath] : S \in SUBSET Members}] |->
                IF s.queue = <<>> THEN s.reached
                ELSE LET u == Head(s.queue)[1]
                         c == Head(s.queue)[2]
                         known == u \in DOMAIN s.reached
                         joined == IF known THEN Join(s.reached[u], c) ELSE c
                     IN  IF u = m \/ (known /\ joined = s.reached[u])
                         THEN h[[s EXCEPT !.queue = Tail(@)]]
                         ELSE h[[queue |-> Tail(s.queue) \o Passed(u, c),
                                 reached |-> [x \in DOMAIN s.reached \cup {u} |->
                                                IF x = u THEN joined ELSE s.reached[x]]]]]
           search == CHOOSE h : h = Body(h)
           start == [queue |-> ModulesOf(m), reached |-> [x \in {} |-> "none"]]
<1>1. UpstreamOf(m) = search[start]
  BY DEF UpstreamOf
<1>2. PICK S : S = Searching
  OBVIOUS
<1>3. PICK stop : stop = {s \in S : s.queue = <<>>}
  OBVIOUS
<1>4. PICK out : out = [s \in S |-> s.reached]
  OBVIOUS
<1>5. PICK next : next = [s \in S |-> IF s.queue = <<>> THEN s ELSE Turn(m, s)]
  OBVIOUS
<1>6. \A s \in S : s.queue # <<>> => Turn(m, s) \in S
  BY <1>2, TurnGoesOn
<1>7. next \in [S -> S]
  BY <1>5, <1>6
<1>8. PICK f : f = [s \in S |-> f[s]] /\ Recurs(f, S, stop, out, next)
  <2>1. stop \in SUBSET S
    BY <1>3
  <2>2. QED BY <1>7, <2>1, TailRecursion
<1>9. ASSUME NEW h
      PROVE  Body(h) = [s \in Searching |-> IF s.queue = <<>> THEN s.reached ELSE h[Turn(m, s)]]
  BY DEF Searching, Listed, Reached, Turn
<1> HIDE DEF Body
<1>10. f = [s \in Searching |-> IF s.queue = <<>> THEN s.reached ELSE f[Turn(m, s)]]
  <2>1. \A s \in S : f[s] = IF s.queue = <<>> THEN s.reached ELSE f[Turn(m, s)]
    BY <1>3, <1>4, <1>5, <1>8 DEF Recurs
  <2>2. QED BY <1>2, <1>8, <2>1
<1>11. search = [s \in Searching |-> IF s.queue = <<>> THEN s.reached ELSE search[Turn(m, s)]]
  <2>1. f = Body(f)
    BY <1>9, <1>10
  <2>2. search = Body(search)
    BY <2>1
  <2> HIDE DEF search
  <2>3. QED BY <1>9, <2>2
<1> HIDE DEF search
<1>12. PICK g : g = search
  OBVIOUS
<1>13. Recurs(g, S, stop, out, next)
  BY <1>2, <1>3, <1>4, <1>5, <1>11, <1>12 DEF Recurs
<1>14. start \in S
  <2>1. start.reached \in Reached
    BY ReachedIs
  <2>2. QED BY <1>2, <2>1, ModulesAreListed DEF Searching
<1>15. PICK F : F = Members \X (1..3)
  OBVIOUS
<1>16. IsFiniteSet(F) /\ \A r : Found(r) \in SUBSET F
  <2>1. IsFiniteSet(Members)
    BY MembersAssumption
  <2>2. IsFiniteSet(1..3)
    BY FS_Interval, 1 \in Int, 3 \in Int
  <2>3. QED BY <1>15, <2>1, <2>2, FS_Product DEF Found
<1>17. PICK k \in Nat : \A u \in Members, c \in Classpath : Len(Passed(u, c)) < k
  <2>1. PICK L : L = [x \in Listed |-> Len(Passed(x[1], x[2]))]
    OBVIOUS
  <2>2. \A x \in Listed : L[x] \in Nat
    BY <2>1, PassedAreListed DEF Listed
  <2>3. IsFiniteSet(Listed)
    <3>1. IsFiniteSet({}) /\ \A T, x : IsFiniteSet(T) => IsFiniteSet(T \cup {x})
      BY FS_EmptySet, FS_AddElement
    <3>2. Classpath = ((({} \cup {"compile"}) \cup {"provided"}) \cup {"runtime"}) \cup {"test"}
      BY DEF Classpath
    <3>3. IsFiniteSet(Classpath)
      BY <3>1, <3>2
    <3>4. QED BY <3>3, MembersAssumption, FS_Product DEF Listed
  <2>4. PICK k \in Nat : \A x \in Listed : L[x] < k
    BY <2>2, <2>3, SomeBound
  <2>5. \A u \in Members, c \in Classpath : L[<<u, c>>] = Len(Passed(u, c)) /\ <<u, c>> \in Listed
    BY <2>1 DEF Listed
  <2>6. QED BY <2>4, <2>5
<1>18. PICK left : left = [s \in S |-> Cardinality(F \ Found(s.reached))]
  OBVIOUS
<1>19. \A s \in S : left[s] \in Nat /\ Len(s.queue) \in Nat
  BY <1>2, <1>16, <1>18, FS_Subset, FS_CardinalityType DEF Searching
<1>20. PICK n : n = [s \in S |-> left[s] * k + Len(s.queue)]
  OBVIOUS
<1>21. n \in [S -> Nat]
  <2>1. \A s \in S : left[s] * k + Len(s.queue) \in Nat
    BY <1>17, <1>19
  <2>2. QED BY <1>20, <2>1
<1>22. ASSUME NEW s \in S, s.queue # <<>> PROVE n[Turn(m, s)] < n[s]
  <2>1. PICK t \in S : t = Turn(m, s)
    BY <1>6, <1>22
  <2>2. CASE t.reached = s.reached /\ Len(t.queue) = Len(s.queue) - 1
    <3>1. left[t] = left[s]
      BY <1>18, <2>2
    <3>2. QED BY <1>17, <1>19, <1>20, <2>1, <2>2, <3>1
  <2>3. ASSUME Found(s.reached) \subseteq Found(t.reached), Found(s.reached) # Found(t.reached),
               NEW u \in Members, NEW c \in Classpath,
               Len(t.queue) = Len(s.queue) - 1 + Len(Passed(u, c))
        PROVE  n[t] < n[s]
    <3>1. PICK A, B : A = F \ Found(s.reached) /\ B = F \ Found(t.reached)
      OBVIOUS
    <3>2. B \in SUBSET A /\ B # A /\ IsFiniteSet(A)
      BY <1>16, <2>3, <3>1, FS_Subset
    <3>3. Cardinality(B) <= Cardinality(A) /\ Cardinality(B) # Cardinality(A)
      BY <3>2, FS_Subset
    <3>4. left[t] < left[s]
      BY <1>18, <1>19, <3>1, <3>3
    <3>5. left[t] * k + k <= left[s] * k /\ left[s] * k \in Nat /\ left[t] * k \in Nat
      BY <1>17, <1>19, <3>4, LowerByOne
    <3>6. Len(Passed(u, c)) < k /\ Len(Passed(u, c)) \in Nat
      BY <1>17, PassedAreListed
    <3>7. PICK x \in Nat, y \in Nat, a \in Nat, b \in Nat, l \in Nat :
            x = left[t] * k /\ y = left[s] * k /\ a = Len(t.queue) /\ b = Len(s.queue)
            /\ l = Len(Passed(u, c))
      BY <1>19, <3>5, <3>6
    <3>8. n[t] = x + a /\ n[s] = y + b
      BY <1>20, <3>7
    <3>9. x + k <= y /\ a = b - 1 + l /\ l < k
      BY <2>3, <3>5, <3>6, <3>7
    <3>10. QED BY <3>8, <3>9
  <2>4. \/ t.reached = s.reached /\ Len(t.queue) = Len(s.queue) - 1
        \/ /\ Found(s.reached) \subseteq Found(t.reached)
           /\ Found(s.reached) # Found(t.reached)
           /\ \E u \in Members, c \in Classpath :
                Len(t.queue) = Len(s.queue) - 1 + Len(Passed(u, c))
    <3>1. s \in Searching /\ s.queue # <<>>
      BY <1>2, <1>22
    <3>2. LET d == Turn(m, s)
          IN  /\ d \in Searching
              /\ \/ d.reached = s.reached /\ Len(d.queue) = Len(s.queue) - 1
                 \/ /\ Found(s.reached) \subseteq Found(d.reached)
                    /\ Found(s.reached) # Found(d.reached)
                    /\ \E u \in Members, c \in Classpath :
                         Len(d.queue) = Len(s.queue) - 1 + Len(Passed(u, c))
      BY <3>1, TurnGoesOn
    <3>3. QED BY <2>1, <3>2
  <2>5. QED BY <2>1, <2>2, <2>3, <2>4
<1>23. Falls(S, n, stop, next)
  BY <1>3, <1>5, <1>6, <1>22 DEF Falls
<1>24. \E t \in S : t \in stop /\ g[start] = out[t]
  <2> HIDE DEF start
  <2>1. QED BY <1>13, <1>14, <1>21, <1>23, WhereItStops
<1>25. QED BY <1>1, <1>2, <1>4, <1>12, <1>24 DEF Searching

-----------------------------------------------------------------------------
(* What the aggregate keeps of each declaration.                           *)

\* A declaration that excludes no more than d is among them.
Holds(s, d) == \E i \in 1..Len(s) : s[i].ga = d.ga /\ s[i].excludes \subseteq d.excludes
Covering(sections, d) == Holds(sections.main, d) \/ Holds(sections.dev, d)

LEMMA AppendHolds ==
  ASSUME NEW s \in Seq(Root), NEW x \in Root, NEW e
  PROVE  /\ Holds(s, e) => Holds(Append(s, x), e)
         /\ x.ga = e.ga /\ x.excludes \subseteq e.excludes => Holds(Append(s, x), e)
<1>1. PICK n \in Nat : n = Len(s)
  OBVIOUS
<1>2. PICK t : t = Append(s, x)
  OBVIOUS
<1>3. Len(t) = n + 1 /\ t[n + 1] = x /\ \A i \in 1..n : t[i] = s[i]
  BY <1>1, <1>2
<1>4. QED BY <1>1, <1>2, <1>3 DEF Holds

LEMMA RemoveHolds ==
  ASSUME NEW s \in Seq(Root), NEW k \in 1..Len(s), NEW e, Holds(s, e)
  PROVE  \/ s[k].ga = e.ga /\ s[k].excludes \subseteq e.excludes
         \/ Holds(RemoveAt(s, k), e)
<1>1. PICK n \in Nat : n = Len(s)
  OBVIOUS
<1>2. PICK t : t = RemoveAt(s, k)
  OBVIOUS
<1>3. /\ Len(t) = n - 1 /\ \A i \in 1..(k - 1) : t[i] = s[i]
      /\ \A i \in k..(n - 1) : t[i] = s[i + 1]
  <2>1. PICK a, b : a = SubSeq(s, 1, k - 1) /\ b = SubSeq(s, k + 1, n)
    OBVIOUS
  <2>2. a \in Seq(Root) /\ Len(a) = k - 1 /\ \A i \in 1..(k - 1) : a[i] = s[i]
    BY <1>1, <2>1
  <2>3. b \in Seq(Root) /\ Len(b) = n - k /\ \A i \in 1..(n - k) : b[i] = s[k + i]
    BY <1>1, <2>1
  <2>4. t = a \o b
    BY <1>1, <1>2, <2>1 DEF RemoveAt
  <2>5. Len(t) = n - 1 /\ \A i \in 1..(n - 1) : t[i] = IF i <= k - 1 THEN a[i] ELSE b[i - (k - 1)]
    BY <1>1, <2>2, <2>3, <2>4
  <2>6. ASSUME NEW i \in k..(n - 1) PROVE t[i] = s[i + 1]
    <3>1. PICK j \in 1..(n - k) : j = i - (k - 1) /\ k + j = i + 1
      BY <1>1
    <3>2. i \in 1..(n - 1) /\ ~(i <= k - 1)
      BY <1>1
    <3>3. QED BY <2>3, <2>5, <3>1, <3>2
  <2>7. ASSUME NEW i \in 1..(k - 1) PROVE t[i] = s[i]
    <3>1. i \in 1..(n - 1) /\ i <= k - 1
      BY <1>1
    <3>2. QED BY <2>2, <2>5, <3>1
  <2>8. QED BY <2>5, <2>6, <2>7
<1>4. PICK i \in 1..n : s[i].ga = e.ga /\ s[i].excludes \subseteq e.excludes
  BY <1>1 DEF Holds
<1>5. CASE i < k
  <2>1. i \in 1..(k - 1) /\ i \in 1..(n - 1)
    BY <1>1, <1>5
  <2>2. QED BY <1>2, <1>3, <1>4, <2>1 DEF Holds
<1>6. CASE i > k
  <2>1. PICK j \in k..(n - 1) : j + 1 = i
    <3>1. i - 1 \in k..(n - 1) /\ (i - 1) + 1 = i
      BY <1>1, <1>6
    <3>2. QED BY <3>1
  <2>2. j \in 1..(n - 1)
    BY <1>1
  <2>3. QED BY <1>2, <1>3, <1>4, <2>1, <2>2 DEF Holds
<1>7. CASE i = k
  BY <1>4, <1>7
<1>8. QED BY <1>1, <1>5, <1>6, <1>7

\* None of a declaration folded into the rest is lost, and nothing it does
\* not exclude is excluded for it.
LEMMA DeclareCovers ==
  ASSUME NEW sections \in Sections, NEW d \in Root
  PROVE  /\ Covering(Declare(sections, d), d)
         /\ \A e : Covering(sections, e) => Covering(Declare(sections, d), e)
<1> DEFINE In(section) == {i \in DOMAIN section : section[i].ga = d.ga}
           Fold(section) == [i \in DOMAIN section |->
                               IF i \in In(section) THEN Merged(section[i], d) ELSE section[i]]
           position == CHOOSE i \in In(sections.dev) : \A j \in In(sections.dev) : i <= j
<1>0. PICK main \in Seq(Root), dev \in Seq(Root) : main = sections.main /\ dev = sections.dev
  BY DEF Sections
<1>1. /\ \A x : [sections EXCEPT !.main = x] = [main |-> x, dev |-> dev]
      /\ \A x : [sections EXCEPT !.dev = x] = [main |-> main, dev |-> x]
  BY <1>0 DEF Sections
<1>a. Declare(sections, d) =
        IF In(sections.main) # {} THEN [sections EXCEPT !.main = Fold(@)]
        ELSE IF d.classpath = "test"
        THEN [sections EXCEPT !.dev = IF In(@) # {} THEN Fold(@) ELSE Append(@, d)]
        ELSE IF In(sections.dev) = {} THEN [sections EXCEPT !.main = Append(@, d)]
        ELSE [main |-> Append(sections.main,
                              Merged([sections.dev[position] EXCEPT !.classpath = d.classpath], d)),
              dev |-> RemoveAt(sections.dev, position)]
  BY DEF Declare
<1>2. Declare(sections, d) =
        IF In(main) # {} THEN [main |-> Fold(main), dev |-> dev]
        ELSE IF d.classpath = "test"
        THEN [main |-> main, dev |-> IF In(dev) # {} THEN Fold(dev) ELSE Append(dev, d)]
        ELSE IF In(dev) = {} THEN [main |-> Append(main, d), dev |-> dev]
        ELSE [main |-> Append(main, Merged([dev[position] EXCEPT !.classpath = d.classpath], d)),
              dev |-> RemoveAt(dev, position)]
  <2> HIDE DEF In, Fold, position
  <2>1. /\ [sections EXCEPT !.main = Fold(@)] = [main |-> Fold(main), dev |-> dev]
        /\ [sections EXCEPT !.main = Append(@, d)] = [main |-> Append(main, d), dev |-> dev]
        /\ [sections EXCEPT !.dev = IF In(@) # {} THEN Fold(@) ELSE Append(@, d)]
             = [main |-> main, dev |-> IF In(dev) # {} THEN Fold(dev) ELSE Append(dev, d)]
    BY <1>0, <1>1
  <2>2. QED BY <1>0, <1>a, <2>1
<1>3. ASSUME NEW r \in Root
      PROVE  Merged(r, d).ga = r.ga /\ Merged(r, d).excludes = r.excludes \cap d.excludes
  BY DEF Merged, Root
<1>4. ASSUME NEW s \in Seq(Root)
      PROVE  /\ In(s) # {} => Holds(Fold(s), d)
             /\ \A e : Holds(s, e) => Holds(Fold(s), e)
  <2>1. PICK n \in Nat : n = Len(s) /\ DOMAIN s = 1..n /\ \A i \in 1..n : s[i] \in Root
    OBVIOUS
  <2>2. PICK f : f = Fold(s)
    OBVIOUS
  <2>3. f = [i \in 1..n |-> f[i]] /\ \A i \in 1..n : f[i] = IF s[i].ga = d.ga THEN Merged(s[i], d) ELSE s[i]
    BY <2>1, <2>2
  <2>4. Len(f) = n
    BY <2>3
  <2>5. \A i \in 1..n : f[i].ga = s[i].ga /\ f[i].excludes \subseteq s[i].excludes
                        /\ (s[i].ga = d.ga => f[i].excludes \subseteq d.excludes)
    BY <1>3, <2>1, <2>3
  <2>6. In(s) # {} => Holds(f, d)
    BY <2>1, <2>4, <2>5 DEF Holds
  <2>7. ASSUME NEW e, Holds(s, e) PROVE Holds(f, e)
    BY <2>1, <2>4, <2>5, <2>7 DEF Holds
  <2>8. QED BY <2>2, <2>6, <2>7
<1>5. \A e : Covering(sections, e) <=> Holds(main, e) \/ Holds(dev, e)
  BY <1>0 DEF Covering
<1>6. ASSUME In(dev) # {}
      PROVE  position \in 1..Len(dev) /\ dev[position].ga = d.ga
  <2>1. PICK n \in Nat : n = Len(dev) /\ DOMAIN dev = 1..n
    OBVIOUS
  <2>2. PICK S : S = In(dev)
    OBVIOUS
  <2>3. S \in SUBSET Nat /\ S # {}
    BY <1>6, <2>1, <2>2
  <2>4. \E i \in S : \A j \in S : i <= j
    BY <2>3, SomeFirst
  <2>5. position = CHOOSE i \in S : \A j \in S : i <= j
    BY <1>0, <2>2
  <2>6. position \in S
    BY <2>4, <2>5
  <2> HIDE DEF position
  <2>7. QED BY <2>1, <2>2, <2>6
<1> HIDE DEF Fold, position
<1>7. CASE In(main) # {}
  BY <1>2, <1>4, <1>5, <1>7 DEF Covering
<1>8. CASE In(main) = {} /\ d.classpath = "test" /\ In(dev) # {}
  BY <1>2, <1>4, <1>5, <1>8 DEF Covering
<1> HIDE DEF In
<1>9. CASE In(main) = {} /\ d.classpath = "test" /\ In(dev) = {}
  <2>1. Declare(sections, d) = [main |-> main, dev |-> Append(dev, d)]
    BY <1>2, <1>9
  <2>2. QED BY <1>5, <2>1, AppendHolds DEF Covering
<1>10. CASE In(main) = {} /\ d.classpath # "test" /\ In(dev) = {}
  <2>1. Declare(sections, d) = [main |-> Append(main, d), dev |-> dev]
    BY <1>2, <1>10
  <2>2. QED BY <1>5, <2>1, AppendHolds DEF Covering
<1>11. CASE In(main) = {} /\ d.classpath # "test" /\ In(dev) # {}
  <2>1. PICK k \in 1..Len(dev) : k = position /\ dev[k].ga = d.ga
    BY <1>6, <1>11
  <2>2. PICK r \in Root : r = dev[k]
    OBVIOUS
  <2>3. PICK q \in Root : q = [r EXCEPT !.classpath = d.classpath]
                          /\ q.ga = r.ga /\ q.excludes = r.excludes
    <3>1. PICK q : q = [r EXCEPT !.classpath = d.classpath]
      OBVIOUS
    <3>2. q \in Root /\ q.ga = r.ga /\ q.excludes = r.excludes
      BY <3>1 DEF Root
    <3>3. QED BY <3>1, <3>2
  <2>4. PICK x : x = Merged(q, d)
    OBVIOUS
  <2>5. x \in Root
    BY <2>4 DEF Merged, Root, Classpath
  <2>6. x.ga = d.ga /\ x.excludes \subseteq d.excludes /\ x.ga = r.ga /\ x.excludes \subseteq r.excludes
    BY <1>3, <2>1, <2>2, <2>3, <2>4
  <2>7. Declare(sections, d) = [main |-> Append(main, x), dev |-> RemoveAt(dev, k)]
    BY <1>2, <1>11, <2>1, <2>2, <2>3, <2>4
  <2>8. Holds(Append(main, x), d)
    BY <2>5, <2>6, AppendHolds
  <2>9. ASSUME NEW e, Holds(main, e) \/ Holds(dev, e)
        PROVE  Holds(Append(main, x), e) \/ Holds(RemoveAt(dev, k), e)
    <3>1. CASE Holds(main, e)
      BY <2>5, <3>1, AppendHolds
    <3>2. CASE Holds(dev, e)
      <4>1. (r.ga = e.ga /\ r.excludes \subseteq e.excludes) \/ Holds(RemoveAt(dev, k), e)
        BY <2>2, <3>2, RemoveHolds
      <4>2. r.ga = e.ga /\ r.excludes \subseteq e.excludes => Holds(Append(main, x), e)
        BY <2>5, <2>6, AppendHolds
      <4>3. QED BY <4>1, <4>2
    <3>3. QED BY <2>9, <3>1, <3>2
  <2>10. QED BY <1>5, <2>7, <2>8, <2>9 DEF Covering
<1>12. QED BY <1>7, <1>8, <1>9, <1>10, <1>11

LEMMA DeclaresCover ==
  ASSUME NEW d, NEW h, NEW n \in Nat, Declares(h, d, n), NEW i \in 1..n
  PROVE  Covering(h[n], d[i])
<1>1. \A j \in 0..n : h[j] \in Sections
  BY SectionsAreTyped
<1> DEFINE S == {k \in Nat : k <= n /\ i <= k => Covering(h[k], d[i])}
<1>2. 0 \in S
  OBVIOUS
<1>3. ASSUME NEW k \in S PROVE k + 1 \in S
  <2>1. k \in Nat
    OBVIOUS
  <2>2. ASSUME k + 1 <= n, i <= k + 1 PROVE Covering(h[k + 1], d[i])
    <3>1. PICK j \in 1..n : j = k + 1 /\ j - 1 = k
      BY <2>1, <2>2
    <3>2. j \in 0..n /\ j # 0 /\ k \in 0..n
      BY <3>1
    <3>3. h[j] = Declare(h[k], d[j]) /\ d[j] \in Root /\ h[k] \in Sections
      BY <1>1, <3>1, <3>2 DEF Declares
    <3>4. CASE i = j
      <4>1. Covering(Declare(h[k], d[j]), d[j])
        BY <3>3, DeclareCovers
      <4>2. QED BY <3>1, <3>3, <3>4, <4>1
    <3>5. CASE i # j
      <4>1. Covering(h[k], d[i])
        BY <2>1, <2>2, <3>1, <3>5
      <4>2. Covering(Declare(h[k], d[j]), d[i])
        BY <3>3, <4>1, DeclareCovers
      <4>3. QED BY <3>1, <3>3, <4>2
    <3>6. QED BY <3>4, <3>5
  <2>3. QED BY <2>1, <2>2
<1>4. S = Nat
  BY <1>2, <1>3, Induct
<1>5. n \in S
  BY <1>4
<1>6. QED BY <1>5

Among(x, t) == \E j \in 1..Len(t) : t[j] = x

\* All that is in the several is in the one.
LEMMA FlatHasAll ==
  ASSUME NEW R, NEW size \in Nat \ {0}, NEW s \in [1..size -> Seq(R)],
         NEW m \in 1..size, NEW x, Among(x, s[m])
  PROVE  Among(x, FlattenSeq(s))
<1>1. PICK k : FlattenSeq(s) = k[size] /\ Flattens(k, s, size)
  BY FlatUnfolds
<1>a. /\ \A j \in 1..size : k[j] = IF j = 1 THEN s[j] ELSE k[j - 1] \o s[j]
      /\ \A j \in 1..size : s[j] \in Seq(R)
  BY <1>1 DEF Flattens
<1>2. PICK i \in 1..Len(s[m]) : x = s[m][i]
  BY DEF Among
<1> DEFINE Has(t) == t \in Seq(R) /\ \E j \in 1..Len(t) : t[j] = x
           S == {n \in Nat : n + 1 <= size => /\ k[n + 1] \in Seq(R)
                                              /\ m <= n + 1 => Has(k[n + 1])}
<1>3. 0 \in S
  <2>1. 1 \in 1..size
    OBVIOUS
  <2>2. k[1] = s[1] /\ s[1] \in Seq(R)
    BY <1>a, <2>1
  <2>3. m <= 1 => Has(s[1])
    BY <1>2, <2>2
  <2>4. QED BY <2>2, <2>3
<1>4. ASSUME NEW n \in S PROVE n + 1 \in S
  <2>1. n \in Nat
    OBVIOUS
  <2>2. ASSUME (n + 1) + 1 <= size
        PROVE  /\ k[(n + 1) + 1] \in Seq(R)
               /\ m <= (n + 1) + 1 => Has(k[(n + 1) + 1])
    <3>1. PICK o \in 2..size : o = (n + 1) + 1 /\ o - 1 = n + 1
      BY <2>1, <2>2
    <3>2. o \in 1..size /\ o # 1
      OBVIOUS
    <3>3. k[o] = k[o - 1] \o s[o] /\ s[o] \in Seq(R)
      BY <1>a, <3>2
    <3>4. k[o - 1] \in Seq(R) /\ (m <= o - 1 => Has(k[o - 1]))
      BY <2>1, <2>2, <3>1
    <3>5. PICK a \in Seq(R), b \in Seq(R) : a = k[o - 1] /\ b = s[o]
      BY <3>3, <3>4
    <3>6. a \o b \in Seq(R) /\ Len(a \o b) = Len(a) + Len(b)
          /\ (\A j \in 1..Len(a) : (a \o b)[j] = a[j])
          /\ (\A j \in 1..Len(b) : (a \o b)[Len(a) + j] = b[j])
      OBVIOUS
    <3>7. Has(a) => Has(a \o b)
      BY <3>6
    <3>8. Has(b) => Has(a \o b)
      <4>1. SUFFICES ASSUME NEW j \in 1..Len(b), b[j] = x PROVE Has(a \o b)
        OBVIOUS
      <4>2. Len(a) + j \in 1..Len(a \o b)
        BY <3>6
      <4>3. QED BY <3>6, <4>1, <4>2
    <3>9. m = o => Has(b)
      BY <1>2, <3>5
    <3>10. m <= o => m = o \/ m <= o - 1
      OBVIOUS
    <3>11. QED BY <3>1, <3>3, <3>4, <3>5, <3>6, <3>7, <3>8, <3>9, <3>10
  <2>3. QED BY <2>1, <2>2
<1>5. S = Nat
  BY <1>3, <1>4, Induct
<1>6. PICK n \in Nat : n + 1 = size
  <2>1. size - 1 \in Nat /\ (size - 1) + 1 = size
    OBVIOUS
  <2>2. QED BY <2>1
<1>7. n \in S
  BY <1>5
<1>8. QED BY <1>1, <1>6, <1>7 DEF Among

\* Each declaration of a member is one of the aggregate's, with no more
\* excluded.
LEMMA AggregateCovers ==
  ASSUME NEW w, WorkspaceOK(w), NEW u \in Members, NEW r \in ToSet(w.declared[u])
  PROVE  r \in Root /\ Holds(Aggregate(w).roots, r)
<1>1. PICK d, h : \E n \in Nat :
         /\ d = FlattenSeq([m \in 1..Cardinality(Members) |-> w.declared[m]])
         /\ n = Len(d) /\ Declares(h, d, n)
         /\ Aggregate(w).roots = h[n].main \o h[n].dev
  BY AggregateUnfolds
<1>2. PICK n \in Nat :
         /\ d = FlattenSeq([m \in 1..Cardinality(Members) |-> w.declared[m]])
         /\ n = Len(d) /\ Declares(h, d, n)
         /\ Aggregate(w).roots = h[n].main \o h[n].dev
  BY <1>1
<1>3. PICK size \in Nat \ {0} : size = Cardinality(Members) /\ Members = 1..size
  <2>1. Cardinality(Members) \in Nat /\ Cardinality(Members) # 0
    BY MembersAssumption, FS_CardinalityType, FS_EmptySet
  <2>2. QED BY <2>1, MembersAssumption
<1>4. PICK s : s = [m \in 1..size |-> w.declared[m]]
  OBVIOUS
<1>5. s \in [1..size -> Seq(Root)] /\ s[u] = w.declared[u] /\ u \in 1..size
  BY <1>3, <1>4 DEF WorkspaceOK
<1>6. PICK i \in 1..Len(s[u]) : s[u][i] = r
  <2>1. s[u] \in Seq(Root)
    BY <1>5
  <2>2. PICK i \in DOMAIN s[u] : s[u][i] = r
    BY <1>5 DEF ToSet
  <2>3. i \in 1..Len(s[u])
    BY <2>1
  <2>4. QED BY <2>2, <2>3
<1>7. r \in Root
  BY <1>5, <1>6
<1>8. PICK j \in 1..n : d[j] = r
  <2>1. Among(r, s[u])
    BY <1>6 DEF Among
  <2>2. Among(r, FlattenSeq(s))
    BY <1>5, <2>1, FlatHasAll
  <2>3. d = FlattenSeq(s)
    BY <1>2, <1>3, <1>4
  <2>4. QED BY <1>2, <2>2, <2>3 DEF Among
<1>9. Covering(h[n], r)
  BY <1>2, <1>8, DeclaresCover
<1>10. h[n] \in Sections
  <2>1. n \in 0..n
    OBVIOUS
  <2>2. QED BY <1>2, <2>1, SectionsAreTyped
<1>11. PICK a \in Seq(Root), b \in Seq(Root) : a = h[n].main /\ b = h[n].dev
  BY <1>10 DEF Sections
<1>12. Len(a \o b) = Len(a) + Len(b)
       /\ (\A k \in 1..Len(a) : (a \o b)[k] = a[k])
       /\ (\A k \in 1..Len(b) : (a \o b)[Len(a) + k] = b[k])
  OBVIOUS
<1>13. Holds(a, r) => Holds(a \o b, r)
  BY <1>12 DEF Holds
<1>14. Holds(b, r) => Holds(a \o b, r)
  <2>1. SUFFICES ASSUME NEW k \in 1..Len(b), b[k].ga = r.ga, b[k].excludes \subseteq r.excludes
                 PROVE  Holds(a \o b, r)
    BY DEF Holds
  <2>2. Len(a) + k \in 1..Len(a \o b) /\ (a \o b)[Len(a) + k] = b[k]
    BY <1>12
  <2>3. QED BY <2>1, <2>2 DEF Holds
<1>15. QED BY <1>2, <1>7, <1>9, <1>11, <1>13, <1>14 DEF Covering

-----------------------------------------------------------------------------
(* What a POM asks for.                                                    *)

LEMMA TheyAreThere ==
  ASSUME NEW asks, NEW goes, NEW size \in Nat, NEW f, Filters(f, asks, goes, size),
         NEW i \in 1..size, i \in goes
  PROVE  Among(asks[i], f[size])
<1>1. PICK All : All = {asks[n] : n \in Nat}
  OBVIOUS
<1>2. PICK x : x = asks[i]
  OBVIOUS
<1> DEFINE S == {n \in Nat : n <= size => /\ f[n] \in Seq(All)
                                          /\ i <= n => Among(x, f[n])}
<1>3. 0 \in S
  <2>1. f[0] = <<>>
    BY DEF Filters
  <2>2. <<>> \in Seq(All)
    OBVIOUS
  <2>3. f[0] \in Seq(All) /\ ~(i <= 0)
    BY <2>1, <2>2
  <2>4. QED BY <2>3
<1>4. ASSUME NEW n \in S PROVE n + 1 \in S
  <2>1. n \in Nat /\ n + 1 \in Nat /\ (n + 1) - 1 = n
    OBVIOUS
  <2>2. ASSUME n + 1 <= size PROVE f[n + 1] \in Seq(All) /\ (i <= n + 1 => Among(x, f[n + 1]))
    <3>1. f[n] \in Seq(All) /\ (i <= n => Among(x, f[n])) /\ n + 1 \in 1..size
      BY <2>1, <2>2
    <3>2. asks[n + 1] \in All
      BY <1>1
    <3>3. f[n + 1] = IF n + 1 \in goes THEN Append(f[n], asks[n + 1]) ELSE f[n]
      BY <2>1, <3>1 DEF Filters
    <3>4. PICK a \in Seq(All), b \in All : a = f[n] /\ b = asks[n + 1]
      BY <3>1, <3>2
    <3>5. Append(a, b) \in Seq(All) /\ Len(Append(a, b)) = Len(a) + 1
          /\ Append(a, b)[Len(a) + 1] = b /\ \A j \in 1..Len(a) : Append(a, b)[j] = a[j]
      OBVIOUS
    <3>6. Among(x, a) => Among(x, Append(a, b))
      BY <3>5 DEF Among
    <3>7. x = b => Among(x, Append(a, b))
      BY <3>5 DEF Among
    <3>8. CASE i <= n
      BY <3>1, <3>3, <3>4, <3>5, <3>6, <3>8
    <3>9. CASE i = n + 1
      BY <1>2, <3>3, <3>4, <3>5, <3>7, <3>9
    <3>10. CASE n + 1 < i
      BY <3>1, <3>3, <3>4, <3>5, <3>10
    <3>11. QED BY <2>1, <3>8, <3>9, <3>10
  <2>3. QED BY <2>1, <2>2
<1>5. S = Nat
  BY <1>3, <1>4, Induct
<1>6. size \in S
  BY <1>5
<1>7. QED BY <1>2, <1>6

LEMMA ChildrenAreAll ==
  ASSUME NEW parent, NEW deps, deps = pom[<<parent.ga, parent.version>>].dependencies,
         NEW size \in Nat, Len(deps) = size,
         NEW i \in 1..size, Admissible(deps[i], parent.excludes)
  PROVE  Among(Request(parent, deps[i]), Children(parent))
<1>1. PICK asks, goes, f : /\ Asking(asks, goes, parent, deps, size)
                           /\ Filters(f, asks, goes, size) /\ Children(parent) = f[size]
  BY ChildrenAreFiltered
<1>2. asks[i] = Request(parent, deps[i]) /\ i \in goes
  BY <1>1 DEF Asking
<1>3. QED BY <1>1, <1>2, TheyAreThere

-----------------------------------------------------------------------------
(* What a repository's POMs manage.                                        *)

LEMMA OneAfterTheOther ==
  ASSUME NEW R, NEW a \in Seq(R), NEW b \in Seq(R)
  PROVE  /\ a \o b \in Seq(R) /\ Len(a \o b) = Len(a) + Len(b)
         /\ \A i \in 1..Len(a) : (a \o b)[i] = a[i]
         /\ \A i \in 1..Len(b) : (a \o b)[Len(a) + i] = b[i]
         /\ b # <<>> => Len(b) \in Nat \ {0}
  OBVIOUS

\* The line of a POM's parents is one, and starts somewhere.
LEMMA LineIsTyped ==
  ASSUME NEW repo, RepositoryOK(repo), NEW c \in DOMAIN repo
  PROVE  Line(repo, c) \in Seq(Coords) /\ Len(Line(repo, c)) # 0
<1> DEFINE Parent(line) == IF line[Len(line)] \in DOMAIN repo THEN repo[line[Len(line)]].parent ELSE <<>>
           Ends(line) == \/ Parent(line) = <<>> \/ Len(line) = MaxParents
                         \/ Parent(line)[1] \in ToSet(line)
           Body(h) ==
             [line \in Seq(Coords) |->
                LET last == line[Len(line)]
                    parent == IF last \in DOMAIN repo THEN repo[last].parent ELSE <<>>
                IN  IF \/ parent = <<>> \/ Len(line) = MaxParents
                       \/ parent[1] \in ToSet(line)
                    THEN line ELSE h[line \o parent]]
           up == CHOOSE h : h = Body(h)
<1>1. Line(repo, c) = up[<<c>>]
  BY DEF Line
<1>2. ASSUME NEW h
      PROVE  Body(h) = [line \in Seq(Coords) |-> IF Ends(line) THEN line ELSE h[line \o Parent(line)]]
  OBVIOUS
<1>3. \A line : Parent(line) \in Seq(Coords) /\ Len(Parent(line)) <= 1
  <2>1. \A b \in DOMAIN repo : repo[b].parent \in Seq(Coords) /\ Len(repo[b].parent) <= 1
    BY DEF RepositoryOK, PomOK
  <2>2. QED BY <2>1
<1> HIDE DEF Body, Ends, Parent
<1>4. PICK S : S = Seq(Coords)
  OBVIOUS
<1>5. PICK stop : stop = {line \in S : Ends(line)}
  OBVIOUS
<1>6. PICK out : out = [line \in S |-> line]
  OBVIOUS
<1>7. PICK next : next = [line \in S |-> line \o Parent(line)]
  OBVIOUS
<1>8. next \in [S -> S]
  BY <1>3, <1>4, <1>7
<1>9. PICK f : f = [line \in S |-> f[line]] /\ Recurs(f, S, stop, out, next)
  <2>1. stop \in SUBSET S
    BY <1>5
  <2>2. QED BY <1>8, <2>1, TailRecursion
<1>10. f = [line \in S |-> IF Ends(line) THEN line ELSE f[line \o Parent(line)]]
  BY <1>5, <1>6, <1>7, <1>9 DEF Recurs
<1>11. up = [line \in S |-> IF Ends(line) THEN line ELSE up[line \o Parent(line)]]
  <2>1. f = Body(f)
    BY <1>2, <1>4, <1>10
  <2>2. up = Body(up)
    BY <2>1
  <2> HIDE DEF up
  <2>3. QED BY <1>2, <1>4, <2>2
<1> HIDE DEF up
<1>12. PICK g : g = up
  OBVIOUS
<1>13. Recurs(g, S, stop, out, next)
  BY <1>5, <1>6, <1>7, <1>11, <1>12 DEF Recurs
<1>14. PICK I : I = {line \in S : Len(line) \in 1..MaxParents}
  OBVIOUS
<1>15. PICK m : m = [line \in I |-> MaxParents - Len(line)]
  OBVIOUS
<1>16. MaxParents \in Nat \ {0}
  BY EffectivePomAssumption
<1>17. m \in [I -> Nat]
  <2>1. \A line \in I : MaxParents - Len(line) \in Nat
    BY <1>14, <1>16
  <2>2. QED BY <1>15, <2>1
<1>18. ASSUME NEW line \in I, line \notin stop PROVE next[line] \in I /\ m[next[line]] < m[line]
  <2>1. line \in S /\ Len(line) \in 1..MaxParents /\ Len(line) # MaxParents /\ Parent(line) # <<>>
    BY <1>5, <1>14, <1>18 DEF Ends
  <2>2. PICK p \in Seq(Coords) : p = Parent(line) /\ Len(p) = 1
    <3>1. PICK p \in Seq(Coords) : p = Parent(line)
      BY <1>3
    <3>2. Len(p) <= 1 /\ p # <<>>
      BY <1>3, <2>1, <3>1
    <3>3. Len(p) = 1
      <4>1. Len(p) \in Nat \ {0}
        BY <3>2, OneAfterTheOther
      <4>2. QED BY <3>2, <4>1
    <3>4. QED BY <3>1, <3>3
  <2>3. next[line] = line \o p /\ line \o p \in S /\ Len(line \o p) = Len(line) + 1
    <3>1. PICK l \in Seq(Coords) : l = line
      BY <1>4, <2>1
    <3>2. l \o p \in Seq(Coords) /\ Len(l \o p) = Len(l) + 1
      <4>1. Len(p) = 1
        BY <2>2
      <4>2. l \o p \in Seq(Coords)
        OBVIOUS
      <4>3. Len(l \o p) = Len(l) + Len(p)
        OBVIOUS
      <4>4. QED BY <4>1, <4>2, <4>3
    <3>3. next[line] = line \o p
      BY <1>7, <2>1, <2>2
    <3>4. QED BY <1>4, <3>1, <3>2, <3>3
  <2>4. next[line] \in I
    BY <1>14, <1>16, <2>1, <2>3
  <2>5. QED BY <1>15, <1>16, <2>1, <2>3, <2>4
<1>19. <<c>> \in I
  <2>1. c \in Coords
    BY DEF RepositoryOK
  <2>2. PICK line \in Seq(Coords) : line = <<c>> /\ Len(line) = 1
    <3>1. <<c>> \in Seq(Coords) /\ Len(<<c>>) = 1
      BY <2>1
    <3>2. QED BY <3>1
  <2>3. QED BY <1>4, <1>14, <1>16, <2>2
<1>20. \E t \in I : t \in stop /\ g[<<c>>] = out[t]
  <2>1. I \in SUBSET S
    BY <1>14
  <2>2. Falls(I, m, stop, next)
    BY <1>18 DEF Falls
  <2> HIDE <1>5, <1>6, <1>7, <1>14, <1>15
  <2>3. \A s \in I : \E t \in I : t \in stop /\ g[s] = out[t]
    BY <1>13, <1>17, <2>1, <2>2, WhereItStops
  <2>4. QED BY <1>19, <2>3
<1>21. QED BY <1>1, <1>4, <1>6, <1>12, <1>14, <1>20

\* What says of an artifact what it excludes.
Managing(e) == e.ga \in Artifacts /\ e.excludes \subseteq Patterns

LEMMA ManagementIsTyped ==
  ASSUME NEW repo, RepositoryOK(repo), NEW c \in DOMAIN repo, Readable(repo, c)
  PROVE  \E n \in Nat : /\ Len(Management(repo, c)) = n /\ DOMAIN Management(repo, c) = 1..n
                        /\ \A i \in 1..n : Managing(Management(repo, c)[i])
<1>1. PICK line \in Seq(Coords) : line = Line(repo, c) /\ Len(line) # 0
  BY LineIsTyped
<1>2. PICK size \in Nat \ {0} : size = Len(line)
  BY <1>1
<1>3. PICK back : back = Reverse(line)
  OBVIOUS
<1>4. back = [i \in 1..size |-> line[size - i + 1]]
  BY <1>2, <1>3 DEF Reverse
<1>5. PICK all : all = [i \in 1..size |-> repo[back[i]].managed]
  OBVIOUS
<1>6. all \in [1..size -> Seq(Entry)]
  <2>1. ASSUME NEW i \in 1..size PROVE repo[back[i]].managed \in Seq(Entry)
    <3>1. PICK j \in 1..size : j = size - i + 1
      OBVIOUS
    <3>2. back[i] = line[j] /\ j \in DOMAIN line
      BY <1>2, <1>4, <3>1
    <3>3. line[j] \in DOMAIN repo
      BY <1>1, <3>2 DEF Readable, ToSet
    <3>4. QED BY <3>2, <3>3 DEF RepositoryOK, PomOK
  <2>2. QED BY <1>5, <2>1
<1>7. PICK entries \in Seq(Entry) : entries = FlattenSeq(all)
  BY <1>6, FlatIsTyped
<1>8. PICK properties : properties = Properties(repo, c)
  OBVIOUS
<1>9. Management(repo, c)
        = [i \in DOMAIN entries |-> [entries[i] EXCEPT !.version = Interpolated(@, properties)]]
  <2>1. DOMAIN back = 1..size
    BY <1>4
  <2>2. QED BY <1>1, <1>3, <1>5, <1>7, <1>8, <2>1 DEF Management
<1>10. PICK n \in Nat : n = Len(entries) /\ DOMAIN entries = 1..n
  OBVIOUS
<1>11. PICK s : s = Management(repo, c)
  OBVIOUS
<1>12. ASSUME NEW i \in 1..n PROVE Managing(s[i])
  <2>1. PICK e \in Entry : e = entries[i]
    BY <1>10
  <2>2. s[i] = [e EXCEPT !.version = Interpolated(e.version, properties)]
    BY <1>9, <1>10, <1>11, <2>1
  <2>3. s[i].ga = e.ga /\ s[i].excludes = e.excludes
    BY <2>2 DEF Entry
  <2>4. QED BY <2>3 DEF Managing, Entry
<1>13. Len(s) = n /\ DOMAIN s = 1..n
  BY <1>9, <1>10, <1>11
<1>14. QED BY <1>11, <1>12, <1>13

Manages(s, E) == \E n \in Nat : Len(s) = n /\ DOMAIN s = 1..n /\ \A i \in 1..n : s[i] \in E

\* The functions from artifacts to members of E.
Maps(E) == UNION {[D -> E] : D \in SUBSET Artifacts}

LEMMA MapsAre ==
  ASSUME NEW E, NEW f
  PROVE  f \in Maps(E) <=> /\ DOMAIN f \subseteq Artifacts /\ f = [a \in DOMAIN f |-> f[a]]
                           /\ \A a \in DOMAIN f : f[a] \in E
<1>1. ASSUME f \in Maps(E)
      PROVE  /\ DOMAIN f \subseteq Artifacts /\ f = [a \in DOMAIN f |-> f[a]]
             /\ \A a \in DOMAIN f : f[a] \in E
  <2>1. PICK D \in SUBSET Artifacts : f \in [D -> E]
    BY <1>1 DEF Maps
  <2>2. QED BY <2>1
<1>2. ASSUME DOMAIN f \subseteq Artifacts, f = [a \in DOMAIN f |-> f[a]],
             \A a \in DOMAIN f : f[a] \in E
      PROVE  f \in Maps(E)
  <2>1. f \in [DOMAIN f -> E]
    BY <1>2
  <2>2. QED BY <1>2, <2>1 DEF Maps
<1>3. QED BY <1>1, <1>2

LEMMA SomeLast ==
  ASSUME NEW n \in Nat, NEW S \in SUBSET (1..n), S # {}
  PROVE  \E i \in S : \A j \in S : j <= i
<1>1. PICK T : T = {n - i : i \in S}
  OBVIOUS
<1>2. T \in SUBSET Nat /\ T # {}
  <2>1. \A i \in S : n - i \in Nat
    OBVIOUS
  <2>2. QED BY <1>1, <2>1
<1>3. PICK k \in T : \A l \in T : k <= l
  BY <1>2, SomeFirst
<1>4. PICK i \in S : k = n - i
  BY <1>1
<1>5. \A j \in S : n - j \in T /\ i \in Nat /\ j \in Nat
  BY <1>1
<1>6. QED BY <1>3, <1>4, <1>5

LEMMA DirectlyIsTyped ==
  ASSUME NEW E, NEW s, Manages(s, E)
  PROVE  Directly(s) \in Maps(E)
<1> DEFINE Saying(a) == {i \in DOMAIN s : s[i].ga = a /\ s[i].scope # "import"}
           Decides(a) == CHOOSE i \in Saying(a) : \A j \in Saying(a) : j <= i
<1>1. PICK n \in Nat : DOMAIN s = 1..n /\ \A i \in 1..n : s[i] \in E
  BY DEF Manages
<1>2. PICK f : f = Directly(s)
  OBVIOUS
<1>3. f = [a \in {a \in Artifacts : Saying(a) # {}} |-> s[Decides(a)]]
  BY <1>2 DEF Directly
<1>4. ASSUME NEW a, Saying(a) # {} PROVE Decides(a) \in 1..n
  <2>1. PICK S : S = Saying(a)
    OBVIOUS
  <2>2. S \in SUBSET (1..n) /\ S # {}
    BY <1>1, <1>4, <2>1
  <2>3. \E i \in S : \A j \in S : j <= i
    BY <2>2, SomeLast
  <2>4. Decides(a) = CHOOSE i \in S : \A j \in S : j <= i
    BY <2>1
  <2>5. Decides(a) \in S
    BY <2>3, <2>4
  <2> HIDE DEF Decides
  <2>6. QED BY <2>2, <2>5
<1> HIDE DEF Saying, Decides
<1>5. DOMAIN f \subseteq Artifacts /\ \A a \in DOMAIN f : f[a] = s[Decides(a)] /\ Saying(a) # {}
  BY <1>3
<1>6. f = [a \in DOMAIN f |-> f[a]]
  BY <1>3
<1>7. QED BY <1>1, <1>2, <1>4, <1>5, <1>6, MapsAre

LEMMA AbsorbedIsTyped ==
  ASSUME NEW E, NEW f \in Maps(E), NEW g \in Maps(E)
  PROVE  Absorbed(f, g) \in Maps(E)
<1>1. PICK h : h = Absorbed(f, g)
  OBVIOUS
<1>2. h = [a \in DOMAIN f \cup DOMAIN g |-> IF a \in DOMAIN f THEN f[a] ELSE g[a]]
  BY <1>1 DEF Absorbed
<1>3. DOMAIN h = DOMAIN f \cup DOMAIN g
      /\ \A a \in DOMAIN h : h[a] = IF a \in DOMAIN f THEN f[a] ELSE g[a]
  BY <1>2
<1>4. h = [a \in DOMAIN h |-> h[a]]
  BY <1>2
<1>5. /\ DOMAIN f \subseteq Artifacts /\ \A a \in DOMAIN f : f[a] \in E
      /\ DOMAIN g \subseteq Artifacts /\ \A a \in DOMAIN g : g[a] \in E
  BY MapsAre
<1>6. DOMAIN h \subseteq Artifacts /\ \A a \in DOMAIN h : h[a] \in E
  BY <1>3, <1>5
<1>7. QED BY <1>1, <1>4, <1>6, MapsAre

\* What one POM manages with those of its BOMs in `readable`, which come to
\* `below`, if they are read.
With(entries, reads, below, readable) ==
  LET Bom(i) == <<entries[i].ga, entries[i].version>>
      with[i \in 0..Len(entries)] ==
        IF i = 0 THEN Directly(entries)
        ELSE IF reads /\ Imports(entries[i]) /\ Bom(i) \in readable
        THEN Absorbed(with[i - 1], below[Bom(i)]) ELSE with[i - 1]
  IN  with[Len(entries)]

Absorbs(w, s, n, reads, below, readable) ==
  /\ w[0] = Directly(s)
  /\ \A i \in 1..n :
       w[i] = IF reads /\ Imports(s[i]) /\ <<s[i].ga, s[i].version>> \in readable
              THEN Absorbed(w[i - 1], below[<<s[i].ga, s[i].version>>])
              ELSE w[i - 1]

LEMMA WithUnfolds ==
  ASSUME NEW E, NEW s, NEW n \in Nat, Len(s) = n, Manages(s, E), NEW reads, NEW below,
         NEW readable, reads => \A b \in readable : below[b] \in Maps(E)
  PROVE  \E w : Absorbs(w, s, n, reads, below, readable)
                /\ With(s, reads, below, readable) = w[n]
<1> DEFINE Bom(i) == <<s[i].ga, s[i].version>>
           Takes(i) == reads /\ Imports(s[i]) /\ Bom(i) \in readable
           One(x, i) == IF Takes(i) THEN Absorbed(x, below[Bom(i)]) ELSE x
           with[i \in 0..Len(s)] ==
             IF i = 0 THEN Directly(s)
             ELSE IF reads /\ Imports(s[i]) /\ Bom(i) \in readable
             THEN Absorbed(with[i - 1], below[Bom(i)]) ELSE with[i - 1]
<1>1. With(s, reads, below, readable) = with[n]
  BY DEF With
<1>2. \E f : f = [i \in 0..n |-> IF i = 0 THEN Directly(s) ELSE One(f[i - 1], i)]
  <2>1. PICK first : first = Directly(s)
    OBVIOUS
  <2>3. PICK X : X = Maps(E)
    OBVIOUS
  <2>4. first \in X
    BY <2>1, <2>3, DirectlyIsTyped
  <2>5. \A b \in readable : reads => below[b] \in X
    BY <2>3
  <2>6. \A x, y \in X : Absorbed(x, y) \in X
    BY <2>3, AbsorbedIsTyped
  <2>7. \A i \in Nat, x \in X : One(x, i + 1) \in X
    BY <2>5, <2>6
  <2> HIDE DEF One
  <2>8. PICK g : g = [i \in Nat |-> [x \in X |-> One(x, i + 1)]]
    OBVIOUS
  <2>9. g \in [Nat -> [X -> X]]
    BY <2>7, <2>8
  <2>10. Beginnings(X, first, g, n) # {}
    BY <2>4, <2>9, SomeBeginning
  <2>11. PICK f \in [0..n -> X] : f[0] = first /\ \A i \in 1..n : f[i] = g[i - 1][f[i - 1]]
    BY <2>10 DEF Beginnings
  <2>12. ASSUME NEW i \in 1..n PROVE f[i] = One(f[i - 1], i)
    <3>1. PICK j \in Nat : j = i - 1 /\ j + 1 = i /\ j \in 0..n
      <4>1. i - 1 \in Nat /\ (i - 1) + 1 = i /\ i - 1 \in 0..n
        OBVIOUS
      <4>2. QED BY <4>1
    <3>2. f[j] \in X /\ f[i] = g[j][f[j]]
      BY <2>11, <3>1
    <3>3. QED BY <2>8, <3>1, <3>2
  <2>13. \A i \in 0..n : f[i] = IF i = 0 THEN Directly(s) ELSE One(f[i - 1], i)
    BY <2>1, <2>11, <2>12
  <2>14. f = [i \in 0..n |-> IF i = 0 THEN Directly(s) ELSE One(f[i - 1], i)]
    BY <2>11, <2>13
  <2>15. QED BY <2>14
<1>3. PICK f : f = [i \in 0..n |-> IF i = 0 THEN Directly(s) ELSE One(f[i - 1], i)]
  BY <1>2
<1>4. f = [i \in 0..Len(s) |->
             IF i = 0 THEN Directly(s)
             ELSE IF reads /\ Imports(s[i]) /\ Bom(i) \in readable
             THEN Absorbed(f[i - 1], below[Bom(i)]) ELSE f[i - 1]]
  BY <1>3
<1>5. with = [i \in 0..Len(s) |->
             IF i = 0 THEN Directly(s)
             ELSE IF reads /\ Imports(s[i]) /\ Bom(i) \in readable
             THEN Absorbed(with[i - 1], below[Bom(i)]) ELSE with[i - 1]]
  BY <1>4
<1> HIDE DEF with
<1>6. PICK w : w = with
  OBVIOUS
<1>7. \A i \in 0..n : w[i] = IF i = 0 THEN Directly(s)
             ELSE IF reads /\ Imports(s[i]) /\ Bom(i) \in readable
             THEN Absorbed(w[i - 1], below[Bom(i)]) ELSE w[i - 1]
  BY <1>5, <1>6
<1>8. w[0] = Directly(s)
  <2>1. 0 \in 0..n
    OBVIOUS
  <2>2. QED BY <1>7, <2>1
<1>9. \A i \in 1..n : i \in 0..n /\ i # 0
  OBVIOUS
<1>10. QED BY <1>1, <1>6, <1>7, <1>8, <1>9 DEF Absorbs

LEMMA WithIsTyped ==
  ASSUME NEW E, NEW s, Manages(s, E), NEW reads, NEW below, NEW readable,
         reads => \A b \in readable : below[b] \in Maps(E)
  PROVE  /\ With(s, reads, below, readable) \in Maps(E)
         /\ ~reads => With(s, reads, below, readable) = Directly(s)
<1>1. PICK n \in Nat : Len(s) = n
  BY DEF Manages
<1>2. PICK w : Absorbs(w, s, n, reads, below, readable)
               /\ With(s, reads, below, readable) = w[n]
  BY <1>1, WithUnfolds
<1>3. w[0] \in Maps(E)
  BY <1>2, DirectlyIsTyped DEF Absorbs
<1> DEFINE S == {i \in Nat : i <= n => w[i] \in Maps(E) /\ (~reads => w[i] = w[0])}
<1>4. 0 \in S
  BY <1>3
<1>5. ASSUME NEW i \in S PROVE i + 1 \in S
  <2>1. i \in Nat
    OBVIOUS
  <2>2. ASSUME i + 1 <= n PROVE w[i + 1] \in Maps(E) /\ (~reads => w[i + 1] = w[0])
    <3>1. PICK j \in 1..n : j = i + 1 /\ j - 1 = i
      BY <2>1, <2>2
    <3>2. w[i] \in Maps(E) /\ (~reads => w[i] = w[0])
      BY <2>1, <2>2
    <3>3. PICK b : b = <<s[j].ga, s[j].version>>
      OBVIOUS
    <3>4. w[j] = IF reads /\ Imports(s[j]) /\ b \in readable
                 THEN Absorbed(w[i], below[b]) ELSE w[i]
      BY <1>2, <3>1, <3>3 DEF Absorbs
    <3>5. reads /\ b \in readable => Absorbed(w[i], below[b]) \in Maps(E)
      BY <3>2, AbsorbedIsTyped
    <3>6. QED BY <3>1, <3>2, <3>4, <3>5
  <2>3. QED BY <2>1, <2>2
<1>6. S = Nat
  BY <1>4, <1>5, Induct
<1>7. n \in S
  BY <1>6
<1>8. QED BY <1>2, <1>7 DEF Absorbs

\* Whatever the BOMs of a repository import, what a POM manages names
\* artifacts and excludes by patterns.
LEMMA ManagedIsTyped ==
  ASSUME NEW repo, RepositoryOK(repo), NEW c \in DOMAIN repo, Readable(repo, c)
  PROVE  /\ DOMAIN Managed(repo, c) \subseteq Artifacts
         /\ \A a \in DOMAIN Managed(repo, c) : Managing(Managed(repo, c)[a])
<1> DEFINE readable == {b \in DOMAIN repo : Readable(repo, b)}
           Body(h) ==
             [d \in 0..MaxImports |->
               [of \in readable |->
                LET entries == Management(repo, of)
                    Bom(i) == <<entries[i].ga, entries[i].version>>
                    with[i \in 0..Len(entries)] ==
                      IF i = 0 THEN Directly(entries)
                      ELSE IF d < MaxImports /\ Imports(entries[i]) /\ Bom(i) \in readable
                      THEN Absorbed(with[i - 1], h[d + 1][Bom(i)]) ELSE with[i - 1]
                IN  with[Len(entries)]]]
           reading == CHOOSE h : h = Body(h)
<1>1. Managed(repo, c) = reading[0][c]
  BY DEF Managed
<1>2. PICK R : R = readable
  OBVIOUS
<1>3. ASSUME NEW h
      PROVE  Body(h) = [d \in 0..MaxImports |->
                          [of \in R |-> With(Management(repo, of), d < MaxImports, h[d + 1], R)]]
  <2> HIDE DEF readable
  <2>1. QED BY <1>2 DEF With
<1>4. PICK E : E = UNION {{Management(repo, of)[i] : i \in 1..Len(Management(repo, of))} : of \in R}
  OBVIOUS
<1>5. ASSUME NEW of \in R
      PROVE  /\ Manages(Management(repo, of), E)
             /\ \A i \in 1..Len(Management(repo, of)) : Managing(Management(repo, of)[i])
  <2>1. \E n \in Nat : /\ Len(Management(repo, of)) = n /\ DOMAIN Management(repo, of) = 1..n
                       /\ \A i \in 1..n : Managing(Management(repo, of)[i])
    BY <1>2, ManagementIsTyped
  <2>2. \A i \in 1..Len(Management(repo, of)) : Management(repo, of)[i] \in E
    BY <1>4
  <2>3. QED BY <2>1, <2>2 DEF Manages
<1>6. c \in R
  BY <1>2
<1>7. \A e \in E : Managing(e)
  BY <1>4, <1>5
<1> HIDE DEF readable, Body
<1>8. PICK most \in Nat : most = MaxImports
  BY EffectivePomAssumption
<1>9. PICK X : X = [R -> Maps(E)]
  OBVIOUS
\* The deepest, that reads no BOM, and one less deep.
<1>10. PICK deepest \in X : deepest = [of \in R |-> Directly(Management(repo, of))]
  <2>1. \A of \in R : Directly(Management(repo, of)) \in Maps(E)
    BY <1>5, DirectlyIsTyped
  <2>2. QED BY <1>9, <2>1
<1>11. PICK g \in [Nat -> [X -> X]] :
         \A k \in Nat, x \in X : g[k][x] = [of \in R |-> With(Management(repo, of), TRUE, x, R)]
  <2>1. ASSUME NEW x \in X PROVE [of \in R |-> With(Management(repo, of), TRUE, x, R)] \in X
    <3>1. \A b \in R : x[b] \in Maps(E)
      BY <1>9
    <3>2. \A of \in R : With(Management(repo, of), TRUE, x, R) \in Maps(E)
      BY <1>5, <3>1, WithIsTyped
    <3>3. QED BY <1>9, <3>2
  <2>2. PICK g : g = [k \in Nat |-> [x \in X |-> [of \in R |-> With(Management(repo, of), TRUE, x, R)]]]
    OBVIOUS
  <2>3. g \in [Nat -> [X -> X]]
    BY <2>1, <2>2
  <2>4. QED BY <2>2, <2>3
<1>12. PICK up \in [0..most -> X] : up[0] = deepest /\ \A i \in 1..most : up[i] = g[i - 1][up[i - 1]]
  <2>1. Beginnings(X, deepest, g, most) # {}
    BY SomeBeginning
  <2>2. QED BY <2>1 DEF Beginnings
<1>13. PICK f : f = [d \in 0..most |-> up[most - d]]
  OBVIOUS
<1>14. ASSUME NEW d \in 0..most, NEW x
       PROVE  /\ d < most => [of \in R |-> With(Management(repo, of), d < MaxImports, x, R)]
                             = [of \in R |-> With(Management(repo, of), TRUE, x, R)]
              /\ ~(d < most) => [of \in R |-> With(Management(repo, of), d < MaxImports, x, R)]
                                = deepest
  <2>1. d < most => (d < MaxImports) = TRUE
    BY <1>8
  <2>2. ASSUME ~(d < most), NEW of \in R
        PROVE  With(Management(repo, of), d < MaxImports, x, R) = Directly(Management(repo, of))
    <3>1. ~(d < MaxImports)
      BY <1>8, <2>2
    <3>2. QED BY <1>5, <3>1, WithIsTyped
  <2>3. QED BY <1>10, <2>1, <2>2
<1>15. ASSUME NEW d \in 0..most
       PROVE  f[d] = [of \in R |-> With(Management(repo, of), d < MaxImports, f[d + 1], R)]
  <2>1. CASE d < most
    <3>1. PICK k \in Nat : k = most - (d + 1) /\ k + 1 = most - d /\ k + 1 \in 1..most
                           /\ (k + 1) - 1 = k /\ k \in 0..most /\ d + 1 \in 0..most
      <4>1. most - (d + 1) \in Nat
        BY <2>1
      <4>2. PICK k \in Nat : k = most - (d + 1)
        BY <4>1
      <4>3. QED BY <2>1, <4>2
    <3>2. f[d] = up[k + 1] /\ f[d + 1] = up[k] /\ up[k] \in X
      BY <1>12, <1>13, <3>1
    <3>3. up[k + 1] = g[k][up[k]]
      BY <1>12, <3>1
    <3>4. f[d] = [of \in R |-> With(Management(repo, of), TRUE, f[d + 1], R)]
      BY <1>11, <3>2, <3>3
    <3>5. QED BY <1>14, <2>1, <3>4
  <2>2. CASE ~(d < most)
    <3>1. d = most /\ most - d = 0
      BY <2>2
    <3>2. f[d] = up[0]
      BY <1>13, <3>1
    <3>3. [of \in R |-> With(Management(repo, of), d < MaxImports, f[d + 1], R)] = deepest
      BY <1>14, <2>2
    <3>4. QED BY <1>12, <3>2, <3>3
  <2>3. QED BY <2>1, <2>2
<1>16. f = [d \in 0..MaxImports |->
              [of \in R |-> With(Management(repo, of), d < MaxImports, f[d + 1], R)]]
  BY <1>8, <1>13, <1>15
<1>17. reading = [d \in 0..MaxImports |->
              [of \in R |-> With(Management(repo, of), d < MaxImports, reading[d + 1], R)]]
  <2>1. f = Body(f)
    BY <1>3, <1>16
  <2>2. reading = Body(reading)
    BY <2>1
  <2> HIDE DEF reading
  <2>3. QED BY <1>3, <2>2
<1> HIDE DEF reading
<1>18. PICK h : h = reading
  OBVIOUS
<1>19. ASSUME NEW d \in 0..most
       PROVE  h[d] = [of \in R |-> With(Management(repo, of), d < MaxImports, h[d + 1], R)]
  BY <1>8, <1>17, <1>18
<1> DEFINE S == {n \in Nat : n <= most => h[most - n] \in X}
<1>20. 0 \in S
  <2>1. most \in 0..most /\ most - 0 = most /\ ~(most < most)
    OBVIOUS
  <2>2. h[most] = deepest
    <3>1. h[most] = [of \in R |-> With(Management(repo, of), most < MaxImports, h[most + 1], R)]
      BY <1>19, <2>1
    <3>2. [of \in R |-> With(Management(repo, of), most < MaxImports, h[most + 1], R)] = deepest
      BY <1>14, <2>1
    <3>3. QED BY <3>1, <3>2
  <2>3. QED BY <2>1, <2>2
<1>21. ASSUME NEW n \in S PROVE n + 1 \in S
  <2>1. n \in Nat
    OBVIOUS
  <2>2. ASSUME n + 1 <= most PROVE h[most - (n + 1)] \in X
    <3>1. PICK d \in 0..most : d = most - (n + 1) /\ d + 1 = most - n /\ d < most
      <4>1. most - (n + 1) \in 0..most /\ (most - (n + 1)) + 1 = most - n /\ most - (n + 1) < most
        BY <2>1, <2>2
      <4>2. QED BY <4>1
    <3>2. PICK x \in X : x = h[d + 1]
      BY <2>1, <2>2, <3>1
    <3>3. h[d] = [of \in R |-> With(Management(repo, of), TRUE, x, R)]
      <4>1. h[d] = [of \in R |-> With(Management(repo, of), d < MaxImports, x, R)]
        BY <1>19, <3>2
      <4>2. [of \in R |-> With(Management(repo, of), d < MaxImports, x, R)]
              = [of \in R |-> With(Management(repo, of), TRUE, x, R)]
        BY <1>14, <3>1
      <4>3. QED BY <4>1, <4>2
    <3>4. g[0][x] = h[d] /\ g[0][x] \in X
      BY <1>11, <3>3
    <3>5. QED BY <3>1, <3>4
  <2>3. QED BY <2>1, <2>2
<1>22. S = Nat
  BY <1>20, <1>21, Induct
<1>23. h[0] \in X
  <2>1. most \in S
    BY <1>22
  <2>2. most <= most /\ most - most = 0
    OBVIOUS
  <2>3. QED BY <2>1, <2>2
<1>24. PICK managed \in Maps(E) : managed = Managed(repo, c)
  BY <1>1, <1>6, <1>9, <1>18, <1>23
<1>25. DOMAIN managed \subseteq Artifacts /\ \A a \in DOMAIN managed : managed[a] \in E
  BY MapsAre
<1>26. QED BY <1>7, <1>24, <1>25

\* What the walk reads: artifacts and patterns.
DepOK(d) == d.ga \in Artifacts /\ d.excludes \subseteq Patterns
PomsOK ==
  \A c \in DOMAIN pom :
    /\ DOMAIN pom[c].managed \subseteq Artifacts
    /\ \A a \in DOMAIN pom[c].managed : Managing(pom[c].managed[a])
    /\ \E n \in Nat : /\ Len(pom[c].dependencies) = n /\ DOMAIN pom[c].dependencies = 1..n
                      /\ \A i \in 1..n : DepOK(pom[c].dependencies[i])

LEMMA EffectivePomsAreTyped ==
  ASSUME NEW repo, RepositoryOK(repo), pom = Effective(repo)
  PROVE  PomsOK
<1>1. SUFFICES ASSUME NEW c \in DOMAIN pom
               PROVE  /\ DOMAIN pom[c].managed \subseteq Artifacts
                      /\ \A a \in DOMAIN pom[c].managed : Managing(pom[c].managed[a])
                      /\ \E n \in Nat : /\ Len(pom[c].dependencies) = n
                                        /\ DOMAIN pom[c].dependencies = 1..n
                                        /\ \A i \in 1..n : DepOK(pom[c].dependencies[i])
  BY DEF PomsOK
<1>2. /\ c \in DOMAIN repo /\ Readable(repo, c)
      /\ pom[c].dependencies = Dependencies(repo, c) /\ pom[c].managed = Managed(repo, c)
  BY DEF Effective
<1>3. PICK own : own = IF repo[c].jvm = <<>> THEN repo[c].dependencies
                       ELSE <<[ga |-> repo[c].jvm[1][1], version |-> repo[c].jvm[1][2],
                               scope |-> "none", optional |-> FALSE, excludes |-> {}]>>
  OBVIOUS
<1>4. PICK n \in Nat : /\ Len(own) = n /\ DOMAIN own = 1..n
                       /\ \A i \in 1..n : {"ga", "excludes"} \subseteq DOMAIN own[i] /\ DepOK(own[i])
  <2>1. PomOK(repo[c])
    BY <1>2 DEF RepositoryOK
  <2>2. CASE repo[c].jvm = <<>>
    <3>1. own \in Seq(Requirement)
      BY <1>3, <2>1, <2>2 DEF PomOK
    <3>2. \A i \in 1..Len(own) : own[i] \in Requirement
      BY <3>1
    <3>3. \A d \in Requirement : {"ga", "excludes"} \subseteq DOMAIN d /\ DepOK(d)
      BY DEF Requirement, DepOK
    <3>4. Len(own) \in Nat /\ DOMAIN own = 1..Len(own)
      BY <3>1
    <3>5. QED BY <3>2, <3>3, <3>4
  <2>3. CASE repo[c].jvm # <<>>
    <3>1. repo[c].jvm \in Seq(Coords)
      BY <2>1 DEF PomOK
    <3>2. repo[c].jvm[1] \in Coords
      BY <2>3, <3>1
    <3>3. repo[c].jvm[1][1] \in Artifacts
      BY <3>2 DEF Coords
    <3>4. PICK d : d = [ga |-> repo[c].jvm[1][1], version |-> repo[c].jvm[1][2],
                        scope |-> "none", optional |-> FALSE, excludes |-> {}]
      OBVIOUS
    <3>5. own = <<d>> /\ {"ga", "excludes"} \subseteq DOMAIN d /\ DepOK(d)
      BY <1>3, <2>3, <3>3, <3>4 DEF DepOK
    <3>6. Len(own) = 1 /\ DOMAIN own = 1..1 /\ \A i \in 1..1 : own[i] = d
      BY <3>5
    <3>7. QED BY <3>5, <3>6
  <2>4. QED BY <2>2, <2>3
<1>5. PICK properties : properties = Properties(repo, c)
  OBVIOUS
<1>6. PICK managed : managed = Managed(repo, c) /\ DOMAIN managed \subseteq Artifacts
                     /\ \A a \in DOMAIN managed : Managing(managed[a])
  BY <1>2, ManagedIsTyped
<1>7. PICK deps : deps = [i \in DOMAIN own |->
                Filled([own[i] EXCEPT !.version = Interpolated(@, properties)], managed)]
  OBVIOUS
<1>8. pom[c].dependencies = deps
  BY <1>2, <1>3, <1>5, <1>6, <1>7 DEF Dependencies
<1>9. ASSUME NEW d, DepOK(d) PROVE DepOK(Filled(d, managed))
  <2>1. CASE d.ga \in DOMAIN managed
    <3>1. /\ Filled(d, managed).ga = d.ga
          /\ Filled(d, managed).excludes = d.excludes \cup managed[d.ga].excludes
      BY <2>1 DEF Filled
    <3>2. managed[d.ga].excludes \subseteq Patterns
      BY <1>6, <2>1 DEF Managing
    <3>3. QED BY <1>9, <3>1, <3>2 DEF DepOK
  <2>2. CASE d.ga \notin DOMAIN managed
    <3>1. /\ Filled(d, managed).ga = d.ga
          /\ Filled(d, managed).excludes = d.excludes \cup {}
      BY <2>2 DEF Filled
    <3>2. QED BY <1>9, <3>1 DEF DepOK
  <2>3. QED BY <2>1, <2>2
<1>10. ASSUME NEW i \in 1..n PROVE DepOK(deps[i])
  <2>1. PICK d : d = [own[i] EXCEPT !.version = Interpolated(@, properties)]
    OBVIOUS
  <2>2. d.ga = own[i].ga /\ d.excludes = own[i].excludes
    <3>1. {"ga", "excludes"} \subseteq DOMAIN own[i]
      BY <1>4
    <3>2. QED BY <2>1, <3>1
  <2>3. deps[i] = Filled(d, managed)
    BY <1>4, <1>7, <2>1
  <2>4. DepOK(d)
    BY <1>4, <2>2 DEF DepOK
  <2>5. QED BY <1>9, <2>3, <2>4
<1>11. Len(deps) = n /\ DOMAIN deps = 1..n
  BY <1>4, <1>7
<1>12. QED BY <1>2, <1>6, <1>8, <1>10, <1>11

BomsOK == manifest.boms \in Seq(Coords) /\ ToSet(manifest.boms) \subseteq DOMAIN pom

LEMMA ManagedExcludesArePatterns ==
  ASSUME PomsOK, BomsOK, NEW a
  PROVE  ManagedExcludes(a) \subseteq Patterns
<1>1. CASE ~(IsManaged(a) /\ a \notin DOMAIN manifest.pins)
  <2>1. ManagedExcludes(a) = {}
    BY <1>1 DEF ManagedExcludes
  <2>2. QED BY <2>1
<1>2. CASE IsManaged(a) /\ a \notin DOMAIN manifest.pins
  <2>1. PICK s \in Seq(Coords) : s = manifest.boms /\ ToSet(s) \subseteq DOMAIN pom
    BY DEF BomsOK
  <2>2. PICK naming : naming = {i \in DOMAIN manifest.boms : Naming(manifest.boms[i], a)}
    OBVIOUS
  <2>3. naming \in SUBSET Nat /\ naming # {}
    <3>1. DOMAIN s \subseteq Nat
      BY <2>1
    <3>2. \E i \in DOMAIN s : Naming(s[i], a)
      BY <1>2, <2>1 DEF IsManaged
    <3>3. QED BY <2>1, <2>2, <3>1, <3>2
  <2>4. \E i \in naming : \A j \in naming : i <= j
    BY <2>3, SomeFirst
  <2>5. PICK i \in naming : i = CHOOSE k \in naming : \A j \in naming : k <= j
    BY <2>4
  <2>6. FirstBom(a) = pom[s[i]].managed[a]
    BY <2>1, <2>2, <2>5 DEF FirstBom
  <2>7. i \in DOMAIN s /\ Naming(s[i], a)
    BY <2>1, <2>2
  <2>8. s[i] \in DOMAIN pom /\ a \in DOMAIN pom[s[i]].managed
    BY <2>1, <2>7 DEF ToSet, Naming
  <2>9. FirstBom(a).excludes \subseteq Patterns
    BY <2>6, <2>8 DEF PomsOK, Managing
  <2>10. QED BY <1>2, <2>9 DEF ManagedExcludes
<1>3. QED BY <1>1, <1>2

LEMMA DepsAreTyped ==
  ASSUME PomsOK, NEW b
  PROVE  \E n \in Nat : /\ Len(Deps(b)) = n /\ DOMAIN Deps(b) = 1..n
                        /\ \A i \in 1..n : DepOK(Deps(b)[i])
<1>1. CASE b \in DOMAIN selected /\ <<b, selected[b].version>> \in DOMAIN pom
  BY <1>1 DEF Deps, PomsOK
<1>2. CASE ~(b \in DOMAIN selected /\ <<b, selected[b].version>> \in DOMAIN pom)
  <2>1. Deps(b) = <<>>
    BY <1>2 DEF Deps
  <2>2. Len(<<>>) = 0 /\ DOMAIN <<>> = 1..0
    OBVIOUS
  <2>3. QED BY <2>1, <2>2
<1>3. QED BY <1>1, <1>2

LEMMA DepsAreOK ==
  ASSUME PomsOK, BomsOK
  PROVE  DepsOK
<1>1. \A a : ManagedExcludes(a) \subseteq Patterns
  BY ManagedExcludesArePatterns
<1>2. ASSUME NEW b \in Artifacts, NEW d \in ToSet(Deps(b))
      PROVE  d.ga \in Artifacts /\ d.excludes \subseteq Patterns
  BY DepsAreTyped DEF ToSet, DepOK
<1>3. QED BY <1>1, <1>2 DEF DepsOK

\* What a repository's POMs come to names artifacts.
LEMMA EffectivePomsAreOK ==
  ASSUME NEW repo, RepositoryOK(repo), pom = Effective(repo)
  PROVE  PomInv
<1>1. PomsOK
  BY EffectivePomsAreTyped
<1>2. QED BY <1>1 DEF PomsOK, PomInv, DepOK

-----------------------------------------------------------------------------
(* Nothing is lost for having been excluded elsewhere.                     *)

\* A sequence's items as a set.
Sequence(s) == \E S : s \in Seq(S)

LEMMA ItemsOfJoined ==
  ASSUME NEW s, Sequence(s), NEW t, Sequence(t)
  PROVE  Sequence(s \o t) /\ ToSet(s \o t) = ToSet(s) \cup ToSet(t)
<1>1. PICK R : s \in Seq(R) /\ t \in Seq(R)
  <2>1. PICK S : s \in Seq(S)
    BY DEF Sequence
  <2>2. PICK T : t \in Seq(T)
    BY DEF Sequence
  <2>3. s \in Seq(S \cup T) /\ t \in Seq(S \cup T)
    BY <2>1, <2>2
  <2>4. QED BY <2>3
<1>2. PICK n \in Nat, m \in Nat : n = Len(s) /\ m = Len(t) /\ DOMAIN s = 1..n /\ DOMAIN t = 1..m
  BY <1>1
<1>3. PICK u : u = s \o t
  OBVIOUS
<1>4. u \in Seq(R) /\ Len(u) = n + m /\ DOMAIN u = 1..(n + m)
      /\ (\A i \in 1..n : u[i] = s[i]) /\ (\A i \in 1..m : u[n + i] = t[i])
  BY <1>1, <1>2, <1>3
<1>5. \A i \in 1..(n + m) : i \in 1..n \/ \E j \in 1..m : i = n + j
  <2>1. SUFFICES ASSUME NEW i \in 1..(n + m), i \notin 1..n PROVE \E j \in 1..m : i = n + j
    OBVIOUS
  <2>2. i - n \in 1..m /\ i = n + (i - n)
    BY <2>1
  <2>3. QED BY <2>2
<1>6. ToSet(u) \subseteq ToSet(s) \cup ToSet(t)
  <2>1. \A i \in 1..n : s[i] \in ToSet(s)
    BY <1>2 DEF ToSet
  <2>2. \A i \in 1..m : t[i] \in ToSet(t)
    BY <1>2 DEF ToSet
  <2>3. \A i \in 1..(n + m) : u[i] \in ToSet(s) \cup ToSet(t)
    BY <1>4, <1>5, <2>1, <2>2
  <2>4. QED BY <1>4, <2>3 DEF ToSet
<1>7. \A i \in 1..m : n + i \in 1..(n + m)
  OBVIOUS
<1>8. \A i \in 1..n : i \in 1..(n + m)
  OBVIOUS
<1>9. ToSet(s) \subseteq ToSet(u) /\ ToSet(t) \subseteq ToSet(u)
  BY <1>2, <1>4, <1>7, <1>8 DEF ToSet
<1>10. QED BY <1>3, <1>4, <1>6, <1>9 DEF Sequence

LEMMA ItemsWithOneMore ==
  ASSUME NEW s, Sequence(s), NEW x
  PROVE  Sequence(Append(s, x)) /\ ToSet(Append(s, x)) = ToSet(s) \cup {x}
<1>1. PICK R : s \in Seq(R) /\ x \in R
  <2>1. PICK S : s \in Seq(S)
    BY DEF Sequence
  <2>2. s \in Seq(S \cup {x})
    BY <2>1
  <2>3. QED BY <2>2
<1>2. Append(s, x) = s \o <<x>> /\ <<x>> \in Seq(R) /\ DOMAIN <<x>> = {1} /\ <<x>>[1] = x
  BY <1>1
<1>3. Sequence(<<x>>) /\ ToSet(<<x>>) = {x}
  BY <1>2 DEF Sequence, ToSet
<1>4. QED BY <1>2, <1>3, ItemsOfJoined

LEMMA ItemsOfRest ==
  ASSUME NEW s, Sequence(s), s # <<>>
  PROVE  Sequence(Tail(s)) /\ ToSet(s) = {Head(s)} \cup ToSet(Tail(s))
<1>1. PICK R : s \in Seq(R)
  BY DEF Sequence
<1>2. <<Head(s)>> \in Seq(R) /\ Tail(s) \in Seq(R) /\ s = <<Head(s)>> \o Tail(s)
      /\ DOMAIN <<Head(s)>> = {1} /\ <<Head(s)>>[1] = Head(s)
  BY <1>1
<1>3. Sequence(<<Head(s)>>) /\ ToSet(<<Head(s)>>) = {Head(s)} /\ Sequence(Tail(s))
  BY <1>2 DEF Sequence, ToSet
<1>4. QED BY <1>2, <1>3, ItemsOfJoined

LEMMA NoItems == Sequence(<<>>) /\ ToSet(<<>>) = {}
<1>1. <<>> \in Seq({}) /\ DOMAIN <<>> = {}
  OBVIOUS
<1>2. QED BY <1>1 DEF Sequence, ToSet

\* What b's request d excludes for what it asks for.
Within(b, d) == walked[b] \cup d.excludes \cup ManagedExcludes(d.ga)

\* It waits, or is met: excluding no more than that.
Asked(s, b, d) == \E x \in ToSet(s) : x.ga = d.ga /\ b \in x.parent /\ x.excludes \subseteq Within(b, d)
Answered(b, d) == <<b, d.ga>> \in edges /\ walked[d.ga] \subseteq Within(b, d)

\* The POM of b is to be read past what it is walked past, or all it asks for
\* past that is asked for.
ToRead(s, b) == \E x \in ToSet(s) : /\ x.ga = b /\ x.version = selected[b].version
                                    /\ x.excludes = walked[b]
Passes(b) == \A d \in ToSet(Deps(b)) :
               Admissible(d, walked[b]) =>
                 Asked(level, b, d) \/ Asked(upcoming, b, d) \/ Answered(b, d)

\* So is each of the manifest's declarations.
RootAsked(r) == \E x \in ToSet(level) :
                  x.ga = r.ga /\ x.excludes \subseteq r.excludes \cup ManagedExcludes(r.ga)
RootWalked(r) == /\ r.ga \in DOMAIN selected
                 /\ walked[r.ga] \subseteq r.excludes \cup ManagedExcludes(r.ga)

SequencesInv == Sequence(level) /\ Sequence(admitted) /\ Sequence(rewalk) /\ Sequence(upcoming)
ShapeInv ==
  /\ manifest.everyPath /\ manifest.boms \in Seq(Coords) /\ Sequence(manifest.roots)
  /\ PomsOK /\ EdgesOK
  /\ DOMAIN walked = DOMAIN selected
  /\ \A a \in DOMAIN selected : "version" \in DOMAIN selected[a] /\ a \in Artifacts
  /\ at = "seed" => DOMAIN selected = {}
  /\ at \in {"mediate", "fetch", "widen", "resolved"} => ToSet(manifest.boms) \subseteq DOMAIN pom
  /\ at \in {"fetch", "widen", "resolved"} => level = <<>>
  /\ at \in {"seed", "fetch", "widen", "resolved"} => rewalk = <<>>
  /\ at \in {"seed", "mediate", "widen", "resolved"} => upcoming = <<>>
  /\ at \in {"widen", "resolved"} => admitted = <<>>
PassInv == \A b \in DOMAIN selected : ToRead(admitted, b) \/ ToRead(rewalk, b) \/ Passes(b)
AskedInv == at \in {"mediate", "fetch", "widen", "resolved"} =>
              \A r \in ToSet(manifest.roots) : RootAsked(r) \/ RootWalked(r)
KeepInv == SequencesInv /\ ShapeInv /\ PassInv /\ AskedInv

\* What the manifest and the POMs say stays.
LEMMA SayingStays ==
  ASSUME UNCHANGED <<manifest, pom>>
  PROVE  /\ \A a : ManagedExcludes(a)' = ManagedExcludes(a)
         /\ \A d, X : Admissible(d, X)' <=> Admissible(d, X)
<1>1. \A b, a : Naming(b, a)' <=> Naming(b, a)
  BY DEF Naming
<1>2. \A a : (IsManaged(a)' <=> IsManaged(a)) /\ FirstBom(a)' = FirstBom(a)
  BY <1>1 DEF IsManaged, FirstBom
<1>3. \A a : ManagedExcludes(a)' = ManagedExcludes(a)
  BY <1>2 DEF ManagedExcludes
<1>4. \A d, X : Admissible(d, X)' <=> Admissible(d, X)
  BY <1>2 DEF Admissible
<1>5. QED BY <1>3, <1>4

LEMMA DepsStay ==
  ASSUME UNCHANGED pom, NEW b \in DOMAIN selected, b \in DOMAIN selected',
         selected'[b].version = selected[b].version
  PROVE  Deps(b)' = Deps(b)
BY DEF Deps

\* Nothing settled, nothing walked.
LEMMA PassesStay ==
  ASSUME UNCHANGED <<manifest, pom, selected, walked, edges>>
  PROVE  /\ \A s, b, d : (Asked(s, b, d) <=> Asked(s, b, d)') /\ (Answered(b, d) <=> Answered(b, d)')
         /\ \A s, b : ToRead(s, b) <=> ToRead(s, b)'
         /\ \A b : Deps(b)' = Deps(b) /\ walked'[b] = walked[b]
         /\ \A r : RootWalked(r) <=> RootWalked(r)'
<1>1. \A b, d : Within(b, d)' = Within(b, d)
  BY SayingStays DEF Within
<1>2. \A s, b, d : (Asked(s, b, d) <=> Asked(s, b, d)') /\ (Answered(b, d) <=> Answered(b, d)')
  BY <1>1 DEF Asked, Answered
<1>3. \A s, b : ToRead(s, b) <=> ToRead(s, b)'
  BY DEF ToRead
<1>4. \A b : Deps(b)' = Deps(b) /\ walked'[b] = walked[b]
  BY DEF Deps
<1>5. \A r : RootWalked(r) <=> RootWalked(r)'
  BY SayingStays DEF RootWalked
<1>6. QED BY <1>2, <1>3, <1>4, <1>5

LEMMA KeepStutters ==
  ASSUME KeepInv, UNCHANGED resolveVars
  PROVE  KeepInv'
<1>1. UNCHANGED <<manifest, pom, selected, walked, edges>> /\ UNCHANGED <<at, level, upcoming, admitted, rewalk>>
  BY DEF resolveVars
<1>2. SequencesInv'
  BY <1>1 DEF KeepInv, SequencesInv
<1>3. ShapeInv'
  BY <1>1 DEF KeepInv, ShapeInv, PomsOK, EdgesOK
<1>4. PassInv'
  <2>1. SUFFICES ASSUME NEW b \in DOMAIN selected
                 PROVE  ToRead(admitted, b)' \/ ToRead(rewalk, b)' \/ Passes(b)'
    BY <1>1 DEF PassInv
  <2>2. ToRead(admitted, b) \/ ToRead(rewalk, b) \/ Passes(b)
    BY DEF KeepInv, PassInv
  <2>3. (ToRead(admitted, b) => ToRead(admitted, b)') /\ (ToRead(rewalk, b) => ToRead(rewalk, b)')
    BY <1>1 DEF ToRead
  <2>4. Passes(b) => Passes(b)'
    BY <1>1, PassesStay, SayingStays DEF Passes, Asked
  <2>5. QED BY <2>2, <2>3, <2>4
<1>5. AskedInv'
  BY <1>1, PassesStay, SayingStays DEF KeepInv, AskedInv, RootAsked
<1>6. QED BY <1>2, <1>3, <1>4, <1>5 DEF KeepInv

LEMMA KeepFails ==
  ASSUME KeepInv, UNCHANGED <<manifest, pom, selected, walked, edges>>,
         UNCHANGED <<level, upcoming, admitted, rewalk>>, at' = "failed"
  PROVE  KeepInv'
<1>1. SequencesInv'
  BY DEF KeepInv, SequencesInv
<1>2. ShapeInv'
  BY DEF KeepInv, ShapeInv, PomsOK, EdgesOK
<1>3. PassInv'
  <2>1. SUFFICES ASSUME NEW b \in DOMAIN selected
                 PROVE  ToRead(admitted, b)' \/ ToRead(rewalk, b)' \/ Passes(b)'
    BY DEF PassInv
  <2>2. ToRead(admitted, b) \/ ToRead(rewalk, b) \/ Passes(b)
    BY DEF KeepInv, PassInv
  <2>3. (ToRead(admitted, b) => ToRead(admitted, b)') /\ (ToRead(rewalk, b) => ToRead(rewalk, b)')
    BY DEF ToRead
  <2>4. Passes(b) => Passes(b)'
    BY PassesStay, SayingStays DEF Passes, Asked
  <2>5. QED BY <2>2, <2>3, <2>4
<1>4. AskedInv'
  BY DEF AskedInv
<1>5. QED BY <1>1, <1>2, <1>3, <1>4 DEF KeepInv

LEMMA KeepStarts ==
  ASSUME KeepInv, Start
  PROVE  KeepInv'
<1>0. UNCHANGED <<manifest, pom, selected, walked, edges>> /\ at = "seed"
  BY DEF Start, Fail
<1>1. CASE \/ ~(ToSet(manifest.boms) \subseteq DOMAIN pom)
           \/ \E i \in DOMAIN manifest.roots : Refused(manifest.roots[i])
  <2>1. Fail
    BY <1>1 DEF Start
  <2>2. QED BY <1>0, <2>1, KeepFails DEF Fail
<1>2. CASE ~(\/ ~(ToSet(manifest.boms) \subseteq DOMAIN pom)
             \/ \E i \in DOMAIN manifest.roots : Refused(manifest.roots[i]))
  <2>1. /\ at' = "mediate" /\ level' = Seed /\ UNCHANGED <<admitted, rewalk, upcoming>>
        /\ ToSet(manifest.boms) \subseteq DOMAIN pom
    BY <1>2 DEF Start
  <2>2. DOMAIN selected = {} /\ rewalk = <<>> /\ upcoming = <<>>
    BY <1>0 DEF KeepInv, ShapeInv
  <2>3. PICK n \in Nat : DOMAIN manifest.roots = 1..n
    BY DEF KeepInv, ShapeInv, Sequence
  <2>4. PICK s : s = Seed
    OBVIOUS
  <2>5. s = [i \in 1..n |-> s[i]]
        /\ \A i \in 1..n : /\ s[i].ga = manifest.roots[i].ga
                           /\ s[i].excludes = manifest.roots[i].excludes
                                              \cup ManagedExcludes(manifest.roots[i].ga)
    BY <2>3, <2>4 DEF Seed
  <2>6. Sequence(s)
    <3>1. s \in Seq({s[i] : i \in 1..n})
      BY <2>5
    <3>2. QED BY <3>1 DEF Sequence
  <2>7. SequencesInv'
    BY <2>1, <2>4, <2>6 DEF KeepInv, SequencesInv
  <2>8. ShapeInv'
    BY <1>0, <2>1, <2>2 DEF KeepInv, ShapeInv, PomsOK, EdgesOK
  <2>9. PassInv'
    BY <1>0, <2>2 DEF PassInv
  <2>10. ASSUME NEW r \in ToSet(manifest.roots) PROVE RootAsked(r)'
    <3>1. PICK i \in 1..n : r = manifest.roots[i]
      BY <2>3 DEF ToSet
    <3>2. s[i] \in ToSet(s)
      BY <2>5 DEF ToSet
    <3>3. \E x \in ToSet(s) : x.ga = r.ga /\ x.excludes \subseteq r.excludes \cup ManagedExcludes(r.ga)
      BY <2>5, <3>1, <3>2
    <3>4. ManagedExcludes(r.ga)' = ManagedExcludes(r.ga)
      BY <1>0, SayingStays
    <3>5. QED BY <2>1, <2>4, <3>3, <3>4 DEF RootAsked
  <2>11. AskedInv'
    BY <1>0, <2>10 DEF AskedInv
  <2>12. QED BY <2>7, <2>8, <2>9, <2>11 DEF KeepInv
<1>3. QED BY <1>1, <1>2

LEMMA ReadPomsKeeps ==
  ASSUME KeepInv, ReadPoms
  PROVE  KeepInv'
<1>1. /\ UNCHANGED <<manifest, pom, selected, walked, edges>> /\ UNCHANGED <<level, upcoming>>
      /\ at = "mediate" /\ at' = "fetch" /\ level = <<>> /\ admitted' = admitted \o rewalk /\ rewalk' = <<>>
  BY DEF ReadPoms
<1>2. Sequence(admitted') /\ ToSet(admitted') = ToSet(admitted) \cup ToSet(rewalk)
  BY <1>1, ItemsOfJoined DEF KeepInv, SequencesInv
<1>3. SequencesInv'
  BY <1>1, <1>2, NoItems DEF KeepInv, SequencesInv
<1>4. ShapeInv'
  BY <1>1 DEF KeepInv, ShapeInv, PomsOK, EdgesOK
<1>5. PassInv'
  <2>1. SUFFICES ASSUME NEW b \in DOMAIN selected
                 PROVE  ToRead(admitted, b)' \/ ToRead(rewalk, b)' \/ Passes(b)'
    BY <1>1 DEF PassInv
  <2>2. ToRead(admitted, b) \/ ToRead(rewalk, b) \/ Passes(b)
    BY DEF KeepInv, PassInv
  <2>3. ToRead(admitted, b) \/ ToRead(rewalk, b) => ToRead(admitted, b)'
    BY <1>1, <1>2 DEF ToRead
  <2>4. Passes(b) => Passes(b)'
    BY <1>1, PassesStay, SayingStays DEF Passes, Asked
  <2>5. QED BY <2>2, <2>3, <2>4
<1>6. AskedInv'
  BY <1>1, PassesStay, SayingStays DEF KeepInv, AskedInv, RootAsked
<1>7. QED BY <1>3, <1>4, <1>5, <1>6 DEF KeepInv

LEMMA NextLevelKeeps ==
  ASSUME KeepInv, NextLevel
  PROVE  KeepInv'
<1>1. /\ UNCHANGED <<manifest, pom, selected, walked, edges>> /\ UNCHANGED <<admitted, rewalk>>
      /\ at = "fetch" /\ admitted = <<>> /\ level' = upcoming /\ upcoming' = <<>>
      /\ at' \in {"failed", "widen", "mediate"} /\ (at' = "widen" => upcoming = <<>>)
  BY DEF NextLevel
<1>2. level = <<>> /\ rewalk = <<>>
  BY <1>1 DEF KeepInv, ShapeInv
<1>3. SequencesInv'
  BY <1>1, NoItems DEF KeepInv, SequencesInv
<1>4. ShapeInv'
  BY <1>1, <1>2 DEF KeepInv, ShapeInv, PomsOK, EdgesOK
<1>5. PassInv'
  <2>1. SUFFICES ASSUME NEW b \in DOMAIN selected
                 PROVE  ToRead(admitted, b)' \/ ToRead(rewalk, b)' \/ Passes(b)'
    BY <1>1 DEF PassInv
  <2>2. ToRead(admitted, b) \/ ToRead(rewalk, b) \/ Passes(b)
    BY DEF KeepInv, PassInv
  <2>3. (ToRead(admitted, b) => ToRead(admitted, b)') /\ (ToRead(rewalk, b) => ToRead(rewalk, b)')
    BY <1>1 DEF ToRead
  <2>4. ASSUME Passes(b), NEW d \in ToSet(Deps(b)), Admissible(d, walked[b])
        PROVE  Asked(level, b, d)' \/ Answered(b, d)'
    <3>1. Asked(level, b, d) \/ Asked(upcoming, b, d) \/ Answered(b, d)
      BY <2>4 DEF Passes
    <3>2. ~Asked(level, b, d)
      BY <1>2, NoItems DEF Asked
    <3>3. \A s : Asked(s, b, d) <=> Asked(s, b, d)'
      BY <1>1, PassesStay
    <3>4. Asked(upcoming, b, d) => Asked(level, b, d)'
      <4>1. PICK s : s = upcoming /\ s = level'
        BY <1>1
      <4>2. Asked(s, b, d) => Asked(s, b, d)'
        BY <3>3
      <4>3. QED BY <4>1, <4>2 DEF Asked
    <3>5. QED BY <1>1, <3>1, <3>2, <3>4, PassesStay
  <2>5. Passes(b) => Passes(b)'
    BY <1>1, <2>4, PassesStay, SayingStays DEF Passes
  <2>6. QED BY <2>2, <2>3, <2>5
<1>6. AskedInv'
  <2>1. \A r : ~RootAsked(r)
    BY <1>2, NoItems DEF RootAsked
  <2>2. \A r \in ToSet(manifest.roots) : RootWalked(r)
    BY <1>1, <2>1 DEF KeepInv, AskedInv
  <2>3. QED BY <1>1, <2>2, PassesStay DEF AskedInv
<1>7. QED BY <1>3, <1>4, <1>5, <1>6 DEF KeepInv

\* What mediating a request does to what is settled.
Mediating(item) ==
  /\ DOMAIN selected' = DOMAIN selected \cup {item.ga} /\ DOMAIN walked' = DOMAIN selected'
  /\ "version" \in DOMAIN selected'[item.ga]
  /\ \A b \in DOMAIN selected : selected'[b].version = selected[b].version
  /\ \A b \in DOMAIN selected : b # item.ga => selected'[b] = selected[b]
  /\ \A b \in DOMAIN selected : walked'[b] \subseteq walked[b]
  /\ walked'[item.ga] \subseteq item.excludes
  /\ \A b \in DOMAIN selected' : \/ b \in DOMAIN selected /\ walked'[b] = walked[b]
                                 \/ ToRead(admitted, b)' \/ ToRead(rewalk, b)'
  /\ Sequence(admitted') /\ ToSet(admitted) \subseteq ToSet(admitted')
  /\ Sequence(rewalk') /\ ToSet(rewalk) \subseteq ToSet(rewalk')

LEMMA AdmitMediates ==
  ASSUME KeepInv, NEW item, item.ga \notin DOMAIN selected, Admit(item)
  PROVE  Mediating(item)
<1>1. DOMAIN walked = DOMAIN selected /\ Sequence(admitted) /\ Sequence(rewalk)
  BY DEF KeepInv, ShapeInv, SequencesInv
<1>2. PICK package : package = [version |-> item.version, depth |-> item.depth,
                                classpath |-> item.classpath, direct |-> item.depth = 1,
                                mediated |-> FALSE]
  OBVIOUS
<1>3. /\ selected' = [b \in DOMAIN selected \cup {item.ga} |->
                        IF b = item.ga THEN package ELSE selected[b]]
      /\ walked' = [b \in DOMAIN walked \cup {item.ga} |->
                      IF b = item.ga THEN item.excludes ELSE walked[b]]
      /\ admitted' = Append(admitted, item) /\ rewalk' = rewalk
  BY <1>2 DEF Admit
<1>4. Sequence(admitted') /\ ToSet(admitted') = ToSet(admitted) \cup {item}
  BY <1>1, <1>3, ItemsWithOneMore
<1>5. package.version = item.version /\ "version" \in DOMAIN package
  BY <1>2
<1>6. ToRead(admitted, item.ga)'
  BY <1>1, <1>3, <1>4, <1>5 DEF ToRead
<1>7. /\ DOMAIN selected' = DOMAIN selected \cup {item.ga} /\ DOMAIN walked' = DOMAIN selected'
      /\ selected'[item.ga] = package /\ walked'[item.ga] = item.excludes
      /\ \A b \in DOMAIN selected : b # item.ga /\ selected'[b] = selected[b] /\ walked'[b] = walked[b]
  BY <1>1, <1>3
<1>8. \A b \in DOMAIN selected' : \/ b \in DOMAIN selected /\ walked'[b] = walked[b]
                                  \/ ToRead(admitted, b)' \/ ToRead(rewalk, b)'
  BY <1>6, <1>7
<1>9. QED BY <1>1, <1>3, <1>4, <1>5, <1>7, <1>8 DEF Mediating

LEMMA MeetMediates ==
  ASSUME KeepInv, NEW item, item.ga \in DOMAIN selected, Meet(item), UNCHANGED manifest
  PROVE  Mediating(item)
<1>1. /\ DOMAIN walked = DOMAIN selected /\ Sequence(admitted) /\ Sequence(rewalk)
      /\ manifest.everyPath /\ "version" \in DOMAIN selected[item.ga]
  BY DEF KeepInv, ShapeInv, SequencesInv
<1>2. PICK met : met = Met(selected[item.ga], item)
  OBVIOUS
<1>3. met.version = selected[item.ga].version /\ "version" \in DOMAIN met
  BY <1>1, <1>2 DEF Met
<1>4. selected' = [selected EXCEPT ![item.ga] = met] /\ admitted' = admitted
  BY <1>2 DEF Meet
<1>5. /\ DOMAIN selected' = DOMAIN selected /\ selected'[item.ga] = met
      /\ \A b \in DOMAIN selected : b # item.ga => selected'[b] = selected[b]
  BY <1>4
<1>6. CASE ~WalksAgain(item)
  <2>1. walked' = walked /\ rewalk' = rewalk
    BY <1>6 DEF Meet
  <2>2. walked[item.ga] \subseteq item.excludes
    BY <1>1, <1>6 DEF WalksAgain, KeptOut
  <2>3. QED BY <1>1, <1>3, <1>4, <1>5, <2>1, <2>2 DEF Mediating
<1>7. CASE WalksAgain(item)
  <2>1. PICK x : x = [ga |-> item.ga, version |-> met.version, classpath |-> met.classpath,
                      depth |-> met.depth, parent |-> {}, excludes |-> KeptOut(item)]
    OBVIOUS
  <2>2. walked' = [walked EXCEPT ![item.ga] = KeptOut(item)] /\ rewalk' = Append(rewalk, x)
    BY <1>2, <1>7, <2>1 DEF Meet
  <2>3. /\ DOMAIN walked' = DOMAIN walked /\ walked'[item.ga] = KeptOut(item)
        /\ \A b \in DOMAIN walked : b # item.ga => walked'[b] = walked[b]
    BY <1>1, <2>2
  <2>4. KeptOut(item) \subseteq walked[item.ga] /\ KeptOut(item) \subseteq item.excludes
    BY DEF KeptOut
  <2>5. Sequence(rewalk') /\ ToSet(rewalk') = ToSet(rewalk) \cup {x}
    BY <1>1, <2>2, ItemsWithOneMore
  <2>6. x.ga = item.ga /\ x.version = met.version /\ x.excludes = walked'[item.ga]
    BY <2>1, <2>3
  <2>7. ToRead(rewalk, item.ga)'
    BY <1>5, <2>5, <2>6 DEF ToRead
  <2>8. \A b \in DOMAIN selected' : \/ b \in DOMAIN selected /\ walked'[b] = walked[b]
                                    \/ ToRead(admitted, b)' \/ ToRead(rewalk, b)'
    BY <1>1, <1>5, <2>3, <2>7
  <2>9. \A b \in DOMAIN selected : walked'[b] \subseteq walked[b]
    BY <1>1, <2>3, <2>4
  <2>10. \A b \in DOMAIN selected : selected'[b].version = selected[b].version
    BY <1>3, <1>5
  <2>11. DOMAIN selected' = DOMAIN selected \cup {item.ga} /\ DOMAIN walked' = DOMAIN selected'
         /\ "version" \in DOMAIN selected'[item.ga]
    BY <1>1, <1>3, <1>5, <2>3
  <2>12. Sequence(admitted') /\ ToSet(admitted) \subseteq ToSet(admitted')
    BY <1>1, <1>4
  <2>13. QED BY <1>5, <2>3, <2>4, <2>5, <2>8, <2>9, <2>10, <2>11, <2>12 DEF Mediating
<1>8. QED BY <1>6, <1>7

\* A request met answers those who made it.
LEMMA MediateKeeps ==
  ASSUME KeepInv, LandInv, Mediate
  PROVE  KeepInv'
<1>1. PICK item : item = Head(level)
  OBVIOUS
<1>2. /\ edges' = edges \cup {<<p, item.ga>> : p \in item.parent}
      /\ level # <<>> /\ level' = Tail(level) /\ at = "mediate"
      /\ UNCHANGED <<manifest, pom>> /\ UNCHANGED <<at, upcoming>>
  BY <1>1 DEF Mediate, AddEdge
<1>3. Mediating(item)
  <2>1. CASE item.ga \in DOMAIN selected
    <3>1. Meet(item)
      BY <1>1, <2>1 DEF Mediate
    <3>2. QED BY <1>2, <2>1, <3>1, MeetMediates
  <2>2. CASE item.ga \notin DOMAIN selected
    <3>1. Admit(item)
      BY <1>1, <2>2 DEF Mediate
    <3>2. QED BY <2>2, <3>1, AdmitMediates
  <2>3. QED BY <2>1, <2>2
<1>4. Sequence(level') /\ ToSet(level) = {item} \cup ToSet(level')
  BY <1>1, <1>2, ItemsOfRest DEF KeepInv, SequencesInv
<1>5. SequencesInv'
  BY <1>2, <1>3, <1>4 DEF KeepInv, SequencesInv, Mediating
<1>6. /\ \A a : ManagedExcludes(a)' = ManagedExcludes(a)
      /\ \A d, X : Admissible(d, X)' <=> Admissible(d, X)
  BY <1>2, SayingStays
<1>7. ShapeInv'
  <2>1. LandInv'
    BY LandStep DEF ResolveNext
  <2>2. EdgesOK' /\ DOMAIN selected' \subseteq Artifacts
    <3>1. EdgesOK' /\ SelectedInv'
      BY <2>1 DEF LandInv
    <3>2. QED BY <3>1 DEF SelectedInv
  <2>3. \A a \in DOMAIN selected : "version" \in DOMAIN selected[a]
    BY DEF KeepInv, ShapeInv
  <2>4. \A a \in DOMAIN selected' : "version" \in DOMAIN selected'[a] /\ a \in Artifacts
    BY <1>3, <2>2, <2>3 DEF Mediating
  <2>5. DOMAIN walked' = DOMAIN selected'
    BY <1>3 DEF Mediating
  <2>6. /\ manifest'.everyPath /\ manifest'.boms \in Seq(Coords) /\ Sequence(manifest'.roots)
        /\ PomsOK' /\ ToSet(manifest'.boms) \subseteq DOMAIN pom' /\ upcoming' = <<>>
    BY <1>2 DEF KeepInv, ShapeInv, PomsOK
  <2>7. QED BY <1>2, <2>2, <2>4, <2>5, <2>6 DEF ShapeInv
<1>8. \A b \in DOMAIN selected : Deps(b)' = Deps(b)
  BY <1>2, <1>3, DepsStay DEF Mediating
<1>9. ASSUME NEW b \in DOMAIN selected, walked'[b] = walked[b], Passes(b)
      PROVE  Passes(b)'
  <2>1. SUFFICES ASSUME NEW d \in ToSet(Deps(b)), Admissible(d, walked[b])
                 PROVE  Asked(level, b, d)' \/ Asked(upcoming, b, d)' \/ Answered(b, d)'
    BY <1>6, <1>8, <1>9 DEF Passes
  <2>2. Within(b, d)' = Within(b, d)
    BY <1>6, <1>9 DEF Within
  <2>3. CASE Asked(level, b, d)
    <3>1. PICK x \in ToSet(level) : x.ga = d.ga /\ b \in x.parent /\ x.excludes \subseteq Within(b, d)
      BY <2>3 DEF Asked
    <3>2. CASE x = item
      <4>1. <<b, d.ga>> \in edges' /\ walked'[d.ga] \subseteq Within(b, d)
        BY <1>2, <1>3, <3>1, <3>2 DEF Mediating
      <4>2. QED BY <2>2, <4>1 DEF Answered
    <3>3. CASE x \in ToSet(level')
      BY <2>2, <3>1, <3>3 DEF Asked
    <3>4. QED BY <1>4, <3>2, <3>3
  <2>4. CASE Asked(upcoming, b, d)
    BY <1>2, <2>2, <2>4 DEF Asked
  <2>5. CASE Answered(b, d)
    <3>1. PICK e \in edges : e = <<b, d.ga>>
      BY <2>5 DEF Answered
    <3>2. e[2] = d.ga /\ e[2] \in DOMAIN selected
      BY <3>1 DEF KeepInv, ShapeInv, EdgesOK
    <3>3. walked'[d.ga] \subseteq walked[d.ga] /\ <<b, d.ga>> \in edges'
      BY <1>2, <1>3, <3>1, <3>2 DEF Mediating
    <3>4. QED BY <2>2, <2>5, <3>3 DEF Answered
  <2>6. QED BY <1>9, <2>1, <2>3, <2>4, <2>5 DEF Passes
<1>10. PassInv'
  <2>1. SUFFICES ASSUME NEW b \in DOMAIN selected'
                 PROVE  ToRead(admitted, b)' \/ ToRead(rewalk, b)' \/ Passes(b)'
    BY DEF PassInv
  <2>2. CASE b \in DOMAIN selected /\ walked'[b] = walked[b]
    <3>1. ToRead(admitted, b) \/ ToRead(rewalk, b) \/ Passes(b)
      BY <2>2 DEF KeepInv, PassInv
    <3>2. selected'[b].version = selected[b].version
      BY <1>3, <2>2 DEF Mediating
    <3>3. /\ ToSet(admitted) \subseteq ToSet(admitted') /\ ToSet(rewalk) \subseteq ToSet(rewalk')
      BY <1>3 DEF Mediating
    <3>4. (ToRead(admitted, b) => ToRead(admitted, b)') /\ (ToRead(rewalk, b) => ToRead(rewalk, b)')
      BY <2>2, <3>2, <3>3 DEF ToRead
    <3>5. QED BY <1>9, <2>2, <3>1, <3>4
  <2>3. CASE ToRead(admitted, b)' \/ ToRead(rewalk, b)'
    BY <2>3
  <2>4. QED BY <1>3, <2>2, <2>3 DEF Mediating
<1>11. AskedInv'
  <2>1. SUFFICES ASSUME NEW r \in ToSet(manifest.roots) PROVE RootAsked(r)' \/ RootWalked(r)'
    BY <1>2 DEF AskedInv
  <2>2. RootAsked(r) \/ RootWalked(r)
    BY <1>2 DEF KeepInv, AskedInv
  <2>3. CASE RootAsked(r)
    <3>1. PICK x \in ToSet(level) : x.ga = r.ga
                                    /\ x.excludes \subseteq r.excludes \cup ManagedExcludes(r.ga)
      BY <2>3 DEF RootAsked
    <3>2. CASE x = item
      BY <1>3, <1>6, <3>1, <3>2 DEF RootWalked, Mediating
    <3>3. CASE x \in ToSet(level')
      BY <1>6, <3>1, <3>3 DEF RootAsked
    <3>4. QED BY <1>4, <3>2, <3>3
  <2>4. CASE RootWalked(r)
    BY <1>3, <1>6, <2>4 DEF RootWalked, Mediating
  <2>5. QED BY <2>2, <2>3, <2>4
<1>12. QED BY <1>5, <1>7, <1>10, <1>11 DEF KeepInv

LEMMA ChildrenAreASequence ==
  ASSUME PomsOK, NEW parent, <<parent.ga, parent.version>> \in DOMAIN pom
  PROVE  Sequence(Children(parent))
<1>1. PICK deps : deps = pom[<<parent.ga, parent.version>>].dependencies
  OBVIOUS
<1>2. PICK size \in Nat : Len(deps) = size
  BY <1>1 DEF PomsOK
<1>3. QED BY <1>1, <1>2, ChildrenAreRequests DEF Sequence

\* A POM that is read asks for all it depends on.
LEMMA ReadingAsks ==
  ASSUME KeepInv, NEW parent, parent.ga \in DOMAIN selected,
         parent.version = selected[parent.ga].version, parent.excludes = walked[parent.ga],
         <<parent.ga, parent.version>> \in DOMAIN pom,
         NEW d \in ToSet(Deps(parent.ga)), Admissible(d, walked[parent.ga])
  PROVE  \E x \in ToSet(Children(parent)) :
           x.ga = d.ga /\ parent.ga \in x.parent /\ x.excludes \subseteq Within(parent.ga, d)
<1>1. PICK deps : deps = pom[<<parent.ga, parent.version>>].dependencies /\ deps = Deps(parent.ga)
  BY DEF Deps
<1>2. PICK size \in Nat : Len(deps) = size /\ DOMAIN deps = 1..size
  BY <1>1 DEF KeepInv, ShapeInv, PomsOK
<1>3. PICK i \in 1..size : d = deps[i]
  BY <1>1, <1>2 DEF ToSet
<1>4. Among(Request(parent, deps[i]), Children(parent))
  BY <1>1, <1>2, <1>3, ChildrenAreAll
<1>5. PICK x : x = Request(parent, d)
  OBVIOUS
<1>6. x \in ToSet(Children(parent))
  <2>1. PICK s : s = Children(parent)
    OBVIOUS
  <2>2. PICK S : s \in Seq(S)
    BY <1>1, <1>2, <2>1, ChildrenAreASequence DEF KeepInv, ShapeInv, Sequence
  <2>3. PICK j \in 1..Len(s) : s[j] = x
    BY <1>3, <1>4, <1>5, <2>1 DEF Among
  <2>4. DOMAIN s = 1..Len(s)
    BY <2>2
  <2>5. QED BY <2>1, <2>3, <2>4 DEF ToSet
<1>7. /\ x.ga = d.ga /\ x.parent = {parent.ga}
      /\ x.excludes = parent.excludes \cup d.excludes \cup ManagedExcludes(d.ga)
  BY <1>5 DEF Request
<1>8. QED BY <1>6, <1>7 DEF Within

LEMMA WalkKeeps ==
  ASSUME KeepInv, Walk
  PROVE  KeepInv'
<1>1. PICK parent : parent = Head(admitted)
  OBVIOUS
<1>2. /\ UNCHANGED <<manifest, pom>> /\ at = "fetch" /\ admitted # <<>>
  BY DEF Walk
<1>3. CASE Fail
  BY <1>2, <1>3, KeepFails DEF Fail
<1>4. CASE ~Fail
  <2>1. /\ upcoming' = upcoming \o Children(parent) /\ admitted' = Tail(admitted)
        /\ UNCHANGED <<at, level, rewalk, selected, walked, edges>>
        /\ <<parent.ga, parent.version>> \in DOMAIN pom
    BY <1>1, <1>4 DEF Walk
  <2>2. Sequence(Children(parent))
    BY <2>1, ChildrenAreASequence DEF KeepInv, ShapeInv
  <2>3. /\ Sequence(upcoming')
        /\ ToSet(upcoming') = ToSet(upcoming) \cup ToSet(Children(parent))
    BY <2>1, <2>2, ItemsOfJoined DEF KeepInv, SequencesInv
  <2>4. Sequence(admitted') /\ ToSet(admitted) = {parent} \cup ToSet(admitted')
    BY <1>1, <1>2, <2>1, ItemsOfRest DEF KeepInv, SequencesInv
  <2>5. SequencesInv'
    BY <2>1, <2>3, <2>4 DEF KeepInv, SequencesInv
  <2>6. ShapeInv'
    BY <1>2, <2>1 DEF KeepInv, ShapeInv, PomsOK, EdgesOK
  <2>7. PassInv'
    <3>1. SUFFICES ASSUME NEW b \in DOMAIN selected
                   PROVE  ToRead(admitted, b)' \/ ToRead(rewalk, b)' \/ Passes(b)'
      BY <2>1 DEF PassInv
    <3>2. ToRead(admitted, b) \/ ToRead(rewalk, b) \/ Passes(b)
      BY DEF KeepInv, PassInv
    <3>3. /\ Deps(b)' = Deps(b) /\ walked'[b] = walked[b]
          /\ \A d : Within(b, d)' = Within(b, d) /\ (Answered(b, d) => Answered(b, d)')
      <4>1. \A d : Within(b, d)' = Within(b, d)
        BY <1>2, <2>1, SayingStays DEF Within
      <4>2. QED BY <1>2, <2>1, <4>1, PassesStay
    <3>4. CASE Passes(b)
      <4>1. \A d : /\ Asked(level, b, d) => Asked(level, b, d)'
                   /\ Asked(upcoming, b, d) => Asked(upcoming, b, d)'
        BY <2>1, <2>3, <3>3 DEF Asked
      <4>2. Passes(b)'
        BY <1>2, <3>3, <3>4, <4>1, SayingStays DEF Passes
      <4>3. QED BY <4>2
    <3>5. CASE ToRead(rewalk, b)
      BY <2>1, <3>5 DEF ToRead
    <3>6. CASE ToRead(admitted, b)
      <4>1. PICK x \in ToSet(admitted) : /\ x.ga = b /\ x.version = selected[b].version
                                         /\ x.excludes = walked[b]
        BY <3>6 DEF ToRead
      <4>2. CASE x \in ToSet(admitted')
        BY <2>1, <4>1, <4>2 DEF ToRead
      <4>3. CASE x = parent
        <5>1. ASSUME NEW d \in ToSet(Deps(b)), Admissible(d, walked[b])
              PROVE  Asked(upcoming, b, d)'
          <6>1. PICK y \in ToSet(Children(parent)) :
                  y.ga = d.ga /\ b \in y.parent /\ y.excludes \subseteq Within(b, d)
            BY <2>1, <4>1, <4>3, <5>1, ReadingAsks
          <6>2. QED BY <2>3, <3>3, <6>1 DEF Asked
        <5>2. Passes(b)'
          BY <1>2, <3>3, <5>1, SayingStays DEF Passes
        <5>3. QED BY <5>2
      <4>4. QED BY <2>4, <4>1, <4>2, <4>3
    <3>7. QED BY <3>2, <3>4, <3>5, <3>6
  <2>8. AskedInv'
    BY <1>2, <2>1, PassesStay, SayingStays DEF KeepInv, AskedInv, RootAsked
  <2>9. QED BY <2>5, <2>6, <2>7, <2>8 DEF KeepInv
<1>5. QED BY <1>3, <1>4

LEMMA SettleKeeps ==
  ASSUME KeepInv, Settle
  PROVE  KeepInv'
<1>1. /\ UNCHANGED <<manifest, pom, selected, walked, edges>> /\ at = "widen" /\ at' = "resolved"
      /\ UNCHANGED <<level, upcoming, admitted, rewalk>>
  BY DEF Settle
<1>2. SequencesInv'
  BY <1>1 DEF KeepInv, SequencesInv
<1>3. ShapeInv'
  BY <1>1 DEF KeepInv, ShapeInv, PomsOK, EdgesOK
<1>4. PassInv'
  <2>1. SUFFICES ASSUME NEW b \in DOMAIN selected
                 PROVE  ToRead(admitted, b)' \/ ToRead(rewalk, b)' \/ Passes(b)'
    BY <1>1 DEF PassInv
  <2>2. ToRead(admitted, b) \/ ToRead(rewalk, b) \/ Passes(b)
    BY DEF KeepInv, PassInv
  <2>3. (ToRead(admitted, b) => ToRead(admitted, b)') /\ (ToRead(rewalk, b) => ToRead(rewalk, b)')
    BY <1>1 DEF ToRead
  <2>4. Passes(b) => Passes(b)'
    BY <1>1, PassesStay, SayingStays DEF Passes, Asked
  <2>5. QED BY <2>2, <2>3, <2>4
<1>5. AskedInv'
  BY <1>1, PassesStay, SayingStays DEF KeepInv, AskedInv, RootAsked
<1>6. QED BY <1>2, <1>3, <1>4, <1>5 DEF KeepInv

\* Widening moves nothing but classpaths.
LEMMA WidenKeeps ==
  ASSUME KeepInv, NEW e \in edges, Widen(e)
  PROVE  KeepInv'
<1>1. /\ UNCHANGED <<manifest, pom, walked, edges>> /\ UNCHANGED <<at, level, upcoming, admitted, rewalk>>
      /\ selected' = [selected EXCEPT ![e[2]].classpath = Widened(e)]
      /\ at = "widen"
  BY DEF Widen
<1>2. PICK c : c = Widened(e)
  OBVIOUS
<1>3. DOMAIN selected' = DOMAIN selected
      /\ \A b \in DOMAIN selected : /\ selected'[b].version = selected[b].version
                                    /\ "version" \in DOMAIN selected'[b]
  <2>1. selected' = [selected EXCEPT ![e[2]] = [selected[e[2]] EXCEPT !.classpath = c]]
    BY <1>1, <1>2
  <2>2. DOMAIN selected' = DOMAIN selected
    BY <1>1
  <2>3. ASSUME NEW b \in DOMAIN selected
        PROVE  selected'[b].version = selected[b].version /\ "version" \in DOMAIN selected'[b]
    <3>1. "version" \in DOMAIN selected[b]
      BY DEF KeepInv, ShapeInv
    <3>2. PICK before : before = selected[b]
      OBVIOUS
    <3>3. CASE b = e[2]
      <4>1. selected'[b] = [before EXCEPT !.classpath = c]
        BY <2>1, <3>2, <3>3
      <4>2. QED BY <3>1, <3>2, <4>1
    <3>4. CASE b # e[2]
      BY <2>1, <3>1, <3>4
    <3>5. QED BY <3>3, <3>4
  <2>4. QED BY <2>2, <2>3
<1>4. SequencesInv'
  BY <1>1 DEF KeepInv, SequencesInv
<1>5. ShapeInv'
  BY <1>1, <1>3 DEF KeepInv, ShapeInv, PomsOK, EdgesOK
<1>6. \A a : ManagedExcludes(a)' = ManagedExcludes(a)
  BY <1>1, SayingStays
<1>7. PassInv'
  <2>1. SUFFICES ASSUME NEW b \in DOMAIN selected
                 PROVE  ToRead(admitted, b)' \/ ToRead(rewalk, b)' \/ Passes(b)'
    BY <1>3 DEF PassInv
  <2>2. ToRead(admitted, b) \/ ToRead(rewalk, b) \/ Passes(b)
    BY DEF KeepInv, PassInv
  <2>3. (ToRead(admitted, b) => ToRead(admitted, b)') /\ (ToRead(rewalk, b) => ToRead(rewalk, b)')
    BY <1>1, <1>3 DEF ToRead
  <2>4. Deps(b)' = Deps(b)
    BY <1>1, <1>3, DepsStay
  <2>5. \A d : Within(b, d)' = Within(b, d)
    BY <1>1, <1>6 DEF Within
  <2>6. \A d : /\ Asked(level, b, d) => Asked(level, b, d)'
               /\ Asked(upcoming, b, d) => Asked(upcoming, b, d)'
               /\ Answered(b, d) => Answered(b, d)'
    BY <1>1, <2>5 DEF Asked, Answered
  <2>7. Passes(b) => Passes(b)'
    BY <1>1, <2>4, <2>6, SayingStays DEF Passes
  <2>8. QED BY <2>2, <2>3, <2>7
<1>8. AskedInv'
  BY <1>1, <1>3, <1>6 DEF KeepInv, AskedInv, RootAsked, RootWalked
<1>9. QED BY <1>4, <1>5, <1>7, <1>8 DEF KeepInv

LEMMA KeepStep ==
  ASSUME KeepInv, LandInv, [ResolveNext]_resolveVars
  PROVE  KeepInv'
<1>1. CASE UNCHANGED resolveVars
  BY <1>1, KeepStutters
<1>2. CASE ResolveNext
  BY <1>2, KeepStarts, MediateKeeps, ReadPomsKeeps, WalkKeeps, NextLevelKeeps, WidenKeeps, SettleKeeps
     DEF ResolveNext
<1>3. QED BY <1>1, <1>2

-----------------------------------------------------------------------------
(* What a member is left with.                                             *)

\* What a declaration reaches past its own exclusions, it reaches in the graph.
LEMMA KeptIsReached ==
  ASSUME KeepInv, LandInv, at = "resolved",
         NEW r, r.ga \in Artifacts, r.excludes \subseteq Patterns,
         NEW d \in ToSet(manifest.roots), d.ga = r.ga, d.excludes \subseteq r.excludes
  PROVE  Kept(r) \subseteq ReachedFrom(r)
<1>1. /\ level = <<>> /\ admitted = <<>> /\ rewalk = <<>> /\ upcoming = <<>>
      /\ PomsOK /\ EdgesOK /\ BomsOK
  BY DEF KeepInv, ShapeInv, BomsOK
<1>2. /\ \A s : ~RootAsked(s)
      /\ \A b : ~ToRead(admitted, b) /\ ~ToRead(rewalk, b)
      /\ \A b, e : ~Asked(level, b, e) /\ ~Asked(upcoming, b, e)
  BY <1>1, NoItems DEF RootAsked, ToRead, Asked
<1>3. RootWalked(d) /\ PassInv
  BY <1>2 DEF KeepInv, AskedInv
<1>4. DOMAIN selected \subseteq Artifacts
  BY DEF LandInv, SelectedInv
<1>5. PICK X \in SUBSET Artifacts :
        /\ X = ReachedFrom(r) /\ {r.ga} \cap DOMAIN selected \subseteq X
        /\ \A e \in edges : e[1] \in X /\ ~Excluded(e[2], r.excludes) => e[2] \in X
  BY <1>1, <1>4, ReachedIsClosed
<1>6. PICK C : C = {p \in Artifacts \X SUBSET Patterns :
                      /\ p[1] \in X /\ p[1] \in DOMAIN selected
                      /\ walked[p[1]] \subseteq p[2] /\ r.excludes \subseteq p[2]}
  OBVIOUS
<1>7. DepsOK
  BY <1>1, DepsAreOK
<1>8. <<r.ga, r.excludes \cup ManagedExcludes(r.ga)>> \in C
  <2>1. PICK p : p = <<r.ga, r.excludes \cup ManagedExcludes(r.ga)>>
    OBVIOUS
  <2>2. p \in Artifacts \X SUBSET Patterns /\ p[1] = r.ga
        /\ p[2] = r.excludes \cup ManagedExcludes(r.ga)
    BY <1>7, <2>1 DEF DepsOK
  <2>3. r.ga \in DOMAIN selected /\ walked[r.ga] \subseteq p[2]
    BY <1>3, <2>2 DEF RootWalked
  <2>4. QED BY <1>5, <1>6, <2>1, <2>2, <2>3
<1>9. ASSUME NEW p \in C, NEW q \in AskedFor(p) PROVE q \in C
  <2>1. PICK b, Y : b = p[1] /\ Y = p[2]
    OBVIOUS
  <2>2. /\ b \in X /\ b \in DOMAIN selected /\ b \in Artifacts /\ Y \subseteq Patterns
        /\ walked[b] \subseteq Y /\ r.excludes \subseteq Y
    BY <1>6, <2>1
  <2>3. PICK e \in ToSet(Deps(b)) : /\ Admissible(e, Y)
                                    /\ q = <<e.ga, Y \cup e.excludes \cup ManagedExcludes(e.ga)>>
    BY <1>9, <2>1 DEF AskedFor
  <2>4. \A a, S, T : S \subseteq T /\ Excluded(a, S) => Excluded(a, T)
    BY DEF Excluded
  <2>5. Admissible(e, walked[b]) /\ ~Excluded(e.ga, r.excludes)
    BY <2>2, <2>3, <2>4 DEF Admissible
  <2>6. Answered(b, e)
    BY <1>2, <1>3, <2>2, <2>3, <2>5 DEF PassInv, Passes
  <2>7. PICK i \in edges : i = <<b, e.ga>>
    BY <2>6 DEF Answered
  <2>8. i[1] = b /\ i[2] = e.ga /\ e.ga \in DOMAIN selected
    BY <1>1, <2>7 DEF EdgesOK
  <2>9. e.ga \in X
    BY <1>5, <2>2, <2>5, <2>7, <2>8
  <2>10. walked[e.ga] \subseteq Y \cup e.excludes \cup ManagedExcludes(e.ga)
    BY <2>2, <2>6 DEF Answered, Within
  <2>11. e.excludes \subseteq Patterns /\ ManagedExcludes(e.ga) \subseteq Patterns /\ e.ga \in Artifacts
    BY <1>7, <2>2, <2>3 DEF DepsOK
  <2>12. /\ q \in Artifacts \X SUBSET Patterns /\ q[1] = e.ga
         /\ q[2] = Y \cup e.excludes \cup ManagedExcludes(e.ga)
    BY <2>2, <2>3, <2>11
  <2>13. QED BY <1>6, <2>2, <2>8, <2>9, <2>10, <2>12
<1>10. C \in SUBSET (Artifacts \X SUBSET Patterns)
  BY <1>6
<1>11. \A a \in Kept(r) : \E p \in C : p[1] = a
  BY <1>7, <1>8, <1>9, <1>10, KeptIsLeast
<1>12. QED BY <1>5, <1>6, <1>11

\* Where a member's share starts, some member declares it so.
LEMMA ShareRootsAreDeclared ==
  ASSUME Workable, NEW m \in Members, NEW r \in ShareRoots(m)
  PROVE  /\ r.classpath \in Classpath
         /\ \E u \in Members : \E d \in ToSet(workspace.declared[u]) :
              r.ga = d.ga /\ r.excludes = d.excludes
<1>1. PICK up : up = UpstreamOf(m) /\ up \in Reached
  BY UpstreamIsTyped
<1>2. DOMAIN up \subseteq Members /\ \A u \in DOMAIN up : up[u] \in Classpath
  BY <1>1 DEF Reached
<1>3. \/ \E d \in ToSet(workspace.declared[m]) :
           r = [ga |-> d.ga, excludes |-> d.excludes, classpath |-> d.classpath]
      \/ \E u \in DOMAIN up : \E d \in ToSet(workspace.declared[u]) :
           /\ Carried(up[u], d.classpath) # "none"
           /\ r = [ga |-> d.ga, excludes |-> d.excludes,
                   classpath |-> Carried(up[u], d.classpath)]
  BY <1>1 DEF ShareRoots
<1>4. WorkspaceOK(workspace)
  BY WorkableIsTyped
<1>5. CASE \E d \in ToSet(workspace.declared[m]) :
             r = [ga |-> d.ga, excludes |-> d.excludes, classpath |-> d.classpath]
  <2>1. PICK d \in ToSet(workspace.declared[m]) :
          r = [ga |-> d.ga, excludes |-> d.excludes, classpath |-> d.classpath]
    BY <1>5
  <2>2. d \in Root
    BY <1>4, AggregateCovers
  <2>3. QED BY <2>1, <2>2 DEF Root
<1>6. CASE \E u \in DOMAIN up : \E d \in ToSet(workspace.declared[u]) :
             /\ Carried(up[u], d.classpath) # "none"
             /\ r = [ga |-> d.ga, excludes |-> d.excludes,
                     classpath |-> Carried(up[u], d.classpath)]
  <2>1. PICK u \in DOMAIN up : \E d \in ToSet(workspace.declared[u]) :
             /\ Carried(up[u], d.classpath) # "none"
             /\ r = [ga |-> d.ga, excludes |-> d.excludes,
                     classpath |-> Carried(up[u], d.classpath)]
    BY <1>6
  <2>2. PICK d \in ToSet(workspace.declared[u]) :
             /\ Carried(up[u], d.classpath) # "none"
             /\ r = [ga |-> d.ga, excludes |-> d.excludes,
                     classpath |-> Carried(up[u], d.classpath)]
    BY <2>1
  <2>3. Carried(up[u], d.classpath) \in Classpath
    BY <1>2, <2>1, <2>2 DEF Carried, Classpath
  <2>4. QED BY <1>2, <2>1, <2>2, <2>3
<1>7. QED BY <1>3, <1>5, <1>6

LEMMA ShareRootsAreRoots ==
  ASSUME Workable, ~workspace.alone, NEW m \in Members, NEW r \in ShareRoots(m)
  PROVE  /\ r.ga \in Artifacts /\ r.excludes \subseteq Patterns /\ r.classpath \in Classpath
         /\ \E d \in ToSet(manifest.roots) : d.ga = r.ga /\ d.excludes \subseteq r.excludes
<1>1. PICK u \in Members : \E d \in ToSet(workspace.declared[u]) :
        r.ga = d.ga /\ r.excludes = d.excludes
  BY ShareRootsAreDeclared
<1>2. PICK d \in ToSet(workspace.declared[u]) : r.ga = d.ga /\ r.excludes = d.excludes
  BY <1>1
<1>3. PICK w : w = workspace /\ WorkspaceOK(w)
  BY WorkableIsTyped
<1>4. d \in Root /\ Holds(Aggregate(w).roots, d)
  BY <1>2, <1>3, AggregateCovers
<1>5. manifest.roots = Aggregate(w).roots
  BY <1>3 DEF Workable, Resolved
<1>6. PICK s : s = Aggregate(w).roots /\ s \in Seq(Root)
  BY <1>3, AggregateIsTyped
<1>7. PICK i \in 1..Len(s) : s[i].ga = d.ga /\ s[i].excludes \subseteq d.excludes
  BY <1>4, <1>6 DEF Holds
<1>8. s[i] \in ToSet(s)
  BY <1>6 DEF ToSet
<1>9. QED BY <1>2, <1>4, <1>5, <1>6, <1>7, <1>8, ShareRootsAreDeclared DEF Root

LEMMA NothingIsLost ==
  ASSUME KeepInv, LandInv, Workable, at = "resolved", ~workspace.alone,
         NEW m \in Members, NEW r \in ShareRoots(m), NEW a \in Kept(r)
  PROVE  a \in DOMAIN Share(m) /\ Join(Share(m)[a], r.classpath) = Share(m)[a]
<1>1. /\ r.ga \in Artifacts /\ r.excludes \subseteq Patterns /\ r.classpath \in Classpath
      /\ \E d \in ToSet(manifest.roots) : d.ga = r.ga /\ d.excludes \subseteq r.excludes
  BY ShareRootsAreRoots
<1>2. a \in ReachedFrom(r)
  BY <1>1, KeptIsReached
<1>3. PICK roots : roots = ShareRoots(m)
  OBVIOUS
<1>4. PICK S : S = {i.classpath : i \in {i \in roots : a \in ReachedFrom(i)}}
  OBVIOUS
<1>5. S \in SUBSET Classpath /\ r.classpath \in S
  BY <1>2, <1>3, <1>4, ShareRootsAreDeclared
<1>6. a \in DOMAIN Share(m) /\ Share(m)[a] = FoldSet(Join, "test", S)
  BY <1>2, <1>3, <1>4 DEF Share
<1>7. PICK c : c = r.classpath
  OBVIOUS
<1>8. c \in S /\ Join(FoldSet(Join, "test", S), c) = FoldSet(Join, "test", S)
  BY <1>5, <1>7, JoinedIsJoined
<1>9. QED BY <1>6, <1>7, <1>8

LEMMA KeepInit ==
  ASSUME Workable, ~workspace.alone, ResolveInit
  PROVE  KeepInv
<1>1. PICK w : w = workspace /\ WorkspaceOK(w)
  BY WorkableIsTyped
<1>2. /\ manifest.everyPath /\ manifest.roots = Aggregate(w).roots /\ manifest.boms = w.boms
  BY <1>1 DEF Workable, Resolved, Aggregate
<1>3. PomsOK
  <2>1. PICK repo : repo = w.repo
    OBVIOUS
  <2>2. RepositoryOK(repo) /\ pom = Effective(repo)
    BY <1>1, <2>1, ResolverAssumption DEF WorkspaceOK, Workable
  <2>3. QED BY <2>2, EffectivePomsAreTyped
<1>4. Sequence(manifest.roots)
  BY <1>1, <1>2, AggregateIsTyped DEF Sequence
<1>5. DOMAIN selected = {} /\ DOMAIN walked = {} /\ EdgesOK
  BY DEF ResolveInit, EdgesOK
<1>6. at = "seed" /\ level = <<>> /\ admitted = <<>> /\ rewalk = <<>> /\ upcoming = <<>>
  BY DEF ResolveInit
<1>7. SequencesInv
  BY <1>6, NoItems DEF SequencesInv
<1>8. ShapeInv
  BY <1>1, <1>2, <1>3, <1>4, <1>5, <1>6 DEF ShapeInv, WorkspaceOK
<1>9. PassInv /\ AskedInv
  BY <1>5, <1>6 DEF PassInv, AskedInv
<1>10. QED BY <1>7, <1>8, <1>9 DEF KeepInv

LEMMA InitLands == Init => Workable /\ LandInv
<1>1. SUFFICES ASSUME Init PROVE Workable /\ LandInv
  OBVIOUS
<1>2. PICK w : w = workspace /\ WorkspaceOK(w)
  BY <1>1, WorkspacesAssumption DEF Init
<1>3. manifest = Resolved(w) /\ pom = Effective(w.repo) /\ ResolveInit
  BY <1>1, <1>2 DEF Init
<1>4. RootsOK
  BY <1>2, <1>3, ResolvedIsTyped, TypedRootsAreOK
<1>5. PICK repo : repo = w.repo
  OBVIOUS
<1>6. RepositoryOK(repo) /\ pom = Effective(repo)
  BY <1>2, <1>3, <1>5, ResolverAssumption DEF WorkspaceOK
<1>7. PomInv
  BY <1>6, EffectivePomsAreOK
<1>8. LandInv
  BY <1>3, <1>4, <1>7, LandStarts
<1>9. QED BY <1>1, <1>8 DEF Init, Workable

LEMMA NextResolves ==
  ASSUME [Next]_workspaceVars
  PROVE  [ResolveNext]_resolveVars /\ UNCHANGED <<workspace, modules>>
<1>1. CASE Order
  BY <1>1 DEF Order, OrderNext, VisitRoot, VisitModule, Leave, NoCycle, Take, resolveVars
<1>2. CASE Resolve
  BY <1>2 DEF Resolve, orderVars
<1>3. CASE Over \/ UNCHANGED workspaceVars
  BY <1>3 DEF Over, workspaceVars, orderVars
<1>4. QED BY <1>1, <1>2, <1>3 DEF Next

LEMMA WorkableStays ==
  ASSUME Workable, [Next]_workspaceVars
  PROVE  Workable'
<1>1. UNCHANGED <<workspace, modules>> /\ [ResolveNext]_resolveVars
  BY NextResolves
<1>2. UNCHANGED <<manifest, pom>>
  BY <1>1 DEF ResolveNext, Start, Mediate, ReadPoms, Walk, NextLevel, Widen, Settle, resolveVars
<1>3. PICK w : w = workspace
  OBVIOUS
<1>4. workspace' = w /\ w \in Workspaces /\ modules' = w.modules /\ pom' = Effective(w.repo)
      /\ manifest' = Resolved(w)
  BY <1>1, <1>2, <1>3 DEF Workable
<1>5. QED BY <1>4 DEF Workable

-----------------------------------------------------------------------------
\* Nearest wins.

AtMost(p, q) == p = q \/ Before(p, q)

LEMMA BeforeGoesOn ==
  ASSUME NEW p \in Seq(Nat), NEW q \in Seq(Nat), NEW r \in Seq(Nat), Before(p, q), Before(q, r)
  PROVE  Before(p, r)
<1>1. PICK l \in Nat, m \in Nat, n \in Nat : l = Len(p) /\ m = Len(q) /\ n = Len(r)
  OBVIOUS
<1>2. DOMAIN p = 1..l /\ DOMAIN q = 1..m /\ DOMAIN r = 1..n
  BY <1>1
<1>3. /\ \A i \in 1..l : p[i] \in Nat
      /\ \A i \in 1..m : q[i] \in Nat
      /\ \A i \in 1..n : r[i] \in Nat
  BY <1>1, <1>2
<1>4. CASE l < n
  BY <1>1, <1>4 DEF Before
<1>5. CASE ~(l < n)
  <2>1. l = m /\ m = n
    BY <1>1, <1>5 DEF Before
  <2>2. PICK i \in 1..l : p[i] < q[i] /\ \A h \in 1..(i - 1) : p[h] = q[h]
    BY <1>1, <1>2, <2>1 DEF Before
  <2>3. PICK j \in 1..m : q[j] < r[j] /\ \A h \in 1..(j - 1) : q[h] = r[h]
    <3>1. \E k \in DOMAIN q : q[k] < r[k] /\ \A h \in 1..(k - 1) : q[h] = r[h]
      <4>1. ~(Len(q) < Len(r))
        BY <1>1, <2>1
      <4>2. QED BY <4>1 DEF Before
    <3>2. QED BY <1>2, <3>1
  <2>4. PICK k \in 1..l : k <= i /\ k <= j /\ (k = i \/ k = j)
    <3>1. i \in 1..l /\ j \in 1..l
      BY <2>1
    <3>2. CASE i <= j
      <4>1. i <= i
        BY <3>1
      <4>2. WITNESS i \in 1..l
      <4>3. QED BY <3>2, <4>1
    <3>3. CASE j <= i
      <4>1. j <= j /\ j \in 1..l
        BY <3>1
      <4>2. WITNESS j \in 1..l
      <4>3. QED BY <3>3, <4>1
    <3>4. QED BY <3>1, <3>2, <3>3
  <2>5. \A h \in 1..(k - 1) : h \in 1..(i - 1) /\ h \in 1..(j - 1)
    BY <2>4
  <2>6. \A h \in 1..(k - 1) : p[h] = r[h]
    BY <2>2, <2>3, <2>5
  <2>7. p[k] < r[k]
    <3>1. k # i => k \in 1..(i - 1)
      BY <2>4
    <3>2. k # j => k \in 1..(j - 1)
      BY <2>4
    <3>3. p[k] \in Nat /\ q[k] \in Nat /\ r[k] \in Nat
      BY <1>3, <2>1
    <3>4. CASE k = i /\ k = j
      BY <2>2, <2>3, <3>3, <3>4
    <3>5. CASE k # i
      <4>1. p[k] = q[k] /\ k = j
        BY <2>2, <2>4, <3>1, <3>5
      <4>2. QED BY <2>3, <4>1
    <3>6. CASE k # j
      <4>1. q[k] = r[k] /\ k = i
        BY <2>3, <2>4, <3>2, <3>6
      <4>2. QED BY <2>2, <4>1
    <3>7. QED BY <3>4, <3>5, <3>6
  <2>8. QED BY <1>1, <1>2, <2>1, <2>6, <2>7 DEF Before
<1>6. QED BY <1>4, <1>5

LEMMA NotBeforeItself ==
  ASSUME NEW p \in Seq(Nat)
  PROVE  ~Before(p, p)
<1>1. PICK n \in Nat : n = Len(p) /\ DOMAIN p = 1..n
  OBVIOUS
<1>2. \A i \in 1..n : p[i] \in Nat
  BY <1>1
<1>3. \A i \in 1..n : ~(p[i] < p[i])
  BY <1>2
<1>4. ~(n < n)
  OBVIOUS
<1>5. QED BY <1>1, <1>3, <1>4 DEF Before

\* Not after is not before the other way round.
LEMMA AtMostIsNotAfter ==
  ASSUME NEW p \in Seq(Nat), NEW q \in Seq(Nat), AtMost(p, q)
  PROVE  ~Before(q, p)
BY BeforeGoesOn, NotBeforeItself DEF AtMost

LEMMA AtMostGoesOn ==
  ASSUME NEW p \in Seq(Nat), NEW q \in Seq(Nat), NEW r \in Seq(Nat), AtMost(p, q), AtMost(q, r)
  PROVE  AtMost(p, r)
BY BeforeGoesOn DEF AtMost

\* One step more.
LEMMA OneStepMore ==
  ASSUME NEW p \in Seq(Nat), NEW i \in Nat
  PROVE  /\ Append(p, i) \in Seq(Nat) /\ Len(Append(p, i)) = Len(p) + 1
         /\ DOMAIN Append(p, i) = 1..(Len(p) + 1)
         /\ Append(p, i)[Len(p) + 1] = i
         /\ \A k \in 1..Len(p) : Append(p, i)[k] = p[k]
OBVIOUS

LEMMA StaysBefore ==
  ASSUME NEW p \in Seq(Nat), NEW q \in Seq(Nat), Before(p, q), NEW i \in Nat, NEW j \in Nat
  PROVE  Before(Append(p, i), Append(q, j))
<1>1. PICK m \in Nat, n \in Nat : m = Len(p) /\ n = Len(q) /\ DOMAIN p = 1..m
  OBVIOUS
<1>2. PICK r, s : r = Append(p, i) /\ s = Append(q, j)
  OBVIOUS
<1>3. /\ Len(r) = m + 1 /\ Len(s) = n + 1 /\ DOMAIN r = 1..(m + 1)
      /\ (\A k \in 1..m : r[k] = p[k]) /\ (\A k \in 1..n : s[k] = q[k])
  BY <1>1, <1>2, OneStepMore
<1>4. CASE m < n
  BY <1>2, <1>3, <1>4 DEF Before
<1>5. CASE ~(m < n)
  <2>1. m = n
    BY <1>1, <1>5 DEF Before
  <2>2. PICK k \in 1..m : p[k] < q[k] /\ \A h \in 1..(k - 1) : p[h] = q[h]
    BY <1>1, <2>1 DEF Before
  <2>3. k \in 1..(m + 1) /\ \A h \in 1..(k - 1) : h \in 1..m
    OBVIOUS
  <2>4. r[k] < s[k] /\ \A h \in 1..(k - 1) : r[h] = s[h]
    BY <1>3, <2>1, <2>2, <2>3
  <2>5. QED BY <1>2, <1>3, <2>1, <2>3, <2>4 DEF Before
<1>6. QED BY <1>4, <1>5

LEMMA EarlierIsBefore ==
  ASSUME NEW p \in Seq(Nat), NEW i \in Nat, NEW j \in Nat, i < j
  PROVE  Before(Append(p, i), Append(p, j))
<1>1. PICK m \in Nat : m = Len(p)
  OBVIOUS
<1>2. PICK r, s : r = Append(p, i) /\ s = Append(p, j)
  OBVIOUS
<1>3. /\ Len(r) = m + 1 /\ Len(s) = m + 1 /\ DOMAIN r = 1..(m + 1)
      /\ r[m + 1] = i /\ s[m + 1] = j
      /\ (\A k \in 1..m : r[k] = p[k]) /\ (\A k \in 1..m : s[k] = p[k])
  BY <1>1, <1>2, OneStepMore
<1>4. m + 1 \in 1..(m + 1) /\ \A h \in 1..((m + 1) - 1) : h \in 1..m
  OBVIOUS
<1>5. r[m + 1] < s[m + 1] /\ \A h \in 1..((m + 1) - 1) : r[h] = s[h]
  BY <1>3, <1>4
<1>6. QED BY <1>2, <1>3, <1>4, <1>5 DEF Before

LEMMA AtMostOneMore ==
  ASSUME NEW p \in Seq(Nat), NEW q \in Seq(Nat), AtMost(p, q), NEW i \in Nat
  PROVE  AtMost(Append(p, i), Append(q, i))
BY StaysBefore DEF AtMost

\* What goes of the first n, in order, and which they are.
Picks(idx, s, asks, goes, n) ==
  /\ Sequence(s) /\ idx \in Seq(Nat) /\ Len(s) = Len(idx)
  /\ \A k \in 1..Len(idx) : idx[k] \in 1..n /\ idx[k] \in goes /\ s[k] = asks[idx[k]]
  /\ \A j, k \in 1..Len(idx) : j < k => idx[j] < idx[k]
  /\ \A i \in 1..n : i \in goes => \E k \in 1..Len(idx) : idx[k] = i

LEMMA NonePicked ==
  ASSUME NEW asks, NEW goes
  PROVE  Picks(<<>>, <<>>, asks, goes, 0)
<1>1. <<>> \in Seq(Nat) /\ Len(<<>>) = 0
  OBVIOUS
<1>2. QED BY <1>1, NoItems DEF Picks

LEMMA OnePassed ==
  ASSUME NEW asks, NEW goes, NEW n \in Nat, n + 1 \notin goes, NEW idx, NEW s, Picks(idx, s, asks, goes, n)
  PROVE  Picks(idx, s, asks, goes, n + 1)
<1>1. \A i \in 1..(n + 1) : i \in 1..n \/ i = n + 1
  OBVIOUS
<1>2. \A i \in 1..n : i \in 1..(n + 1)
  OBVIOUS
<1>3. QED BY <1>1, <1>2 DEF Picks

LEMMA OnePicked ==
  ASSUME NEW asks, NEW goes, NEW n \in Nat, n + 1 \in goes, NEW idx, NEW s, Picks(idx, s, asks, goes, n)
  PROVE  Picks(Append(idx, n + 1), Append(s, asks[n + 1]), asks, goes, n + 1)
<1>1. PICK l \in Nat : l = Len(idx)
  BY DEF Picks
<1>15. PICK All : s \in Seq(All)
  BY DEF Picks, Sequence
<1>16.
    /\ idx \in Seq(Nat) /\ Len(s) = l /\ Len(idx) = l
    /\ \A k \in 1..l : idx[k] \in 1..n /\ idx[k] \in goes /\ s[k] = asks[idx[k]]
    /\ \A j, k \in 1..l : j < k => idx[j] < idx[k]
    /\ \A i \in 1..n : i \in goes => \E k \in 1..l : idx[k] = i
  BY <1>1 DEF Picks
<1>2. PICK m, x : m = n + 1 /\ x = asks[n + 1]
  OBVIOUS
<1>3. PICK t, u : t = Append(idx, m) /\ u = Append(s, x)
  OBVIOUS
<1>4. /\ t \in Seq(Nat) /\ Len(t) = l + 1 /\ t[l + 1] = m
      /\ \A k \in 1..l : t[k] = idx[k]
  BY <1>1, <1>16, <1>2, <1>3
<1>5. u \in Seq(All \cup {x}) /\ Len(u) = l + 1 /\ u[l + 1] = x /\ \A k \in 1..l : u[k] = s[k]
  <2>1. s \in Seq(All \cup {x})
    BY <1>15
  <2>2. QED BY <1>1, <1>16, <1>3, <2>1
<1>6. \A i \in 1..(n + 1) : i \in 1..n \/ i = m
  BY <1>2
<1>7. \A k \in 1..(l + 1) : k \in 1..l \/ k = l + 1
  OBVIOUS
<1>8. (\A i \in 1..n : i \in 1..(n + 1) /\ i < m) /\ m \in 1..(n + 1)
  BY <1>2
<1>9. \A k \in 1..l : k \in 1..(l + 1) /\ k < l + 1 /\ ~(l + 1 < k)
  OBVIOUS
<1>10. \A k \in 1..(l + 1) : t[k] \in 1..(n + 1) /\ t[k] \in goes /\ u[k] = asks[t[k]]
  BY <1>1, <1>16, <1>2, <1>4, <1>5, <1>7, <1>8
<1>11. ASSUME NEW j \in 1..(l + 1), NEW k \in 1..(l + 1), j < k PROVE t[j] < t[k]
  <2>1. j \in 1..l
    BY <1>11
  <2>2. CASE k \in 1..l
    BY <1>1, <1>16, <1>4, <1>11, <2>1, <2>2
  <2>3. CASE k = l + 1
    BY <1>16, <1>4, <1>8, <2>1, <2>3
  <2>4. QED BY <1>7, <2>2, <2>3
<1>12. ASSUME NEW i \in 1..(n + 1), i \in goes PROVE \E k \in 1..(l + 1) : t[k] = i
  <2>1. CASE i \in 1..n
    <3>1. PICK k \in 1..l : idx[k] = i
      BY <1>16, <1>12, <2>1
    <3>2. QED BY <1>4, <1>9, <3>1
  <2>2. CASE i = m
    <3>1. l + 1 \in 1..(l + 1)
      OBVIOUS
    <3>2. QED BY <1>4, <2>2, <3>1
  <2>3. QED BY <1>6, <2>1, <2>2
<1>13. Picks(t, u, asks, goes, n + 1)
  <2>1. Sequence(u)
    BY <1>5 DEF Sequence
  <2>2. QED BY <1>4, <1>5, <1>10, <1>11, <1>12, <2>1 DEF Picks
<1>14. QED BY <1>2, <1>3, <1>13

LEMMA ThosePicked ==
  ASSUME NEW asks, NEW goes, NEW size \in Nat, NEW f, Filters(f, asks, goes, size)
  PROVE  \E idx : Picks(idx, f[size], asks, goes, size)
<1> DEFINE S == {n \in Nat : n <= size => \E idx : Picks(idx, f[n], asks, goes, n)}
<1>1. 0 \in S
  <2>1. f[0] = <<>>
    BY DEF Filters
  <2>2. QED BY <2>1, NonePicked
<1>2. ASSUME NEW n \in S PROVE n + 1 \in S
  <2>1. n \in Nat /\ n + 1 \in Nat /\ (n + 1) - 1 = n
    OBVIOUS
  <2>2. ASSUME n + 1 <= size PROVE \E idx : Picks(idx, f[n + 1], asks, goes, n + 1)
    <3>1. n + 1 \in 1..size /\ n <= size
      BY <2>1, <2>2
    <3>2. PICK idx : Picks(idx, f[n], asks, goes, n)
      BY <3>1
    <3>3. /\ n + 1 \in goes => f[n + 1] = Append(f[n], asks[n + 1])
          /\ n + 1 \notin goes => f[n + 1] = f[n]
      BY <2>1, <3>1 DEF Filters
    <3>4. CASE n + 1 \in goes
      BY <2>1, <3>2, <3>3, <3>4, OnePicked
    <3>5. CASE n + 1 \notin goes
      BY <2>1, <3>2, <3>3, <3>5, OnePassed
    <3>6. QED BY <3>4, <3>5
  <2>3. QED BY <2>1, <2>2
<1>3. S = Nat
  BY <1>1, <1>2, Induct
<1>4. size \in S
  BY <1>3
<1>5. QED BY <1>4

\* The requests of a POM, in the order it declares what they are for.
Ordered(idx, s, parent, deps, size) ==
  /\ Sequence(s) /\ idx \in Seq(Nat) /\ Len(s) = Len(idx)
  /\ \A k \in 1..Len(idx) : /\ idx[k] \in 1..size /\ Admissible(deps[idx[k]], parent.excludes)
                            /\ s[k] = Request(parent, deps[idx[k]])
  /\ \A j, k \in 1..Len(idx) : j < k => idx[j] < idx[k]
  /\ \A i \in 1..size : Admissible(deps[i], parent.excludes) => \E k \in 1..Len(idx) : idx[k] = i

LEMMA ChildrenInOrder ==
  ASSUME NEW parent, NEW deps, deps = pom[<<parent.ga, parent.version>>].dependencies,
         NEW size \in Nat, Len(deps) = size
  PROVE  \E idx : Ordered(idx, Children(parent), parent, deps, size)
<1>1. PICK asks, goes, f : /\ Asking(asks, goes, parent, deps, size)
                           /\ Filters(f, asks, goes, size) /\ Children(parent) = f[size]
  BY ChildrenAreFiltered
<1>2. PICK idx : Picks(idx, f[size], asks, goes, size)
  BY <1>1, ThosePicked
<1>3. PICK s : s = f[size] /\ Picks(idx, s, asks, goes, size)
  BY <1>2
<1>4. \A i \in 1..size : asks[i] = Request(parent, deps[i])
                         /\ (i \in goes <=> Admissible(deps[i], parent.excludes))
  BY <1>1 DEF Asking
<1>5. Ordered(idx, s, parent, deps, size)
  BY <1>3, <1>4 DEF Picks, Ordered
<1>6. QED BY <1>1, <1>3, <1>5

Trails == Seq(Nat) \ {<<>>}

\* A declaration of the manifest asks for a at v, or the POM of a package does
\* that is settled: p is the path to it.
Origin(path, a, v, p) ==
  \/ \E i \in DOMAIN manifest.roots : /\ p = <<i>> /\ a = manifest.roots[i].ga
                                      /\ v = RootVersion(manifest.roots[i])
  \/ \E b \in DOMAIN selected : \E i \in DOMAIN Deps(b) :
       /\ Admissible(Deps(b)[i], walked[b]) /\ p = Append(path[b], i)
       /\ a = Deps(b)[i].ga /\ v = AskedVersion(Deps(b)[i])

\* Requests s come along the paths t, each n steps long, in their order.
Along(path, s, t, n) ==
  /\ Sequence(s) /\ t \in Seq(Trails) /\ Len(t) = Len(s)
  /\ \A k \in 1..Len(t) : /\ Len(t[k]) = n /\ s[k].depth = n
                          /\ Origin(path, s[k].ga, s[k].version, t[k])
  /\ \A j, k \in 1..Len(t) : j < k => Before(t[j], t[k])

\* What is asked for along p waits, or is settled along a path no later.
Pending(s, t, a, p) == \E k \in 1..Len(t) : s[k].ga = a /\ t[k] = p
NoLater(path, a, p) == a \in DOMAIN selected /\ AtMost(path[a], p)

PathsInv(path) ==
  /\ path \in [DOMAIN selected -> Trails] /\ DOMAIN walked = DOMAIN selected
  /\ \A a \in DOMAIN selected :
       /\ {"version", "depth"} \subseteq DOMAIN selected[a]
       /\ selected[a].depth = Len(path[a]) /\ Len(path[a]) <= depth
       /\ Origin(path, a, selected[a].version, path[a])

\* This level's requests come after everything settled.
LevelInv(path, lt, ut) ==
  /\ Along(path, level, lt, depth) /\ Along(path, upcoming, ut, depth + 1)
  /\ \A a \in DOMAIN selected : \A k \in 1..Len(lt) : Before(path[a], lt[k])

\* The POMs still to be read are this level's, in the order of their paths:
\* what they will ask for comes after what is asked for already.
ToReadInv(path, ut) ==
  /\ Sequence(admitted)
  /\ \A j \in 1..Len(admitted) :
       /\ admitted[j].ga \in DOMAIN selected
       /\ admitted[j].version = selected[admitted[j].ga].version
       /\ admitted[j].excludes = walked[admitted[j].ga]
       /\ Len(path[admitted[j].ga]) = depth
  /\ \A j, k \in 1..Len(admitted) :
       j < k => Before(path[admitted[j].ga], path[admitted[k].ga])
  /\ \A j \in 1..Len(admitted) : \A k \in 1..Len(ut) : \A i \in Nat :
       Before(ut[k], Append(path[admitted[j].ga], i))

Unread(b) == \E j \in 1..Len(admitted) : admitted[j].ga = b
ReadInv(path, lt, ut) ==
  \A b \in DOMAIN selected : \A i \in DOMAIN Deps(b) :
    ~Unread(b) /\ Admissible(Deps(b)[i], walked[b]) =>
      \/ Pending(level, lt, Deps(b)[i].ga, Append(path[b], i))
      \/ Pending(upcoming, ut, Deps(b)[i].ga, Append(path[b], i))
      \/ NoLater(path, Deps(b)[i].ga, Append(path[b], i))
FirstInv(path, lt) ==
  at \in {"mediate", "fetch", "widen", "resolved"} =>
    \A i \in DOMAIN manifest.roots :
      \/ Pending(level, lt, manifest.roots[i].ga, <<i>>)
      \/ NoLater(path, manifest.roots[i].ga, <<i>>)

OnceInv ==
  /\ ~manifest.everyPath /\ Sequence(manifest.roots) /\ PomsOK
  /\ rewalk = <<>> /\ depth \in Nat
  /\ at = "seed" => DOMAIN selected = {} /\ depth = 1
  /\ at \in {"fetch", "widen", "resolved"} => level = <<>>
  /\ at \in {"seed", "mediate", "widen", "resolved"} => upcoming = <<>>
  /\ at \in {"seed", "widen", "resolved"} => admitted = <<>>

Nearest(path, lt, ut) == /\ PathsInv(path) /\ LevelInv(path, lt, ut) /\ ToReadInv(path, ut)
                         /\ ReadInv(path, lt, ut) /\ FirstInv(path, lt)
NearestInv == OnceInv /\ \E path, lt, ut : Nearest(path, lt, ut)

LEMMA VersionsStay ==
  ASSUME UNCHANGED <<manifest, pom>>
  PROVE  /\ \A d : AskedVersion(d)' = AskedVersion(d)
         /\ \A r : RootVersion(r)' = RootVersion(r)
         /\ \A d, X : Admissible(d, X)' <=> Admissible(d, X)
<1>1. \A b, a : Naming(b, a)' <=> Naming(b, a)
  BY DEF Naming
<1>2. \A a : (IsManaged(a)' <=> IsManaged(a)) /\ FirstBom(a)' = FirstBom(a)
  BY <1>1 DEF IsManaged, FirstBom
<1>3. \A a : ManagedVersion(a)' = ManagedVersion(a)
  BY <1>2 DEF ManagedVersion
<1>4. QED BY <1>2, <1>3, SayingStays DEF AskedVersion, RootVersion

\* What was settled stays as it was.
Keeps(path, new) ==
  /\ UNCHANGED <<manifest, pom>> /\ DOMAIN selected \subseteq DOMAIN selected'
  /\ \A b \in DOMAIN selected : /\ selected'[b].version = selected[b].version
                                /\ walked'[b] = walked[b] /\ new[b] = path[b]

LEMMA OriginStays ==
  ASSUME NEW path, NEW new, Keeps(path, new), NEW a, NEW v, NEW p, Origin(path, a, v, p)
  PROVE  Origin(new, a, v, p)'
<1>1. CASE \E i \in DOMAIN manifest.roots : /\ p = <<i>> /\ a = manifest.roots[i].ga
                                            /\ v = RootVersion(manifest.roots[i])
  BY <1>1, VersionsStay DEF Origin, Keeps
<1>2. CASE \E b \in DOMAIN selected : \E i \in DOMAIN Deps(b) :
       /\ Admissible(Deps(b)[i], walked[b]) /\ p = Append(path[b], i)
       /\ a = Deps(b)[i].ga /\ v = AskedVersion(Deps(b)[i])
  <2>1. PICK b \in DOMAIN selected : \E i \in DOMAIN Deps(b) :
       /\ Admissible(Deps(b)[i], walked[b]) /\ p = Append(path[b], i)
       /\ a = Deps(b)[i].ga /\ v = AskedVersion(Deps(b)[i])
    BY <1>2
  <2>2. /\ b \in DOMAIN selected' /\ walked'[b] = walked[b] /\ new[b] = path[b]
        /\ Deps(b)' = Deps(b)
    BY <2>1, DepsStay DEF Keeps
  <2>3. UNCHANGED <<manifest, pom>>
    BY DEF Keeps
  <2>4. \E i \in DOMAIN Deps(b)' :
       /\ Admissible(Deps(b)[i], walked[b])' /\ p = Append(new[b], i)
       /\ a = (Deps(b)[i].ga)' /\ v = AskedVersion(Deps(b)[i])'
    BY <2>1, <2>2, <2>3, VersionsStay
  <2>5. QED BY <2>2, <2>4 DEF Origin
<1>3. QED BY <1>1, <1>2 DEF Origin

\* So do requests that wait.
LEMMA AlongStays ==
  ASSUME NEW path, NEW new, Keeps(path, new), NEW s, NEW t, NEW n, Along(path, s, t, n)
  PROVE  Along(new, s, t, n)'
<1>1. \A a, v, p : Origin(path, a, v, p) => Origin(new, a, v, p)'
  BY OriginStays
<1>2. QED BY <1>1 DEF Along

LEMMA NothingAlong ==
  ASSUME NEW path, NEW n
  PROVE  Along(path, <<>>, <<>>, n)
<1>1. <<>> \in Seq(Trails) /\ Len(<<>>) = 0
  OBVIOUS
<1>2. QED BY <1>1, NoItems DEF Along

\* Nothing settled, asked for or read.
LEMMA NearestStays ==
  ASSUME UNCHANGED <<manifest, pom, selected, walked>>, UNCHANGED <<depth, level, upcoming, admitted>>,
         NEW path, NEW lt, NEW ut, Nearest(path, lt, ut),
         \/ at' = "failed" \/ at' = at
         \/ {at, at'} \subseteq {"mediate", "fetch", "widen", "resolved"}
  PROVE  Nearest(path, lt, ut)'
<1>1. Keeps(path, path)
  BY DEF Keeps
<1>2. /\ \A a, v, p : Origin(path, a, v, p) => Origin(path, a, v, p)'
      /\ \A s, t, n : Along(path, s, t, n) => Along(path, s, t, n)'
  BY <1>1, OriginStays, AlongStays
<1>3. PathsInv(path)'
  BY <1>2 DEF Nearest, PathsInv
<1>4. LevelInv(path, lt, ut)'
  <2>1. PICK s, u, n : s = level /\ u = upcoming /\ n = depth
    OBVIOUS
  <2>2. Along(path, s, lt, n)' /\ Along(path, u, ut, n + 1)'
    BY <1>2, <2>1 DEF Nearest, LevelInv
  <2>3. QED BY <2>1, <2>2 DEF Nearest, LevelInv
<1>5. ToReadInv(path, ut)'
  BY DEF Nearest, ToReadInv
<1>6. ReadInv(path, lt, ut)'
  <2>1. SUFFICES ASSUME NEW b \in DOMAIN selected, NEW i \in DOMAIN Deps(b),
                        ~Unread(b), Admissible(Deps(b)[i], walked[b])
                 PROVE  (\/ Pending(level, lt, Deps(b)[i].ga, Append(path[b], i))
                         \/ Pending(upcoming, ut, Deps(b)[i].ga, Append(path[b], i))
                         \/ NoLater(path, Deps(b)[i].ga, Append(path[b], i)))'
    BY VersionsStay DEF ReadInv, Unread, Deps
  <2>2. \/ Pending(level, lt, Deps(b)[i].ga, Append(path[b], i))
        \/ Pending(upcoming, ut, Deps(b)[i].ga, Append(path[b], i))
        \/ NoLater(path, Deps(b)[i].ga, Append(path[b], i))
    BY <2>1 DEF Nearest, ReadInv
  <2>3. Deps(b)' = Deps(b)
    BY DEF Deps
  <2>4. QED BY <2>2, <2>3 DEF Pending, NoLater
<1>7. FirstInv(path, lt)'
  BY DEF Nearest, FirstInv, Pending, NoLater
<1>8. QED BY <1>3, <1>4, <1>5, <1>6, <1>7 DEF Nearest

LEMMA OnceStays ==
  ASSUME OnceInv, UNCHANGED <<manifest, pom>>
  PROVE  ~manifest'.everyPath /\ Sequence(manifest'.roots) /\ PomsOK'
BY DEF OnceInv, PomsOK

LEMMA NearestStutters ==
  ASSUME NearestInv, UNCHANGED resolveVars
  PROVE  NearestInv'
<1>1. UNCHANGED <<manifest, pom, selected, walked>> /\ UNCHANGED <<depth, level, upcoming, admitted>>
      /\ UNCHANGED <<at, rewalk>>
  BY DEF resolveVars
<1>2. OnceInv'
  BY <1>1, OnceStays DEF NearestInv, OnceInv
<1>3. QED BY <1>1, <1>2, NearestStays DEF NearestInv

LEMMA NearestFails ==
  ASSUME NearestInv, UNCHANGED <<manifest, pom>>, Fail
  PROVE  NearestInv'
<1>1. UNCHANGED <<manifest, pom, selected, walked>> /\ UNCHANGED <<depth, level, upcoming, admitted>>
      /\ at' = "failed" /\ UNCHANGED rewalk
  BY DEF Fail
<1>2. OnceInv'
  BY <1>1, OnceStays DEF NearestInv, OnceInv
<1>3. QED BY <1>1, <1>2, NearestStays DEF NearestInv

LEMMA NearestReadsPoms ==
  ASSUME NearestInv, ReadPoms
  PROVE  NearestInv'
<1>1. /\ UNCHANGED <<manifest, pom, selected, walked>> /\ UNCHANGED <<depth, level, upcoming>>
      /\ at = "mediate" /\ at' = "fetch" /\ level = <<>>
      /\ admitted' = admitted \o rewalk /\ rewalk' = <<>>
  BY DEF ReadPoms
<1>2. PICK path, lt, ut : Nearest(path, lt, ut)
  BY DEF NearestInv
<1>3. admitted' = admitted
  <2>1. PICK S : admitted \in Seq(S)
    BY <1>2 DEF Nearest, ToReadInv, Sequence
  <2>2. rewalk = <<>>
    BY DEF NearestInv, OnceInv
  <2>3. QED BY <1>1, <2>1, <2>2
<1>4. OnceInv'
  BY <1>1, OnceStays DEF NearestInv, OnceInv
<1>5. QED BY <1>1, <1>2, <1>3, <1>4, NearestStays DEF NearestInv

LEMMA NearestSettles ==
  ASSUME NearestInv, Settle
  PROVE  NearestInv'
<1>1. /\ UNCHANGED <<manifest, pom, selected, walked>> /\ UNCHANGED <<depth, level, upcoming, admitted>>
      /\ UNCHANGED rewalk /\ at = "widen" /\ at' = "resolved"
  BY DEF Settle
<1>2. OnceInv'
  BY <1>1, OnceStays DEF NearestInv, OnceInv
<1>3. QED BY <1>1, <1>2, NearestStays DEF NearestInv

\* The first requests are the manifest's.
LEMMA NearestStarts ==
  ASSUME NearestInv, Start
  PROVE  NearestInv'
<1>1. UNCHANGED <<manifest, pom>> /\ at = "seed"
  BY DEF Start
<1>2. CASE Fail
  BY <1>1, <1>2, NearestFails
<1>3. CASE ~Fail
  <2>1. /\ at' = "mediate" /\ level' = Seed
        /\ UNCHANGED <<depth, upcoming, admitted, rewalk, selected, walked>>
    BY <1>3 DEF Start
  <2>2. /\ DOMAIN selected = {} /\ depth = 1 /\ upcoming = <<>> /\ admitted = <<>> /\ rewalk = <<>>
        /\ Sequence(manifest.roots)
    BY <1>1 DEF NearestInv, OnceInv
  <2>3. PICK path, ot, ut : Nearest(path, ot, ut)
    BY DEF NearestInv
  <2>4. PICK n \in Nat : DOMAIN manifest.roots = 1..n /\ Len(manifest.roots) = n
    BY <2>2 DEF Sequence
  <2>5. PICK lt : lt = [i \in 1..n |-> <<i>>]
    OBVIOUS
  <2>6. PICK s : s = Seed
    OBVIOUS
  <2>7. s = [i \in 1..n |-> s[i]]
        /\ \A i \in 1..n : /\ s[i].ga = manifest.roots[i].ga /\ s[i].depth = 1
                           /\ s[i].version = RootVersion(manifest.roots[i])
    BY <2>4, <2>6 DEF Seed
  <2>8. Sequence(s) /\ Len(s) = n
    <3>1. s \in Seq({s[i] : i \in 1..n})
      BY <2>7
    <3>2. QED BY <2>7, <3>1 DEF Sequence
  <2>9. /\ lt \in Seq(Trails) /\ Len(lt) = n
        /\ \A i \in 1..n : lt[i] = <<i>> /\ Len(lt[i]) = 1 /\ DOMAIN lt[i] = {1} /\ lt[i][1] = i
    <3>1. \A i \in 1..n : <<i>> \in Trails
      <4>1. ASSUME NEW i \in Nat PROVE <<i>> \in Trails
        <5>1. PICK p : p = <<i>>
          OBVIOUS
        <5>2. p \in Seq(Nat) /\ Len(p) = 1
          BY <5>1
        <5>3. p # <<>>
          BY <5>2
        <5>4. QED BY <5>1, <5>2, <5>3 DEF Trails
      <4>2. \A i \in 1..n : i \in Nat
        OBVIOUS
      <4>3. QED BY <4>1, <4>2
    <3>2. QED BY <2>5, <3>1
  <2>10. \A j, k \in 1..n : j < k => Before(lt[j], lt[k])
    BY <2>9 DEF Before
  <2>11. \A i \in 1..n : Origin(path, s[i].ga, s[i].version, lt[i])'
    BY <1>1, <2>4, <2>7, <2>9, VersionsStay DEF Origin
  <2>12. Along(path, s, lt, 1)'
    BY <2>7, <2>8, <2>9, <2>10, <2>11 DEF Along
  <2>13. Keeps(path, path)
    BY <1>1, <2>1 DEF Keeps
  <2>14. LevelInv(path, lt, ut)'
    <3>1. PICK u : u = upcoming
      OBVIOUS
    <3>2. Along(path, u, ut, 1 + 1)
      BY <2>2, <2>3, <3>1 DEF Nearest, LevelInv
    <3>3. Along(path, u, ut, 1 + 1)'
      BY <2>13, <3>2, AlongStays
    <3>4. QED BY <2>1, <2>2, <2>6, <2>12, <3>1, <3>3 DEF LevelInv
  <2>15. PathsInv(path)'
    BY <2>1, <2>2, <2>3 DEF Nearest, PathsInv
  <2>16. ToReadInv(path, ut)'
    BY <2>1, <2>3 DEF Nearest, ToReadInv
  <2>17. ReadInv(path, lt, ut)'
    BY <2>1, <2>2 DEF ReadInv
  <2>18. FirstInv(path, lt)'
    BY <1>1, <2>1, <2>4, <2>6, <2>7, <2>9 DEF FirstInv, Pending
  <2>19. OnceInv'
    BY <1>1, <2>1, <2>2, OnceStays DEF NearestInv, OnceInv
  <2>20. QED BY <2>14, <2>15, <2>16, <2>17, <2>18, <2>19 DEF NearestInv, Nearest
<1>4. QED BY <1>2, <1>3

\* Widening moves nothing but classpaths.
LEMMA NearestWidens ==
  ASSUME NearestInv, NEW e \in edges, Widen(e)
  PROVE  NearestInv'
<1>1. /\ UNCHANGED <<manifest, pom, walked>> /\ UNCHANGED <<depth, level, upcoming, admitted, rewalk, at>>
      /\ selected' = [selected EXCEPT ![e[2]].classpath = Widened(e)]
      /\ at = "widen"
  BY DEF Widen
<1>2. PICK c : c = Widened(e)
  OBVIOUS
<1>3. PICK path, lt, ut : Nearest(path, lt, ut)
  BY DEF NearestInv
<1>4. DOMAIN selected' = DOMAIN selected
      /\ \A b \in DOMAIN selected : /\ selected'[b].version = selected[b].version
                                    /\ selected'[b].depth = selected[b].depth
                                    /\ {"version", "depth"} \subseteq DOMAIN selected'[b]
  <2>1. selected' = [selected EXCEPT ![e[2]] = [selected[e[2]] EXCEPT !.classpath = c]]
    BY <1>1, <1>2
  <2>2. DOMAIN selected' = DOMAIN selected
    BY <1>1
  <2>3. ASSUME NEW b \in DOMAIN selected
        PROVE  /\ selected'[b].version = selected[b].version /\ selected'[b].depth = selected[b].depth
               /\ {"version", "depth"} \subseteq DOMAIN selected'[b]
    <3>1. {"version", "depth"} \subseteq DOMAIN selected[b]
      BY <1>3 DEF Nearest, PathsInv
    <3>2. PICK before : before = selected[b]
      OBVIOUS
    <3>3. CASE b = e[2]
      <4>1. selected'[b] = [before EXCEPT !.classpath = c]
        BY <2>1, <3>2, <3>3
      <4>2. QED BY <3>1, <3>2, <4>1
    <3>4. CASE b # e[2]
      BY <2>1, <3>1, <3>4
    <3>5. QED BY <3>3, <3>4
  <2>4. QED BY <2>2, <2>3
<1>5. Keeps(path, path)
  BY <1>1, <1>4 DEF Keeps
<1>6. PathsInv(path)'
  BY <1>1, <1>3, <1>4, <1>5, OriginStays DEF Nearest, PathsInv
<1>7. LevelInv(path, lt, ut)'
  <2>1. PICK s, u, n : s = level /\ u = upcoming /\ n = depth
    OBVIOUS
  <2>2. Along(path, s, lt, n)' /\ Along(path, u, ut, n + 1)'
    BY <1>3, <1>5, <2>1, AlongStays DEF Nearest, LevelInv
  <2>3. QED BY <1>1, <1>3, <1>4, <2>1, <2>2 DEF Nearest, LevelInv
<1>8. ToReadInv(path, ut)'
  BY <1>1, <1>3, <1>4 DEF Nearest, ToReadInv
<1>9. ReadInv(path, lt, ut)'
  <2>1. \A b \in DOMAIN selected : Deps(b)' = Deps(b)
    BY <1>1, <1>4, DepsStay
  <2>2. SUFFICES ASSUME NEW b \in DOMAIN selected, NEW i \in DOMAIN Deps(b),
                        ~Unread(b), Admissible(Deps(b)[i], walked[b])
                 PROVE  (\/ Pending(level, lt, Deps(b)[i].ga, Append(path[b], i))
                         \/ Pending(upcoming, ut, Deps(b)[i].ga, Append(path[b], i))
                         \/ NoLater(path, Deps(b)[i].ga, Append(path[b], i)))'
    BY <1>1, <1>4, <2>1, VersionsStay DEF ReadInv, Unread
  <2>3. \/ Pending(level, lt, Deps(b)[i].ga, Append(path[b], i))
        \/ Pending(upcoming, ut, Deps(b)[i].ga, Append(path[b], i))
        \/ NoLater(path, Deps(b)[i].ga, Append(path[b], i))
    BY <1>3, <2>2 DEF Nearest, ReadInv
  <2>4. QED BY <1>1, <1>4, <2>1, <2>3 DEF Pending, NoLater
<1>10. FirstInv(path, lt)'
  BY <1>1, <1>3, <1>4 DEF Nearest, FirstInv, Pending, NoLater
<1>11. OnceInv'
  BY <1>1, OnceStays DEF NearestInv, OnceInv
<1>12. QED BY <1>6, <1>7, <1>8, <1>9, <1>10, <1>11 DEF NearestInv, Nearest

\* The first of the requests that wait, and the rest.
LEMMA TailAlong ==
  ASSUME NEW path, NEW s, NEW t, NEW n, Along(path, s, t, n), s # <<>>
  PROVE  /\ Along(path, Tail(s), Tail(t), n)
         /\ 1 \in 1..Len(t) /\ Head(s) = s[1]
         /\ \A k \in 1..Len(Tail(t)) : k + 1 \in 1..Len(t) /\ Tail(t)[k] = t[k + 1]
         /\ \A a, p : Pending(s, t, a, p) => \/ s[1].ga = a /\ t[1] = p
                                             \/ Pending(Tail(s), Tail(t), a, p)
<1>1. PICK S : s \in Seq(S)
  BY DEF Along, Sequence
<1>2. PICK l \in Nat : l = Len(t) /\ l = Len(s) /\ t \in Seq(Trails)
  BY <1>1 DEF Along
<1>3. l # 0
  BY <1>1, <1>2
<1>4. PICK m \in Nat : m + 1 = l
  <2>1. l - 1 \in Nat /\ (l - 1) + 1 = l
    BY <1>3
  <2>2. QED BY <2>1
<1>5. PICK u, v : u = Tail(s) /\ v = Tail(t)
  OBVIOUS
<1>6. u \in Seq(S) /\ Len(u) = m /\ Head(s) = s[1] /\ \A k \in 1..m : u[k] = s[k + 1]
  BY <1>1, <1>2, <1>4, <1>5
<1>7. v \in Seq(Trails) /\ Len(v) = m /\ \A k \in 1..m : v[k] = t[k + 1]
  <2>0. t = <<>> => Len(t) = 0
    OBVIOUS
  <2>1. t # <<>>
    BY <1>2, <1>3, <2>0
  <2>2. PICK T : T = Trails
    OBVIOUS
  <2>3. t \in Seq(T) /\ Len(t) = m + 1
    BY <1>2, <1>4, <2>2
  <2>4. v \in Seq(T) /\ Len(v) = m /\ \A k \in 1..m : v[k] = t[k + 1]
    BY <1>5, <2>1, <2>3
  <2>5. QED BY <2>2, <2>4
<1>8. 1 \in 1..l /\ \A k \in 1..m : k + 1 \in 1..l
  BY <1>4
<1>9. \A k \in 1..l : /\ Len(t[k]) = n /\ s[k].depth = n
                      /\ Origin(path, s[k].ga, s[k].version, t[k])
  BY <1>2 DEF Along
<1>10. \A j, k \in 1..l : j < k => Before(t[j], t[k])
  BY <1>2 DEF Along
<1>11. Along(path, u, v, n)
  <2>1. Sequence(u)
    BY <1>6 DEF Sequence
  <2>2. \A k \in 1..m : /\ Len(v[k]) = n /\ u[k].depth = n
                        /\ Origin(path, u[k].ga, u[k].version, v[k])
    BY <1>6, <1>7, <1>8, <1>9
  <2>3. \A j, k \in 1..m : j < k => Before(v[j], v[k])
    <3>1. SUFFICES ASSUME NEW j \in 1..m, NEW k \in 1..m, j < k PROVE Before(v[j], v[k])
      OBVIOUS
    <3>2. j + 1 < k + 1
      BY <3>1
    <3>3. QED BY <1>7, <1>8, <1>10, <3>2
  <2>4. QED BY <1>6, <1>7, <2>1, <2>2, <2>3 DEF Along
<1>12. ASSUME NEW a, NEW p, Pending(s, t, a, p)
       PROVE  (s[1].ga = a /\ t[1] = p) \/ Pending(u, v, a, p)
  <2>1. PICK k \in 1..l : s[k].ga = a /\ t[k] = p
    BY <1>2, <1>12 DEF Pending
  <2>2. CASE k = 1
    BY <2>1, <2>2
  <2>3. CASE k # 1
    <3>1. PICK j \in 1..m : j + 1 = k
      <4>1. k - 1 \in 1..m /\ (k - 1) + 1 = k
        BY <1>4, <2>3
      <4>2. QED BY <4>1
    <3>2. u[j].ga = a /\ v[j] = p
      BY <1>6, <1>7, <2>1, <3>1
    <3>3. QED BY <1>7, <3>2 DEF Pending
  <2>4. QED BY <2>2, <2>3
<1>13. QED BY <1>2, <1>5, <1>6, <1>7, <1>8, <1>11, <1>12

LEMMA NoLaterStays ==
  ASSUME NEW path, NEW new, Keeps(path, new), NEW a, NEW p, NoLater(path, a, p)
  PROVE  NoLater(new, a, p)'
BY DEF Keeps, NoLater

\* A request is mediated: what it asks for is settled, along its path or one
\* no later, and a package settled by it is still to be read.
Mediated(path, new, lt) ==
  /\ Keeps(path, new)
  /\ DOMAIN selected' = DOMAIN selected \cup {level[1].ga}
  /\ AtMost(new[level[1].ga], lt[1])
  /\ \A b \in DOMAIN selected' : \/ b \in DOMAIN selected
                                 \/ Unread(b)' /\ new[b] = lt[1]
  /\ \A b : Unread(b) => Unread(b)'

LEMMA OneMediated ==
  ASSUME NEW path, NEW lt, NEW ut, NEW new, Nearest(path, lt, ut),
         at = "mediate", level # <<>>, level' = Tail(level), UNCHANGED <<at, depth, upcoming>>,
         Mediated(path, new, lt), PathsInv(new)', ToReadInv(new, ut)'
  PROVE  Nearest(new, Tail(lt), ut)'
<1>1. Keeps(path, new)
  BY DEF Mediated
<1>2. PICK s, u, n : s = level /\ u = upcoming /\ n = depth
  OBVIOUS
<1>3. Along(path, s, lt, n) /\ Along(path, u, ut, n + 1) /\ s # <<>>
  BY <1>2 DEF Nearest, LevelInv
<1>4. PICK r, t : r = Tail(s) /\ t = Tail(lt)
  OBVIOUS
<1>5. /\ Along(path, r, t, n)
      /\ 1 \in 1..Len(lt)
      /\ \A k \in 1..Len(t) : k + 1 \in 1..Len(lt) /\ t[k] = lt[k + 1]
      /\ \A a, p : Pending(s, lt, a, p) => (s[1].ga = a /\ lt[1] = p) \/ Pending(r, t, a, p)
  <2>1. /\ Along(path, Tail(s), Tail(lt), n)
        /\ 1 \in 1..Len(lt)
        /\ \A k \in 1..Len(Tail(lt)) : k + 1 \in 1..Len(lt) /\ Tail(lt)[k] = lt[k + 1]
    BY <1>3, TailAlong
  <2>2. \A a, p : Pending(s, lt, a, p) => (s[1].ga = a /\ lt[1] = p) \/ Pending(Tail(s), Tail(lt), a, p)
    BY <1>3, TailAlong
  <2>3. QED BY <1>4, <2>1, <2>2
<1>6. Along(new, r, t, n)' /\ Along(new, u, ut, n + 1)'
  BY <1>1, <1>3, <1>5, AlongStays
<1>7. ASSUME NEW a \in DOMAIN selected', NEW k \in 1..Len(t) PROVE Before(new[a], t[k])
  <2>1. CASE a \in DOMAIN selected
    BY <1>5, <1>7, <2>1 DEF Nearest, LevelInv, Mediated, Keeps
  <2>2. CASE a \notin DOMAIN selected
    <3>1. new[a] = lt[1]
      BY <1>7, <2>2 DEF Mediated
    <3>2. k \in Nat /\ 1 < k + 1
      <4>1. k \in Nat /\ k >= 1
        OBVIOUS
      <4>2. QED BY <4>1
    <3>3. QED BY <1>3, <1>5, <3>1, <3>2 DEF Along
  <2>3. QED BY <2>1, <2>2
<1>8. LevelInv(new, t, ut)'
  BY <1>2, <1>4, <1>6, <1>7 DEF LevelInv
<1>9. ASSUME NEW a, NEW p, Pending(s, lt, a, p)
      PROVE  Pending(r, t, a, p) \/ NoLater(new, a, p)'
  BY <1>2, <1>5, <1>9 DEF Mediated, NoLater
<1>10. ReadInv(new, t, ut)'
  <2>1. SUFFICES ASSUME NEW b \in DOMAIN selected', NEW i \in (DOMAIN Deps(b))',
                        ~Unread(b)', Admissible(Deps(b)[i], walked[b])'
                 PROVE  (\/ Pending(level, t, Deps(b)[i].ga, Append(new[b], i))
                         \/ Pending(upcoming, ut, Deps(b)[i].ga, Append(new[b], i))
                         \/ NoLater(new, Deps(b)[i].ga, Append(new[b], i)))'
    BY DEF ReadInv
  <2>2. b \in DOMAIN selected /\ ~Unread(b)
    BY <2>1 DEF Mediated
  <2>3. Deps(b)' = Deps(b) /\ walked'[b] = walked[b] /\ new[b] = path[b]
    BY <1>1, <2>2, DepsStay DEF Keeps
  <2>4. PICK d : d = Deps(b)[i]
    OBVIOUS
  <2>5. i \in DOMAIN Deps(b) /\ Admissible(d, walked[b])
    BY <1>1, <2>1, <2>3, <2>4, VersionsStay DEF Keeps
  <2>6. PICK a, p : a = d.ga /\ p = Append(path[b], i)
    OBVIOUS
  <2>7. Pending(s, lt, a, p) \/ Pending(u, ut, a, p) \/ NoLater(path, a, p)
    BY <1>2, <2>2, <2>4, <2>5, <2>6 DEF Nearest, ReadInv
  <2>8. Pending(r, t, a, p) \/ Pending(u, ut, a, p) \/ NoLater(new, a, p)'
    BY <1>1, <1>9, <2>7, NoLaterStays
  <2>9. Pending(level, t, a, p)' \/ Pending(upcoming, ut, a, p)' \/ NoLater(new, a, p)'
    BY <1>2, <1>4, <2>8 DEF Pending
  <2>10. QED BY <2>3, <2>4, <2>6, <2>9
<1>11. FirstInv(new, t)'
  <2>1. manifest' = manifest
    BY <1>1 DEF Keeps
  <2>2. ASSUME NEW i \in DOMAIN manifest.roots
        PROVE  Pending(level, t, manifest.roots[i].ga, <<i>>)'
               \/ NoLater(new, manifest.roots[i].ga, <<i>>)'
    <3>1. PICK a, p : a = manifest.roots[i].ga /\ p = <<i>>
      OBVIOUS
    <3>2. Pending(s, lt, a, p) \/ NoLater(path, a, p)
      BY <1>2, <3>1 DEF Nearest, FirstInv
    <3>3. Pending(r, t, a, p) \/ NoLater(new, a, p)'
      BY <1>1, <1>9, <3>2, NoLaterStays
    <3>4. Pending(level, t, a, p)' \/ NoLater(new, a, p)'
      BY <1>2, <1>4, <3>3 DEF Pending
    <3>5. QED BY <2>1, <3>1, <3>4
  <2>3. QED BY <2>1, <2>2 DEF FirstInv
<1>12. Nearest(new, t, ut)'
  BY <1>8, <1>10, <1>11 DEF Nearest
<1>13. QED BY <1>4, <1>12

\* The first request of a level, where it is settled by it: its path is as
\* long as the level is deep, and comes after every path settled.
LEMMA NearestAdmits ==
  ASSUME NEW path, NEW lt, NEW ut, Nearest(path, lt, ut), OnceInv, at = "mediate",
         level # <<>>, level' = Tail(level), UNCHANGED <<manifest, pom, at, depth, upcoming>>,
         NEW item, item = level[1], item.ga \notin DOMAIN selected, Admit(item)
  PROVE  NearestInv'
<1>1. /\ PathsInv(path) /\ ToReadInv(path, ut) /\ Along(path, level, lt, depth)
      /\ \A b \in DOMAIN selected : \A k \in 1..Len(lt) : Before(path[b], lt[k])
  BY DEF Nearest, LevelInv
<1>2. 1 \in 1..Len(lt) /\ lt \in Seq(Trails)
  BY <1>1, TailAlong DEF Along
<1>3. PICK p : p = lt[1]
  OBVIOUS
<1>4. /\ p \in Trails /\ Len(p) = depth /\ item.depth = depth
      /\ Origin(path, item.ga, item.version, p)
  BY <1>1, <1>2, <1>3 DEF Along
<1>5. PICK new : new = [b \in DOMAIN selected \cup {item.ga} |-> IF b = item.ga THEN p ELSE path[b]]
  OBVIOUS
<1>6. /\ DOMAIN selected' = DOMAIN selected \cup {item.ga}
      /\ DOMAIN walked' = DOMAIN walked \cup {item.ga}
      /\ selected'[item.ga].version = item.version /\ selected'[item.ga].depth = item.depth
      /\ {"version", "depth"} \subseteq DOMAIN selected'[item.ga]
      /\ walked'[item.ga] = item.excludes
  BY DEF Admit
<1>7. \A b \in DOMAIN selected : selected'[b] = selected[b]
  BY DEF Admit
<1>8. \A b \in DOMAIN selected : walked'[b] = walked[b]
  BY <1>1 DEF Admit, PathsInv
<1>9. \A b \in DOMAIN selected : b # item.ga /\ new[b] = path[b]
  BY <1>5
<1>10. new[item.ga] = p
  BY <1>5
<1>11. Keeps(path, new)
  BY <1>6, <1>7, <1>8, <1>9 DEF Keeps
<1>12. Origin(new, item.ga, item.version, p)'
  BY <1>4, <1>11, OriginStays
<1>13. PathsInv(new)'
  <2>1. new \in [DOMAIN selected' -> Trails]
    BY <1>1, <1>4, <1>5, <1>6 DEF PathsInv
  <2>2. DOMAIN walked' = DOMAIN selected'
    BY <1>1, <1>6 DEF PathsInv
  <2>3. ASSUME NEW b \in DOMAIN selected'
        PROVE  /\ {"version", "depth"} \subseteq DOMAIN selected'[b]
               /\ selected'[b].depth = Len(new[b]) /\ Len(new[b]) <= depth'
               /\ Origin(new, b, selected[b].version, new[b])'
    <3>1. CASE b = item.ga
      <4>1. depth \in Nat /\ depth' = depth /\ depth <= depth
        BY DEF OnceInv
      <4>2. QED BY <1>4, <1>6, <1>10, <1>12, <3>1, <4>1
    <3>2. CASE b # item.ga
      <4>1. b \in DOMAIN selected
        BY <1>6, <3>2
      <4>2. /\ {"version", "depth"} \subseteq DOMAIN selected[b]
            /\ selected[b].depth = Len(path[b]) /\ Len(path[b]) <= depth
            /\ Origin(path, b, selected[b].version, path[b])
        BY <1>1, <4>1 DEF PathsInv
      <4>3. Origin(new, b, selected[b].version, path[b])'
        <5>1. PICK v, q : v = selected[b].version /\ q = path[b]
          OBVIOUS
        <5>2. Origin(new, b, v, q)'
          BY <1>11, <4>2, <5>1, OriginStays
        <5>3. selected'[b].version = v
          BY <1>7, <4>1, <5>1
        <5>4. QED BY <5>1, <5>2, <5>3
      <4>4. QED BY <1>7, <1>9, <4>1, <4>2, <4>3
    <3>3. QED BY <3>1, <3>2
  <2>4. QED BY <2>1, <2>2, <2>3 DEF PathsInv
<1>14. admitted' = Append(admitted, item)
  BY DEF Admit
<1>15. PICK S : admitted \in Seq(S)
  BY <1>1 DEF ToReadInv, Sequence
<1>16. PICK m \in Nat : m = Len(admitted)
  BY <1>15
<1>17. /\ admitted' \in Seq(S \cup {item}) /\ Len(admitted') = m + 1 /\ admitted'[m + 1] = item
       /\ \A k \in 1..m : admitted'[k] = admitted[k]
  <2>1. admitted \in Seq(S \cup {item})
    BY <1>15
  <2>2. QED BY <1>14, <1>15, <1>16, <2>1
<1>18. \A k \in 1..(m + 1) : k \in 1..m \/ k = m + 1
  OBVIOUS
<1>19. m + 1 \in 1..(m + 1) /\ \A k \in 1..m : k \in 1..(m + 1)
  OBVIOUS
<1>20. /\ \A b : Unread(b) => Unread(b)'
       /\ Unread(item.ga)'
  <2>1. Unread(item.ga)'
    BY <1>17, <1>19 DEF Unread
  <2>2. ASSUME NEW b, Unread(b) PROVE Unread(b)'
    <3>1. PICK j \in 1..m : admitted[j].ga = b
      BY <1>16, <2>2 DEF Unread
    <3>2. admitted'[j].ga = b /\ j \in 1..(m + 1)
      BY <1>17, <1>19, <3>1
    <3>3. QED BY <1>17, <3>2 DEF Unread
  <2>3. QED BY <2>1, <2>2
<1>21. upcoming = <<>> /\ Len(ut) = 0
  <2>1. upcoming = <<>>
    BY DEF OnceInv
  <2>2. Len(ut) = Len(upcoming)
    BY DEF Nearest, LevelInv, Along
  <2>3. upcoming = <<>> => Len(upcoming) = 0
    OBVIOUS
  <2>4. QED BY <2>1, <2>2, <2>3
<1>22. ToReadInv(new, ut)'
  <2>1. Sequence(admitted)'
    BY <1>17 DEF Sequence
  <2>2. /\ \A j \in 1..m : /\ admitted[j].ga \in DOMAIN selected
                           /\ admitted[j].version = selected[admitted[j].ga].version
                           /\ admitted[j].excludes = walked[admitted[j].ga]
                           /\ Len(path[admitted[j].ga]) = depth
        /\ \A j, k \in 1..m : j < k => Before(path[admitted[j].ga], path[admitted[k].ga])
    BY <1>1, <1>16 DEF ToReadInv
  <2>3. ASSUME NEW j \in 1..(m + 1)
        PROVE  /\ admitted'[j].ga \in DOMAIN selected'
               /\ admitted'[j].version = selected'[admitted'[j].ga].version
               /\ admitted'[j].excludes = walked'[admitted'[j].ga]
               /\ Len(new[admitted'[j].ga]) = depth
    <3>1. CASE j = m + 1
      BY <1>4, <1>6, <1>10, <1>17, <3>1
    <3>2. CASE j \in 1..m
      <4>1. PICK a : a = admitted[j].ga
        OBVIOUS
      <4>2. admitted'[j] = admitted[j] /\ a \in DOMAIN selected
        BY <1>17, <2>2, <3>2, <4>1
      <4>3. /\ a \in DOMAIN selected' /\ selected'[a] = selected[a]
            /\ walked'[a] = walked[a] /\ new[a] = path[a]
        BY <1>6, <1>7, <1>8, <1>9, <4>2
      <4>4. QED BY <2>2, <3>2, <4>1, <4>2, <4>3
    <3>3. QED BY <1>18, <3>1, <3>2
  <2>4. ASSUME NEW j \in 1..(m + 1), NEW k \in 1..(m + 1), j < k
        PROVE  Before(new[admitted'[j].ga], new[admitted'[k].ga])
    <3>1. j \in 1..m
      BY <2>4
    <3>2. admitted'[j] = admitted[j] /\ admitted[j].ga \in DOMAIN selected
      BY <1>17, <2>2, <3>1
    <3>3. new[admitted'[j].ga] = path[admitted[j].ga]
      BY <1>9, <3>2
    <3>4. CASE k = m + 1
      <4>1. new[admitted'[k].ga] = p
        BY <1>10, <1>17, <3>4
      <4>2. Before(path[admitted[j].ga], p)
        BY <1>1, <1>2, <1>3, <3>2
      <4>3. QED BY <3>3, <4>1, <4>2
    <3>5. CASE k \in 1..m
      <4>1. admitted'[k] = admitted[k] /\ admitted[k].ga \in DOMAIN selected
        BY <1>17, <2>2, <3>5
      <4>2. new[admitted'[k].ga] = path[admitted[k].ga]
        BY <1>9, <4>1
      <4>3. QED BY <2>2, <2>4, <3>1, <3>3, <3>5, <4>2
    <3>6. QED BY <1>18, <3>4, <3>5
  <2>5. \A k : k \notin 1..Len(ut)
    BY <1>21
  <2>6. QED BY <1>17, <2>1, <2>3, <2>4, <2>5 DEF ToReadInv
<1>23. Mediated(path, new, lt)
  <2>1. AtMost(new[level[1].ga], lt[1])
    BY <1>3, <1>10 DEF AtMost
  <2>2. ASSUME NEW b \in DOMAIN selected'
        PROVE  b \in DOMAIN selected \/ (Unread(b)' /\ new[b] = lt[1])
    <3>1. CASE b = item.ga
      BY <1>3, <1>10, <1>20, <3>1
    <3>2. CASE b # item.ga
      BY <1>6, <2>2, <3>2
    <3>3. QED BY <3>1, <3>2
  <2>3. QED BY <1>6, <1>11, <1>20, <2>1, <2>2 DEF Mediated
<1>24. Nearest(new, Tail(lt), ut)'
  BY <1>13, <1>22, <1>23, OneMediated
<1>25. OnceInv'
  <2>1. UNCHANGED rewalk
    BY DEF Admit
  <2>2. QED BY <2>1, OnceStays DEF OnceInv
<1>26. QED BY <1>24, <1>25 DEF NearestInv

\* One met again is settled along a path that came before.
LEMMA NearestMeets ==
  ASSUME NEW path, NEW lt, NEW ut, Nearest(path, lt, ut), OnceInv, at = "mediate",
         level # <<>>, level' = Tail(level), UNCHANGED <<manifest, pom, at, depth, upcoming>>,
         NEW item, item = level[1], item.ga \in DOMAIN selected, Meet(item)
  PROVE  NearestInv'
<1>1. /\ PathsInv(path) /\ ToReadInv(path, ut) /\ Along(path, level, lt, depth)
      /\ \A b \in DOMAIN selected : \A k \in 1..Len(lt) : Before(path[b], lt[k])
  BY DEF Nearest, LevelInv
<1>2. UNCHANGED <<walked, rewalk, admitted>>
  BY DEF Meet, OnceInv, WalksAgain
<1>3. PICK before : before = selected[item.ga]
  OBVIOUS
<1>4. PICK met : met = Met(before, item)
  OBVIOUS
<1>5. selected' = [selected EXCEPT ![item.ga] = met]
  BY <1>3, <1>4 DEF Meet
<1>6. DOMAIN selected' = DOMAIN selected /\ \A b \in DOMAIN selected : b # item.ga => selected'[b] = selected[b]
  BY <1>5
<1>7. selected'[item.ga] = met
  BY <1>5
<1>8. /\ {"version", "depth"} \subseteq DOMAIN met
      /\ met.version = before.version /\ met.depth = before.depth
  <2>1. {"version", "depth"} \subseteq DOMAIN before
    BY <1>1, <1>3 DEF PathsInv
  <2>2. QED BY <1>4, <2>1 DEF Met
<1>9. \A b \in DOMAIN selected : /\ selected'[b].version = selected[b].version
                                 /\ selected'[b].depth = selected[b].depth
                                 /\ {"version", "depth"} \subseteq DOMAIN selected'[b]
  BY <1>1, <1>3, <1>6, <1>7, <1>8 DEF PathsInv
<1>10. Keeps(path, path)
  BY <1>2, <1>6, <1>9 DEF Keeps
<1>11. PathsInv(path)'
  <2>1. \A a, v, p : Origin(path, a, v, p) => Origin(path, a, v, p)'
    BY <1>10, OriginStays
  <2>2. QED BY <1>1, <1>2, <1>6, <1>9, <2>1 DEF PathsInv
<1>12. ToReadInv(path, ut)'
  BY <1>1, <1>2, <1>6, <1>9 DEF ToReadInv
<1>13. Mediated(path, path, lt)
  <2>1. AtMost(path[level[1].ga], lt[1])
    <3>1. 1 \in 1..Len(lt)
      BY <1>1, TailAlong
    <3>2. QED BY <1>1, <3>1 DEF AtMost
  <2>2. \A b : Unread(b) => Unread(b)'
    BY <1>2 DEF Unread
  <2>3. QED BY <1>6, <1>10, <2>1, <2>2 DEF Mediated
<1>14. Nearest(path, Tail(lt), ut)'
  BY <1>11, <1>12, <1>13, OneMediated
<1>15. OnceInv'
  BY <1>2, OnceStays DEF OnceInv
<1>16. QED BY <1>14, <1>15 DEF NearestInv

LEMMA NearestMediates ==
  ASSUME NearestInv, Mediate
  PROVE  NearestInv'
<1>1. PICK path, lt, ut : Nearest(path, lt, ut)
  BY DEF NearestInv
<1>2. /\ at = "mediate" /\ level # <<>> /\ level' = Tail(level)
      /\ UNCHANGED <<manifest, pom, at, depth, upcoming>> /\ OnceInv
  BY DEF Mediate, NearestInv
<1>3. PICK item : item = level[1]
  OBVIOUS
<1>4. Head(level) = item
  BY <1>1, <1>2, <1>3, TailAlong DEF Nearest, LevelInv
<1>5. CASE item.ga \in DOMAIN selected
  <2>1. Meet(item)
    BY <1>4, <1>5 DEF Mediate
  <2>2. QED BY <1>1, <1>2, <1>3, <1>5, <2>1, NearestMeets
<1>6. CASE item.ga \notin DOMAIN selected
  <2>1. Admit(item)
    BY <1>4, <1>6 DEF Mediate
  <2>2. QED BY <1>1, <1>2, <1>3, <1>6, <2>1, NearestAdmits
<1>7. QED BY <1>5, <1>6

\* Requests one after the other, the later ones' paths after the others'.
LEMMA AlongJoined ==
  ASSUME NEW path, NEW n, NEW s, NEW t, Along(path, s, t, n), NEW r, NEW u, Along(path, r, u, n),
         \A j \in 1..Len(t) : \A k \in 1..Len(u) : Before(t[j], u[k])
  PROVE  /\ Along(path, s \o r, t \o u, n)
         /\ \A a, p : Pending(s, t, a, p) \/ Pending(r, u, a, p) => Pending(s \o r, t \o u, a, p)
         /\ \A k \in 1..Len(t \o u) : \/ k \in 1..Len(t) /\ (t \o u)[k] = t[k]
                                      \/ \E j \in 1..Len(u) : (t \o u)[k] = u[j]
<1>1. PICK S : s \in Seq(S) /\ r \in Seq(S)
  <2>1. PICK A : s \in Seq(A)
    BY DEF Along, Sequence
  <2>2. PICK B : r \in Seq(B)
    BY DEF Along, Sequence
  <2>3. s \in Seq(A \cup B) /\ r \in Seq(A \cup B)
    BY <2>1, <2>2
  <2>4. QED BY <2>3
<1>2. PICK T : T = Trails /\ t \in Seq(T) /\ u \in Seq(T)
  BY DEF Along
<1>3. PICK l \in Nat, m \in Nat : l = Len(t) /\ m = Len(u)
  BY <1>2
<1>4. Len(s) = l /\ Len(r) = m
  BY <1>3 DEF Along
<1>5. PICK v, w : v = s \o r /\ w = t \o u
  OBVIOUS
<1>6. v \in Seq(S) /\ Len(v) = l + m
  <2>1. v \in Seq(S)
    BY <1>1, <1>5
  <2>2. Len(v) = Len(s) + Len(r)
    BY <1>1, <1>5
  <2>3. QED BY <1>4, <2>1, <2>2
<1>7. (\A k \in 1..l : v[k] = s[k]) /\ \A k \in 1..m : v[l + k] = r[k]
  BY <1>1, <1>4, <1>5
<1>8. w \in Seq(T) /\ Len(w) = l + m
  BY <1>2, <1>3, <1>5
<1>9. (\A k \in 1..l : w[k] = t[k]) /\ \A k \in 1..m : w[l + k] = u[k]
  BY <1>2, <1>3, <1>5
<1>10. ASSUME NEW k \in 1..(l + m) PROVE k \in 1..l \/ \E j \in 1..m : k = l + j
  <2>1. k \in 1..l \/ (k - l \in 1..m /\ k = l + (k - l))
    BY <1>3
  <2>2. QED BY <2>1
<1>11. (\A k \in 1..l : k \in 1..(l + m)) /\ \A k \in 1..m : l + k \in 1..(l + m)
  BY <1>3
<1>12. /\ \A k \in 1..l : /\ Len(t[k]) = n /\ s[k].depth = n
                          /\ Origin(path, s[k].ga, s[k].version, t[k])
       /\ \A k \in 1..m : /\ Len(u[k]) = n /\ r[k].depth = n
                          /\ Origin(path, r[k].ga, r[k].version, u[k])
  BY <1>3 DEF Along
<1>13. (\A j, k \in 1..l : j < k => Before(t[j], t[k])) /\ \A j, k \in 1..m : j < k => Before(u[j], u[k])
  BY <1>3 DEF Along
<1>14. \A k \in 1..(l + m) : /\ Len(w[k]) = n /\ v[k].depth = n
                             /\ Origin(path, v[k].ga, v[k].version, w[k])
  <2>1. SUFFICES ASSUME NEW k \in 1..(l + m)
                 PROVE  /\ Len(w[k]) = n /\ v[k].depth = n
                        /\ Origin(path, v[k].ga, v[k].version, w[k])
    OBVIOUS
  <2>2. CASE k \in 1..l
    BY <1>7, <1>9, <1>12, <2>2
  <2>3. CASE \E j \in 1..m : k = l + j
    <3>1. PICK j \in 1..m : k = l + j
      BY <2>3
    <3>2. v[k] = r[j] /\ w[k] = u[j]
      BY <1>7, <1>9, <3>1
    <3>3. QED BY <1>12, <3>2
  <2>4. QED BY <1>10, <2>2, <2>3
<1>15. ASSUME NEW j \in 1..(l + m), NEW k \in 1..(l + m), j < k PROVE Before(w[j], w[k])
  <2>1. CASE j \in 1..l /\ k \in 1..l
    BY <1>9, <1>13, <1>15, <2>1
  <2>2. CASE j \in 1..l /\ k \notin 1..l
    <3>1. PICK h \in 1..m : k = l + h
      BY <1>10, <2>2
    <3>2. QED BY <1>3, <1>9, <2>2, <3>1
  <2>3. CASE j \notin 1..l
    <3>1. PICK g \in 1..m : j = l + g
      BY <1>10, <2>3
    <3>2. k \notin 1..l
      BY <1>3, <1>15, <3>1
    <3>3. PICK h \in 1..m : k = l + h
      BY <1>10, <3>2
    <3>4. g < h
      BY <1>3, <1>15, <3>1, <3>3
    <3>5. QED BY <1>9, <1>13, <3>1, <3>3, <3>4
  <2>4. QED BY <2>1, <2>2, <2>3
<1>16. Along(path, v, w, n)
  <2>1. Sequence(v)
    BY <1>6 DEF Sequence
  <2>2. QED BY <1>2, <1>6, <1>8, <1>14, <1>15, <2>1 DEF Along
<1>17. ASSUME NEW a, NEW p, Pending(s, t, a, p) \/ Pending(r, u, a, p) PROVE Pending(v, w, a, p)
  <2>1. CASE Pending(s, t, a, p)
    <3>1. PICK k \in 1..l : s[k].ga = a /\ t[k] = p
      BY <1>3, <2>1 DEF Pending
    <3>2. QED BY <1>7, <1>8, <1>9, <1>11, <3>1 DEF Pending
  <2>2. CASE Pending(r, u, a, p)
    <3>1. PICK k \in 1..m : r[k].ga = a /\ u[k] = p
      BY <1>3, <2>2 DEF Pending
    <3>2. PICK h \in 1..(l + m) : h = l + k
      BY <1>11
    <3>3. v[h].ga = a /\ w[h] = p
      BY <1>7, <1>9, <3>1, <3>2
    <3>4. QED BY <1>8, <3>3 DEF Pending
  <2>3. QED BY <1>17, <2>1, <2>2
<1>18. \A k \in 1..Len(w) : \/ k \in 1..Len(t) /\ w[k] = t[k]
                            \/ \E j \in 1..Len(u) : w[k] = u[j]
  BY <1>3, <1>8, <1>9, <1>10
<1>19. QED BY <1>5, <1>16, <1>17, <1>18

\* The requests of a POM come along the path of its package and one step more.
LEMMA ChildrenAlong ==
  ASSUME NEW path, PathsInv(path), PomsOK, depth \in Nat, NEW parent, parent.ga \in DOMAIN selected,
         parent.version = selected[parent.ga].version, parent.excludes = walked[parent.ga],
         Len(path[parent.ga]) = depth, <<parent.ga, parent.version>> \in DOMAIN pom
  PROVE  \E kt : /\ Along(path, Children(parent), kt, depth + 1)
                 /\ \A k \in 1..Len(kt) : \E i \in Nat : kt[k] = Append(path[parent.ga], i)
                 /\ \A i \in DOMAIN Deps(parent.ga) :
                      Admissible(Deps(parent.ga)[i], walked[parent.ga]) =>
                        Pending(Children(parent), kt, Deps(parent.ga)[i].ga, Append(path[parent.ga], i))
<1>1. PICK b, deps : b = parent.ga /\ deps = Deps(b)
  OBVIOUS
<1>2. deps = pom[<<parent.ga, parent.version>>].dependencies
  BY <1>1 DEF Deps
<1>3. PICK size \in Nat : Len(deps) = size /\ DOMAIN deps = 1..size
  BY <1>1, DepsAreTyped
<1>4. PICK idx : Ordered(idx, Children(parent), parent, deps, size)
  BY <1>2, <1>3, ChildrenInOrder
<1>5. PICK s : s = Children(parent)
  OBVIOUS
<1>6. PICK l \in Nat : l = Len(idx) /\ idx \in Seq(Nat) /\ Len(s) = l /\ Sequence(s)
  BY <1>4, <1>5 DEF Ordered
<1>7. /\ \A k \in 1..l : /\ idx[k] \in 1..size /\ Admissible(deps[idx[k]], walked[b])
                         /\ s[k] = Request(parent, deps[idx[k]])
      /\ \A j, k \in 1..l : j < k => idx[j] < idx[k]
      /\ \A i \in 1..size : Admissible(deps[i], walked[b]) => \E k \in 1..l : idx[k] = i
  BY <1>1, <1>4, <1>5, <1>6 DEF Ordered
<1>8. PICK q : q = path[b] /\ q \in Seq(Nat) /\ Len(q) = depth
  BY <1>1 DEF PathsInv, Trails
<1>9. PICK kt : kt = [k \in 1..l |-> Append(q, idx[k])]
  OBVIOUS
<1>10. \A i \in Nat : Append(q, i) \in Trails /\ Len(Append(q, i)) = depth + 1
  <2>1. SUFFICES ASSUME NEW i \in Nat PROVE Append(q, i) \in Trails /\ Len(Append(q, i)) = depth + 1
    OBVIOUS
  <2>2. Append(q, i) \in Seq(Nat) /\ Len(Append(q, i)) = depth + 1
    BY <1>8, OneStepMore
  <2>3. Append(q, i) # <<>>
    <3>1. PICK x : x = Append(q, i)
      OBVIOUS
    <3>2. x = <<>> => Len(x) = 0
      OBVIOUS
    <3>3. QED BY <1>8, <2>2, <3>1, <3>2
  <2>4. QED BY <2>2, <2>3 DEF Trails
<1>11. \A k \in 1..l : idx[k] \in Nat /\ kt[k] = Append(q, idx[k])
  BY <1>6, <1>9
<1>12. kt \in Seq(Trails) /\ Len(kt) = l
  <2>1. PICK T : T = Trails
    OBVIOUS
  <2>2. \A k \in 1..l : kt[k] \in T
    BY <1>10, <1>11, <2>1
  <2>3. kt \in Seq(T) /\ Len(kt) = l
    <3>1. kt = [k \in 1..l |-> kt[k]]
      BY <1>9
    <3>2. QED BY <2>2, <3>1
  <2>4. QED BY <2>1, <2>3
<1>13. \A k \in 1..l : /\ Len(kt[k]) = depth + 1 /\ s[k].depth = depth + 1
                       /\ Origin(path, s[k].ga, s[k].version, kt[k])
  <2>1. SUFFICES ASSUME NEW k \in 1..l
                 PROVE  /\ Len(kt[k]) = depth + 1 /\ s[k].depth = depth + 1
                        /\ Origin(path, s[k].ga, s[k].version, kt[k])
    OBVIOUS
  <2>2. PICK i \in 1..size : i = idx[k] /\ Admissible(deps[i], walked[b]) /\ s[k] = Request(parent, deps[i])
    BY <1>7
  <2>3. s[k].ga = deps[i].ga /\ s[k].version = AskedVersion(deps[i]) /\ s[k].depth = depth + 1
    BY <2>2 DEF Request
  <2>4. Origin(path, s[k].ga, s[k].version, kt[k])
    BY <1>1, <1>3, <1>8, <1>11, <2>2, <2>3 DEF Origin
  <2>5. QED BY <1>10, <1>11, <2>3, <2>4
<1>14. \A j, k \in 1..l : j < k => Before(kt[j], kt[k])
  <2>1. SUFFICES ASSUME NEW j \in 1..l, NEW k \in 1..l, j < k PROVE Before(kt[j], kt[k])
    OBVIOUS
  <2>2. PICK x \in Nat, y \in Nat : x = idx[j] /\ y = idx[k] /\ x < y
    BY <1>7, <1>11, <2>1
  <2>3. Before(Append(q, x), Append(q, y))
    BY <1>8, <2>2, EarlierIsBefore
  <2>4. QED BY <1>11, <2>2, <2>3
<1>15. Along(path, s, kt, depth + 1)
  BY <1>6, <1>12, <1>13, <1>14 DEF Along
<1>16. \A i \in 1..size : Admissible(deps[i], walked[b]) => Pending(s, kt, deps[i].ga, Append(q, i))
  <2>1. SUFFICES ASSUME NEW i \in 1..size, Admissible(deps[i], walked[b])
                 PROVE  Pending(s, kt, deps[i].ga, Append(q, i))
    OBVIOUS
  <2>2. PICK k \in 1..l : idx[k] = i
    BY <1>7, <2>1
  <2>3. s[k].ga = deps[i].ga /\ kt[k] = Append(q, i)
    <3>1. s[k] = Request(parent, deps[i]) /\ kt[k] = Append(q, i)
      BY <1>7, <1>11, <2>2
    <3>2. QED BY <3>1 DEF Request
  <2>4. QED BY <1>12, <2>3 DEF Pending
<1>17. \A k \in 1..Len(kt) : \E i \in Nat : kt[k] = Append(q, i)
  BY <1>11, <1>12
<1>18. QED BY <1>1, <1>3, <1>5, <1>8, <1>15, <1>16, <1>17

LEMMA NearestWalks ==
  ASSUME NearestInv, Walk
  PROVE  NearestInv'
<1>1. UNCHANGED <<manifest, pom>> /\ at = "fetch" /\ admitted # <<>>
  BY DEF Walk
<1>2. CASE Fail
  BY <1>1, <1>2, NearestFails
<1>3. CASE ~Fail
  <2>1. PICK path, lt, ut : Nearest(path, lt, ut)
    BY DEF NearestInv
  <2>2. PICK parent : parent = Head(admitted)
    OBVIOUS
  <2>3. /\ <<parent.ga, parent.version>> \in DOMAIN pom
        /\ upcoming' = upcoming \o Children(parent) /\ admitted' = Tail(admitted)
        /\ UNCHANGED <<at, depth, level, rewalk, selected, walked, edges>>
    BY <1>3, <2>2 DEF Walk
  <2>4. OnceInv /\ depth \in Nat /\ PomsOK
    BY DEF NearestInv, OnceInv
  <2>5. PICK S : admitted \in Seq(S)
    BY <2>1 DEF Nearest, ToReadInv, Sequence
  <2>6. PICK m \in Nat : m + 1 = Len(admitted)
    <3>1. PICK l \in Nat : l = Len(admitted)
      BY <2>5
    <3>2. l # 0
      BY <1>1, <2>5, <3>1
    <3>3. l - 1 \in Nat /\ (l - 1) + 1 = l
      BY <3>2
    <3>4. QED BY <3>1, <3>3
  <2>7. /\ admitted' \in Seq(S) /\ Len(admitted') = m /\ parent = admitted[1]
        /\ \A k \in 1..m : admitted'[k] = admitted[k + 1]
    BY <1>1, <2>2, <2>3, <2>5, <2>6
  <2>8. 1 \in 1..(m + 1) /\ \A k \in 1..m : k + 1 \in 1..(m + 1) /\ 1 < k + 1
    OBVIOUS
  <2>9. /\ \A j \in 1..(m + 1) : /\ admitted[j].ga \in DOMAIN selected
                                 /\ admitted[j].version = selected[admitted[j].ga].version
                                 /\ admitted[j].excludes = walked[admitted[j].ga]
                                 /\ Len(path[admitted[j].ga]) = depth
        /\ \A j, k \in 1..(m + 1) : j < k => Before(path[admitted[j].ga], path[admitted[k].ga])
        /\ \A j \in 1..(m + 1) : \A k \in 1..Len(ut) : \A i \in Nat :
             Before(ut[k], Append(path[admitted[j].ga], i))
    BY <2>1, <2>6 DEF Nearest, ToReadInv
  <2>10. /\ parent.ga \in DOMAIN selected /\ parent.version = selected[parent.ga].version
         /\ parent.excludes = walked[parent.ga] /\ Len(path[parent.ga]) = depth
    BY <2>7, <2>8, <2>9
  <2>11. PathsInv(path)
    BY <2>1 DEF Nearest
  <2>12. PICK s : s = Children(parent)
    OBVIOUS
  <2>13. PICK kt :
           /\ Along(path, s, kt, depth + 1)
           /\ \A k \in 1..Len(kt) : \E i \in Nat : kt[k] = Append(path[parent.ga], i)
           /\ \A i \in DOMAIN Deps(parent.ga) :
                Admissible(Deps(parent.ga)[i], walked[parent.ga]) =>
                  Pending(s, kt, Deps(parent.ga)[i].ga, Append(path[parent.ga], i))
    BY <2>3, <2>4, <2>10, <2>11, <2>12, ChildrenAlong
  <2>14. Along(path, upcoming, ut, depth + 1)
    BY <2>1 DEF Nearest, LevelInv
  <2>15. \A j \in 1..Len(ut) : \A k \in 1..Len(kt) : Before(ut[j], kt[k])
    BY <2>7, <2>8, <2>9, <2>13
  <2>16. PICK u, n : u = upcoming /\ n = depth + 1
    OBVIOUS
  <2>17. PICK v, w : v = u \o s /\ w = ut \o kt
    OBVIOUS
  <2>18. /\ Along(path, v, w, n)
         /\ \A a, p : Pending(u, ut, a, p) \/ Pending(s, kt, a, p) => Pending(v, w, a, p)
         /\ \A k \in 1..Len(w) : \/ k \in 1..Len(ut) /\ w[k] = ut[k]
                                 \/ \E j \in 1..Len(kt) : w[k] = kt[j]
    BY <2>13, <2>14, <2>15, <2>16, <2>17, AlongJoined
  <2>19. upcoming' = v
    BY <2>3, <2>12, <2>16, <2>17
  <2>20. Keeps(path, path)
    BY <1>1, <2>3 DEF Keeps
  <2>21. LevelInv(path, lt, w)'
    <3>1. PICK l, d : l = level /\ d = depth
      OBVIOUS
    <3>2. Along(path, l, lt, d)
      BY <2>1, <3>1 DEF Nearest, LevelInv
    <3>3. Along(path, l, lt, d)' /\ Along(path, v, w, n)'
      BY <2>18, <2>20, <3>2, AlongStays
    <3>4. \A a \in DOMAIN selected : \A k \in 1..Len(lt) : Before(path[a], lt[k])
      BY <2>1 DEF Nearest, LevelInv
    <3>5. QED BY <2>3, <2>16, <2>19, <3>1, <3>3, <3>4 DEF LevelInv
  <2>22. PathsInv(path)'
    <3>1. \A a, x, p : Origin(path, a, x, p) => Origin(path, a, x, p)'
      BY <2>20, OriginStays
    <3>2. QED BY <2>3, <2>11, <3>1 DEF PathsInv
  <2>23. ToReadInv(path, w)'
    <3>1. Sequence(admitted)'
      BY <2>7 DEF Sequence
    <3>2. \A j \in 1..m : /\ admitted'[j].ga \in DOMAIN selected'
                          /\ admitted'[j].version = selected'[admitted'[j].ga].version
                          /\ admitted'[j].excludes = walked'[admitted'[j].ga]
                          /\ Len(path[admitted'[j].ga]) = depth'
      BY <2>3, <2>7, <2>8, <2>9
    <3>3. \A j, k \in 1..m : j < k => Before(path[admitted'[j].ga], path[admitted'[k].ga])
      <4>1. SUFFICES ASSUME NEW j \in 1..m, NEW k \in 1..m, j < k
                     PROVE  Before(path[admitted'[j].ga], path[admitted'[k].ga])
        OBVIOUS
      <4>2. j + 1 < k + 1
        BY <4>1
      <4>3. QED BY <2>7, <2>8, <2>9, <4>2
    <3>4. ASSUME NEW j \in 1..m, NEW k \in 1..Len(w), NEW i \in Nat
          PROVE  Before(w[k], Append(path[admitted'[j].ga], i))
      <4>1. PICK h \in 1..(m + 1) : h = j + 1 /\ admitted'[j] = admitted[h] /\ 1 < h
        BY <2>7, <2>8
      <4>2. CASE k \in 1..Len(ut) /\ w[k] = ut[k]
        BY <2>9, <4>1, <4>2
      <4>3. CASE \E g \in 1..Len(kt) : w[k] = kt[g]
        <5>1. PICK x \in Nat : w[k] = Append(path[parent.ga], x)
          BY <2>13, <4>3
        <5>2. Before(path[parent.ga], path[admitted[h].ga])
          BY <2>7, <2>8, <2>9, <4>1
        <5>3. path[parent.ga] \in Seq(Nat) /\ path[admitted[h].ga] \in Seq(Nat)
          BY <2>9, <2>10, <2>11 DEF PathsInv, Trails
        <5>4. QED BY <4>1, <5>1, <5>2, <5>3, StaysBefore
      <4>4. QED BY <2>18, <4>2, <4>3
    <3>5. QED BY <2>7, <3>1, <3>2, <3>3, <3>4 DEF ToReadInv
  <2>24. ReadInv(path, lt, w)'
    <3>1. \A b : Deps(b)' = Deps(b)
      BY <1>1, <2>3 DEF Deps
    <3>2. SUFFICES ASSUME NEW b \in DOMAIN selected, NEW i \in DOMAIN Deps(b),
                          ~Unread(b)', Admissible(Deps(b)[i], walked[b])
                   PROVE  (\/ Pending(level, lt, Deps(b)[i].ga, Append(path[b], i))
                           \/ Pending(upcoming, w, Deps(b)[i].ga, Append(path[b], i))
                           \/ NoLater(path, Deps(b)[i].ga, Append(path[b], i)))'
      BY <1>1, <2>3, <3>1, VersionsStay DEF ReadInv
    <3>3. PICK a, p : a = Deps(b)[i].ga /\ p = Append(path[b], i)
      OBVIOUS
    <3>4. \/ Pending(level, lt, a, p) \/ Pending(v, w, a, p) \/ NoLater(path, a, p)
      <4>1. CASE b = parent.ga
        BY <2>13, <2>18, <3>2, <3>3, <4>1
      <4>2. CASE b # parent.ga
        <5>1. ~Unread(b)
          <6>1. ASSUME NEW j \in 1..(m + 1), admitted[j].ga = b PROVE FALSE
            <7>1. j # 1
              BY <2>7, <4>2, <6>1
            <7>2. PICK k \in 1..m : k + 1 = j
              <8>1. j - 1 \in 1..m /\ (j - 1) + 1 = j
                BY <7>1
              <8>2. QED BY <8>1
            <7>3. admitted'[k].ga = b
              BY <2>7, <6>1, <7>2
            <7>4. QED BY <2>7, <3>2, <7>3 DEF Unread
          <6>2. QED BY <2>6, <6>1 DEF Unread
        <5>2. Pending(level, lt, a, p) \/ Pending(u, ut, a, p) \/ NoLater(path, a, p)
          BY <2>1, <2>16, <3>2, <3>3, <5>1 DEF Nearest, ReadInv
        <5>3. QED BY <2>18, <5>2
      <4>3. QED BY <4>1, <4>2
    <3>5. Pending(level, lt, a, p)' \/ Pending(upcoming, w, a, p)' \/ NoLater(path, a, p)'
      BY <2>3, <2>19, <3>4 DEF Pending, NoLater
    <3>6. QED BY <3>1, <3>3, <3>5
  <2>25. FirstInv(path, lt)'
    BY <1>1, <2>1, <2>3 DEF Nearest, FirstInv, Pending, NoLater
  <2>26. OnceInv'
    BY <1>1, <2>3, <2>4, OnceStays DEF OnceInv
  <2>27. QED BY <2>21, <2>22, <2>23, <2>24, <2>25, <2>26 DEF NearestInv, Nearest
<1>4. QED BY <1>2, <1>3

\* The next level's paths are longer than every path settled.
LEMMA NearestGoesDown ==
  ASSUME NearestInv, NextLevel
  PROVE  NearestInv'
<1>1. /\ UNCHANGED <<manifest, pom, admitted, rewalk, selected, walked>>
      /\ at = "fetch" /\ admitted = <<>> /\ level' = upcoming /\ upcoming' = <<>>
      /\ depth' = depth + 1
      /\ at' \in {"failed", "widen", "mediate"} /\ (at' = "widen" => upcoming = <<>>)
  BY DEF NextLevel
<1>2. PICK path, lt, ut : Nearest(path, lt, ut)
  BY DEF NearestInv
<1>3. depth \in Nat /\ level = <<>>
  BY <1>1 DEF NearestInv, OnceInv
<1>4. Len(lt) = 0
  <2>1. Len(lt) = Len(level)
    BY <1>2 DEF Nearest, LevelInv, Along
  <2>2. level = <<>> => Len(level) = 0
    OBVIOUS
  <2>3. QED BY <1>3, <2>1, <2>2
<1>5. \A a, p : ~Pending(level, lt, a, p)
  BY <1>4 DEF Pending
<1>6. PICK none : none = <<>> /\ Len(none) = 0
  OBVIOUS
<1>7. Keeps(path, path)
  BY <1>1 DEF Keeps
<1>8. PathsInv(path)'
  <2>1. \A a, v, p : Origin(path, a, v, p) => Origin(path, a, v, p)'
    BY <1>7, OriginStays
  <2>2. \A a \in DOMAIN selected : Len(path[a]) <= depth + 1
    <3>1. SUFFICES ASSUME NEW a \in DOMAIN selected PROVE Len(path[a]) <= depth + 1
      OBVIOUS
    <3>2. path[a] \in Seq(Nat) /\ Len(path[a]) <= depth
      BY <1>2, <3>1 DEF Nearest, PathsInv, Trails
    <3>3. Len(path[a]) \in Nat
      BY <3>2
    <3>4. QED BY <1>3, <3>2, <3>3
  <2>3. PathsInv(path)
    BY <1>2 DEF Nearest
  <2>4. QED BY <1>1, <2>1, <2>2, <2>3 DEF PathsInv
<1>9. LevelInv(path, ut, none)'
  <2>1. PICK u, n : u = upcoming /\ n = depth + 1
    OBVIOUS
  <2>2. Along(path, u, ut, n) /\ Along(path, none, none, n + 1)
    BY <1>2, <1>6, <2>1, NothingAlong DEF Nearest, LevelInv
  <2>3. Along(path, u, ut, n)' /\ Along(path, none, none, n + 1)'
    BY <1>7, <2>2, AlongStays
  <2>4. ASSUME NEW a \in DOMAIN selected, NEW k \in 1..Len(ut) PROVE Before(path[a], ut[k])
    <3>1. path[a] \in Seq(Nat) /\ Len(path[a]) <= depth
      BY <1>2, <2>4 DEF Nearest, PathsInv, Trails
    <3>2. Len(ut[k]) = depth + 1
      BY <2>1, <2>2, <2>4 DEF Along
    <3>3. Len(path[a]) \in Nat
      BY <3>1
    <3>4. Len(path[a]) < Len(ut[k])
      BY <1>3, <3>1, <3>2, <3>3
    <3>5. QED BY <3>4 DEF Before
  <2>5. QED BY <1>1, <1>6, <2>1, <2>3, <2>4 DEF LevelInv
<1>10. ToReadInv(path, none)'
  <2>1. PICK q : q = admitted /\ q = <<>> /\ Len(q) = 0
    BY <1>1, <1>6
  <2>2. Sequence(q)
    BY <2>1, NoItems
  <2>3. \A j : j \notin 1..0
    OBVIOUS
  <2>4. QED BY <1>1, <2>1, <2>2, <2>3 DEF ToReadInv
<1>11. \A a, p : /\ Pending(upcoming, ut, a, p) => Pending(level, ut, a, p)'
                 /\ NoLater(path, a, p) => NoLater(path, a, p)'
  BY <1>1 DEF Pending, NoLater
<1>12. ReadInv(path, ut, none)'
  <2>1. \A b : Deps(b)' = Deps(b) /\ (Unread(b)' <=> Unread(b))
    BY <1>1 DEF Deps, Unread
  <2>2. SUFFICES ASSUME NEW b \in DOMAIN selected, NEW i \in DOMAIN Deps(b),
                        ~Unread(b), Admissible(Deps(b)[i], walked[b])
                 PROVE  (\/ Pending(level, ut, Deps(b)[i].ga, Append(path[b], i))
                         \/ NoLater(path, Deps(b)[i].ga, Append(path[b], i)))'
    BY <1>1, <2>1, VersionsStay DEF ReadInv
  <2>3. PICK a, p : a = Deps(b)[i].ga /\ p = Append(path[b], i)
    OBVIOUS
  <2>4. Pending(upcoming, ut, a, p) \/ NoLater(path, a, p)
    BY <1>2, <1>5, <2>2, <2>3 DEF Nearest, ReadInv
  <2>5. Pending(level, ut, a, p)' \/ NoLater(path, a, p)'
    BY <1>11, <2>4
  <2>6. QED BY <2>1, <2>3, <2>5
<1>13. FirstInv(path, ut)'
  <2>1. ASSUME NEW i \in DOMAIN manifest.roots
        PROVE  NoLater(path, manifest.roots[i].ga, <<i>>)'
    <3>1. PICK a, p : a = manifest.roots[i].ga /\ p = <<i>>
      OBVIOUS
    <3>2. NoLater(path, a, p)
      BY <1>1, <1>2, <1>5, <3>1 DEF Nearest, FirstInv
    <3>3. NoLater(path, a, p)'
      BY <1>11, <3>2
    <3>4. QED BY <1>1, <3>1, <3>3
  <2>2. QED BY <1>1, <2>1 DEF FirstInv
<1>14. OnceInv'
  <2>1. depth' \in Nat
    BY <1>1, <1>3
  <2>2. QED BY <1>1, <2>1, OnceStays DEF NearestInv, OnceInv
<1>15. QED BY <1>8, <1>9, <1>10, <1>12, <1>13, <1>14 DEF NearestInv, Nearest

LEMMA NearestStep == ASSUME NearestInv, [ResolveNext]_resolveVars PROVE NearestInv'
BY NearestStutters, NearestStarts, NearestMediates, NearestReadsPoms, NearestWalks, NearestGoesDown,
   NearestWidens, NearestSettles DEF ResolveNext

LEMMA NearestInit ==
  ASSUME ResolveInit, ~manifest.everyPath, Sequence(manifest.roots), PomsOK
  PROVE  NearestInv
<1>1. /\ at = "seed" /\ depth = 1 /\ level = <<>> /\ admitted = <<>> /\ rewalk = <<>>
      /\ upcoming = <<>> /\ DOMAIN selected = {} /\ DOMAIN walked = {}
  BY DEF ResolveInit
<1>2. OnceInv
  BY <1>1 DEF OnceInv
<1>3. PICK path : path = [a \in DOMAIN selected |-> a]
  OBVIOUS
<1>4. PICK none : none = <<>> /\ Len(none) = 0 /\ \A j : j \notin 1..Len(none)
  OBVIOUS
<1>5. PathsInv(path)
  BY <1>1, <1>3 DEF PathsInv
<1>6. LevelInv(path, none, none)
  BY <1>1, <1>4, NothingAlong DEF LevelInv
<1>7. ToReadInv(path, none)
  BY <1>1, <1>4, NoItems DEF ToReadInv
<1>8. ReadInv(path, none, none) /\ FirstInv(path, none)
  BY <1>1 DEF ReadInv, FirstInv
<1>9. QED BY <1>2, <1>5, <1>6, <1>7, <1>8 DEF NearestInv, Nearest

\* The paths of the graph, up to each length.
OneMoreStep(paths) == paths \cup UNION {Longer(p) : p \in paths}
UptoEach(h, n) ==
  /\ h = [i \in 1..n |-> h[i]] /\ h[1] = RootPaths
  /\ \A i \in 1..n : i # 1 => h[i] = OneMoreStep(h[i - 1])

LEMMA SomePaths ==
  ASSUME NEW size \in Nat \ {0}
  PROVE  \E h : UptoEach(h, size)
<1> DEFINE S == {n \in Nat : \E h : UptoEach(h, n + 1)}
<1>1. 0 \in S
  <2>1. PICK h : h = [i \in 1..1 |-> RootPaths]
    OBVIOUS
  <2>2. h = [i \in 1..1 |-> h[i]] /\ h[1] = RootPaths /\ \A i \in 1..1 : i = 1
    BY <2>1
  <2>3. UptoEach(h, 1)
    BY <2>2 DEF UptoEach
  <2>4. 0 \in Nat /\ 0 + 1 = 1
    OBVIOUS
  <2>5. QED BY <2>3, <2>4
<1>2. ASSUME NEW n \in S PROVE n + 1 \in S
  <2>1. PICK m \in Nat : m = n + 1 /\ n \in Nat
    OBVIOUS
  <2>2. PICK h : UptoEach(h, m)
    BY <2>1
  <2>3. PICK next : next = OneMoreStep(h[m])
    OBVIOUS
  <2>4. PICK k : k = [i \in 1..(m + 1) |-> IF i = m + 1 THEN next ELSE h[i]]
    OBVIOUS
  <2>5. k = [i \in 1..(m + 1) |-> k[i]]
    BY <2>4
  <2>6. m + 1 \in 1..(m + 1) /\ k[m + 1] = next
    BY <2>4
  <2>7. \A i \in 1..m : i \in 1..(m + 1) /\ k[i] = h[i]
    BY <2>4
  <2>8. 1 \in 1..m
    BY <2>1
  <2>9. ASSUME NEW i \in 1..(m + 1), i # 1 PROVE k[i] = OneMoreStep(k[i - 1])
    <3>1. i - 1 \in 1..m
      BY <2>9
    <3>2. k[i - 1] = h[i - 1]
      BY <2>7, <3>1
    <3>3. CASE i = m + 1
      <4>1. i - 1 = m
        BY <3>3
      <4>2. QED BY <2>3, <2>6, <3>2, <3>3, <4>1
    <3>4. CASE i # m + 1
      <4>1. i \in 1..m
        BY <3>4
      <4>2. h[i] = OneMoreStep(h[i - 1])
        BY <2>2, <2>9, <4>1 DEF UptoEach
      <4>3. QED BY <2>7, <3>2, <4>1, <4>2
    <3>5. QED BY <3>3, <3>4
  <2>10. k[1] = RootPaths
    BY <2>2, <2>7, <2>8 DEF UptoEach
  <2>11. UptoEach(k, m + 1)
    BY <2>5, <2>9, <2>10 DEF UptoEach
  <2>12. QED BY <2>1, <2>11
<1>3. S = Nat
  BY <1>1, <1>2, Induct
<1>4. PICK n \in Nat : n + 1 = size
  <2>1. size - 1 \in Nat /\ (size - 1) + 1 = size
    OBVIOUS
  <2>2. QED BY <2>1
<1>5. n \in S
  BY <1>3
<1>6. QED BY <1>4, <1>5

LEMMA PathsUnfold ==
  ASSUME NEW size \in Nat \ {0}, Cardinality(Artifacts) = size
  PROVE  \E h : UptoEach(h, size) /\ Paths = h[Cardinality(DOMAIN selected)]
<1> DEFINE Upto[n \in 1..Cardinality(Artifacts)] ==
             IF n = 1 THEN RootPaths
             ELSE Upto[n - 1] \cup UNION {Longer(p) : p \in Upto[n - 1]}
<1>1. PICK f : UptoEach(f, size)
  BY SomePaths
<1>2. f = [n \in 1..Cardinality(Artifacts) |->
             IF n = 1 THEN RootPaths ELSE f[n - 1] \cup UNION {Longer(p) : p \in f[n - 1]}]
  <2>1. \A n \in 1..size : f[n] = IF n = 1 THEN RootPaths
                                  ELSE f[n - 1] \cup UNION {Longer(p) : p \in f[n - 1]}
    BY <1>1 DEF UptoEach, OneMoreStep
  <2>2. f = [n \in 1..size |-> f[n]]
    BY <1>1 DEF UptoEach
  <2>3. QED BY <2>1, <2>2
<1>3. Paths = Upto[Cardinality(DOMAIN selected)]
  BY DEF Paths
<1>4. Upto = [n \in 1..Cardinality(Artifacts) |->
                IF n = 1 THEN RootPaths ELSE Upto[n - 1] \cup UNION {Longer(p) : p \in Upto[n - 1]}]
  BY <1>2
<1> HIDE DEF Upto
<1>5. PICK h : h = Upto
  OBVIOUS
<1>6. h = [n \in 1..size |->
             IF n = 1 THEN RootPaths ELSE h[n - 1] \cup UNION {Longer(p) : p \in h[n - 1]}]
  BY <1>4, <1>5
<1>7. \A n \in 1..size : h[n] = IF n = 1 THEN RootPaths ELSE OneMoreStep(h[n - 1])
  BY <1>6 DEF OneMoreStep
<1>8. h = [n \in 1..size |-> h[n]]
  BY <1>6
<1>9. 1 \in 1..size
  OBVIOUS
<1>10. UptoEach(h, size)
  BY <1>7, <1>8, <1>9 DEF UptoEach
<1>11. QED BY <1>3, <1>5, <1>10

\* At the end nothing waits: what is asked for along a path is settled along
\* one no later.
LEMMA NothingWaits ==
  ASSUME NEW path, NEW lt, NEW ut, Nearest(path, lt, ut), OnceInv, at = "resolved"
  PROVE  /\ PathsInv(path)
         /\ \A b \in DOMAIN selected : \A i \in DOMAIN Deps(b) :
              Admissible(Deps(b)[i], walked[b]) => NoLater(path, Deps(b)[i].ga, Append(path[b], i))
         /\ \A i \in DOMAIN manifest.roots : NoLater(path, manifest.roots[i].ga, <<i>>)
<1>1. level = <<>> /\ upcoming = <<>> /\ admitted = <<>>
  BY DEF OnceInv
<1>2. PICK none : none = <<>> /\ Len(none) = 0 /\ \A j : j \notin 1..Len(none)
  OBVIOUS
<1>3. \A j : j \notin 1..Len(admitted) /\ j \notin 1..Len(lt) /\ j \notin 1..Len(ut)
  BY <1>1, <1>2 DEF Nearest, LevelInv, Along
<1>4. /\ \A b : ~Unread(b)
      /\ \A a, p : ~Pending(level, lt, a, p) /\ ~Pending(upcoming, ut, a, p)
  BY <1>3 DEF Unread, Pending
<1>5. PathsInv(path) /\ ReadInv(path, lt, ut) /\ FirstInv(path, lt)
  BY DEF Nearest
<1>6. QED BY <1>4, <1>5 DEF ReadInv, FirstInv

\* No path comes before the one a package is settled along.
LEMMA PathsComeNoLater ==
  ASSUME NEW path, NEW lt, NEW ut, Nearest(path, lt, ut), OnceInv, at = "resolved",
         NEW size \in Nat \ {0}, NEW h, UptoEach(h, size)
  PROVE  \A n \in 1..size : \A q \in h[n] : q.steps \in Seq(Nat) /\ NoLater(path, q.end, q.steps)
<1>1. /\ PathsInv(path)
      /\ \A b \in DOMAIN selected : \A i \in DOMAIN Deps(b) :
           Admissible(Deps(b)[i], walked[b]) => NoLater(path, Deps(b)[i].ga, Append(path[b], i))
      /\ \A i \in DOMAIN manifest.roots : NoLater(path, manifest.roots[i].ga, <<i>>)
  BY NothingWaits
<1> DEFINE Fine(q) == q.steps \in Seq(Nat) /\ NoLater(path, q.end, q.steps)
<1>2. ASSUME NEW q \in RootPaths PROVE Fine(q)
  <2>1. PICK i \in DOMAIN manifest.roots : q.steps = <<i>> /\ q.end = manifest.roots[i].ga
    BY <1>2 DEF RootPaths
  <2>2. i \in Nat
    BY DEF OnceInv, Sequence
  <2>3. QED BY <1>1, <2>1, <2>2
<1>3. ASSUME NEW p, Fine(p), NEW q \in Longer(p) PROVE Fine(q)
  <2>1. PICK b : b = p.end
    OBVIOUS
  <2>2. PICK i \in DOMAIN Deps(b) : /\ Admissible(Deps(b)[i], walked[b])
                                    /\ q.steps = Append(p.steps, i) /\ q.end = Deps(b)[i].ga
    BY <1>3, <2>1 DEF Longer
  <2>3. i \in Nat
    <3>1. PICK n \in Nat : DOMAIN Deps(b) = 1..n
      BY DepsAreTyped DEF OnceInv
    <3>2. QED BY <2>2, <3>1
  <2>4. b \in DOMAIN selected /\ AtMost(path[b], p.steps) /\ p.steps \in Seq(Nat)
    BY <1>3, <2>1 DEF NoLater
  <2>5. path[b] \in Seq(Nat)
    BY <1>1, <2>4 DEF PathsInv, Trails
  <2>6. PICK a, u, v : a = q.end /\ u = Append(path[b], i) /\ v = Append(p.steps, i)
    OBVIOUS
  <2>7. AtMost(u, v) /\ u \in Seq(Nat) /\ v \in Seq(Nat)
    BY <2>3, <2>4, <2>5, <2>6, AtMostOneMore
  <2>8. NoLater(path, a, u)
    BY <1>1, <2>2, <2>4, <2>6
  <2>9. path[a] \in Seq(Nat)
    BY <1>1, <2>8 DEF NoLater, PathsInv, Trails
  <2>10. AtMost(path[a], v)
    BY <2>7, <2>8, <2>9, AtMostGoesOn DEF NoLater
  <2>11. QED BY <2>2, <2>6, <2>7, <2>8, <2>10 DEF NoLater
<1> HIDE DEF Fine
<1> DEFINE S == {n \in Nat : n + 1 <= size => \A q \in h[n + 1] : Fine(q)}
<1>4. 0 \in S
  <2>1. h[0 + 1] = RootPaths
    BY DEF UptoEach
  <2>2. QED BY <1>2, <2>1
<1>5. ASSUME NEW n \in S PROVE n + 1 \in S
  <2>1. PICK m \in Nat : m = n + 1 /\ n \in Nat
    OBVIOUS
  <2>2. ASSUME m + 1 <= size, NEW q \in h[m + 1] PROVE Fine(q)
    <3>1. m + 1 \in 1..size /\ m + 1 # 1 /\ (m + 1) - 1 = m
      BY <2>1, <2>2
    <3>2. q \in OneMoreStep(h[m])
      BY <2>2, <3>1 DEF UptoEach
    <3>3. \A p \in h[m] : Fine(p)
      BY <2>1, <2>2
    <3>4. QED BY <1>3, <3>2, <3>3 DEF OneMoreStep
  <2>3. QED BY <2>1, <2>2
<1>6. S = Nat
  BY <1>4, <1>5, Induct
<1>7. ASSUME NEW n \in 1..size, NEW q \in h[n] PROVE Fine(q)
  <2>1. PICK m \in Nat : m + 1 = n
    <3>1. n - 1 \in Nat /\ (n - 1) + 1 = n
      OBVIOUS
    <3>2. QED BY <3>1
  <2>2. m \in S /\ m + 1 <= size
    BY <1>6, <2>1
  <2>3. QED BY <1>7, <2>1, <2>2
<1>8. QED BY <1>7 DEF Fine

\* The path a package is settled along, as Paths has it.
FirstPath(path, a) == [steps |-> path[a], end |-> a, asks |-> selected[a].version]

\* It is one step, or one step more than that of another.
LEMMA SettledAlong ==
  ASSUME NEW path, PathsInv(path), PomsOK, Sequence(manifest.roots), NEW a \in DOMAIN selected
  PROVE  \/ Len(path[a]) = 1 /\ FirstPath(path, a) \in RootPaths
         \/ \E b \in DOMAIN selected : /\ Len(path[a]) = Len(path[b]) + 1
                                       /\ FirstPath(path, a) \in Longer(FirstPath(path, b))
<1>1. PICK p, v : p = path[a] /\ v = selected[a].version
  OBVIOUS
<1>2. Origin(path, a, v, p)
  BY <1>1 DEF PathsInv
<1>3. CASE \E i \in DOMAIN manifest.roots : /\ p = <<i>> /\ a = manifest.roots[i].ga
                                            /\ v = RootVersion(manifest.roots[i])
  <2>1. PICK i \in DOMAIN manifest.roots : /\ p = <<i>> /\ a = manifest.roots[i].ga
                                           /\ v = RootVersion(manifest.roots[i])
    BY <1>3
  <2>2. Len(p) = 1
    BY <2>1
  <2>3. FirstPath(path, a) \in RootPaths
    BY <1>1, <2>1 DEF FirstPath, RootPaths
  <2>4. QED BY <1>1, <2>2, <2>3
<1>4. CASE \E b \in DOMAIN selected : \E i \in DOMAIN Deps(b) :
       /\ Admissible(Deps(b)[i], walked[b]) /\ p = Append(path[b], i)
       /\ a = Deps(b)[i].ga /\ v = AskedVersion(Deps(b)[i])
  <2>0. PICK b \in DOMAIN selected : \E i \in DOMAIN Deps(b) :
       /\ Admissible(Deps(b)[i], walked[b]) /\ p = Append(path[b], i)
       /\ a = Deps(b)[i].ga /\ v = AskedVersion(Deps(b)[i])
    BY <1>4
  <2>1. PICK i \in DOMAIN Deps(b) :
       /\ Admissible(Deps(b)[i], walked[b]) /\ p = Append(path[b], i)
       /\ a = Deps(b)[i].ga /\ v = AskedVersion(Deps(b)[i])
    BY <2>0
  <2>2. i \in Nat
    <3>1. PICK n \in Nat : DOMAIN Deps(b) = 1..n
      BY DepsAreTyped
    <3>2. QED BY <3>1
  <2>3. path[b] \in Seq(Nat)
    BY DEF PathsInv, Trails
  <2>4. Len(p) = Len(path[b]) + 1
    BY <2>1, <2>2, <2>3, OneStepMore
  <2>5. PICK s : s = FirstPath(path, b)
    OBVIOUS
  <2>6. s.end = b /\ s.steps = path[b]
    BY <2>5 DEF FirstPath
  <2>7. FirstPath(path, a) \in Longer(s)
    BY <1>1, <2>1, <2>6 DEF FirstPath, Longer
  <2>8. QED BY <1>1, <2>4, <2>5, <2>7
<1>5. QED BY <1>2, <1>3, <1>4 DEF Origin

\* With a path there is one of every shorter length: none is longer than
\* there are packages.
LEMMA PathsAreShort ==
  ASSUME NEW path, PathsInv(path), PomsOK, Sequence(manifest.roots), NEW a \in DOMAIN selected,
         IsFiniteSet(DOMAIN selected)
  PROVE  Len(path[a]) \in Nat \ {0} /\ Len(path[a]) <= Cardinality(DOMAIN selected)
<1>1. \A b \in DOMAIN selected : Len(path[b]) \in Nat \ {0}
  <2>1. SUFFICES ASSUME NEW b \in DOMAIN selected PROVE Len(path[b]) \in Nat \ {0}
    OBVIOUS
  <2>2. path[b] \in Seq(Nat) /\ path[b] # <<>>
    BY DEF PathsInv, Trails
  <2>3. QED BY <2>2
<1>2. PICK l \in Nat \ {0} : l = Len(path[a])
  BY <1>1
<1>3. PICK D : D = DOMAIN selected
  OBVIOUS
<1> DEFINE S == {k \in Nat : k < l => \E b \in D : Len(path[b]) = l - k}
<1>4. 0 \in S
  <2>1. a \in D /\ Len(path[a]) = l - 0
    BY <1>2, <1>3
  <2>2. QED BY <2>1
<1>5. ASSUME NEW k \in S PROVE k + 1 \in S
  <2>1. ASSUME k + 1 < l PROVE \E b \in D : Len(path[b]) = l - (k + 1)
    <3>1. k \in Nat /\ k < l
      BY <2>1
    <3>2. PICK c \in D : Len(path[c]) = l - k
      BY <3>1
    <3>3. Len(path[c]) # 1
      BY <2>1, <3>1, <3>2
    <3>4. PICK b \in D : Len(path[c]) = Len(path[b]) + 1
      BY <1>3, <3>3, SettledAlong
    <3>5. Len(path[b]) \in Nat
      BY <1>1, <1>3
    <3>6. Len(path[b]) = l - (k + 1)
      BY <3>1, <3>2, <3>4, <3>5
    <3>7. QED BY <3>6
  <2>2. k + 1 \in Nat
    OBVIOUS
  <2>3. QED BY <2>1, <2>2
<1>6. S = Nat
  BY <1>4, <1>5, Induct
<1>7. ASSUME NEW n \in 1..l PROVE \E b \in D : Len(path[b]) = n
  <2>1. PICK k \in Nat : k < l /\ l - k = n
    <3>1. l - n \in Nat /\ l - n < l /\ l - (l - n) = n
      OBVIOUS
    <3>2. QED BY <3>1
  <2>2. k \in S
    BY <1>6
  <2>3. QED BY <2>1, <2>2
<1> HIDE DEF S
<1>8. PICK g : g = [n \in 1..l |-> CHOOSE b \in D : Len(path[b]) = n]
  OBVIOUS
<1>9. \A n \in 1..l : g[n] \in D /\ Len(path[g[n]]) = n
  BY <1>7, <1>8
<1>10. g \in Injection(1..l, D)
  <2>1. g \in [1..l -> D]
    BY <1>8, <1>9
  <2>2. \A m, n \in 1..l : g[m] = g[n] => m = n
    BY <1>9
  <2>3. QED BY <2>1, <2>2 DEF Injection, IsInjective
<1>11. Cardinality(1..l) <= Cardinality(D)
  BY <1>3, <1>10, FS_Injection
<1>12. Cardinality(1..l) = l
  BY FS_Interval
<1>13. QED BY <1>2, <1>3, <1>11, <1>12

\* The path of every package is among those of its length.
LEMMA SettledIsAPath ==
  ASSUME NEW path, PathsInv(path), PomsOK, Sequence(manifest.roots), IsFiniteSet(DOMAIN selected),
         NEW size \in Nat \ {0}, NEW h, UptoEach(h, size)
  PROVE  \A n \in 1..size : \A a \in DOMAIN selected : Len(path[a]) <= n => FirstPath(path, a) \in h[n]
<1> DEFINE Those(n) == \A a \in DOMAIN selected : Len(path[a]) <= n => FirstPath(path, a) \in h[n]
           S == {n \in Nat : n + 1 <= size => Those(n + 1)}
<1>1. \A a \in DOMAIN selected : Len(path[a]) \in Nat \ {0}
  BY PathsAreShort
<1>2. h[1] = RootPaths /\ \A n \in 2..size : h[n] = OneMoreStep(h[n - 1])
  <2>1. \A n \in 2..size : n \in 1..size /\ n # 1
    OBVIOUS
  <2>2. QED BY <2>1 DEF UptoEach
<1>3. Those(1)
  <2>1. SUFFICES ASSUME NEW a \in DOMAIN selected, Len(path[a]) <= 1
                 PROVE  FirstPath(path, a) \in RootPaths
    BY <1>2
  <2>2. \A b \in DOMAIN selected : Len(path[a]) # Len(path[b]) + 1
    <3>1. SUFFICES ASSUME NEW b \in DOMAIN selected PROVE Len(path[a]) # Len(path[b]) + 1
      OBVIOUS
    <3>2. PICK m \in Nat \ {0}, n \in Nat \ {0} : m = Len(path[a]) /\ n = Len(path[b])
      BY <1>1
    <3>3. m # n + 1
      BY <2>1, <3>2
    <3>4. QED BY <3>2, <3>3
  <2>3. QED BY <2>2, SettledAlong
<1>4. ASSUME NEW n \in Nat, n + 2 <= size, Those(n + 1) PROVE Those(n + 2)
  <2>1. PICK m \in Nat : m = n + 1 /\ m + 1 = n + 2
    BY <1>4
  <2>2. SUFFICES ASSUME NEW a \in DOMAIN selected, Len(path[a]) <= m + 1
                 PROVE  FirstPath(path, a) \in h[m + 1]
    BY <2>1
  <2>3. h[m + 1] = OneMoreStep(h[m])
    <3>1. m + 1 \in 2..size /\ (m + 1) - 1 = m
      BY <1>4, <2>1
    <3>2. QED BY <1>2, <3>1
  <2>4. \A b \in DOMAIN selected : Len(path[b]) <= m => FirstPath(path, b) \in h[m]
    BY <1>4, <2>1
  <2>5. CASE Len(path[a]) <= m
    BY <2>2, <2>3, <2>4, <2>5 DEF OneMoreStep
  <2>6. CASE ~(Len(path[a]) <= m)
    <3>1. Len(path[a]) = m + 1 /\ Len(path[a]) # 1
      <4>1. PICK l \in Nat : l = Len(path[a])
        BY <1>1
      <4>2. l = m + 1 /\ l # 1
        <5>1. l <= m + 1 /\ ~(l <= m)
          BY <2>2, <2>6, <4>1
        <5>2. m # 0
          BY <2>1
        <5>3. QED BY <5>1, <5>2
      <4>3. QED BY <4>1, <4>2
    <3>2. PICK b \in DOMAIN selected : /\ Len(path[a]) = Len(path[b]) + 1
                                       /\ FirstPath(path, a) \in Longer(FirstPath(path, b))
      BY <2>2, <3>1, SettledAlong
    <3>3. Len(path[b]) \in Nat
      BY <1>1
    <3>4. Len(path[b]) <= m
      BY <3>1, <3>2, <3>3
    <3>5. FirstPath(path, b) \in h[m]
      BY <2>4, <3>4
    <3>6. QED BY <2>3, <3>2, <3>5 DEF OneMoreStep
  <2>7. QED BY <2>5, <2>6
<1> HIDE DEF Those
<1>5. 0 \in S
  BY <1>3
<1>6. ASSUME NEW n \in S PROVE n + 1 \in S
  <2>1. n \in Nat /\ n + 1 \in Nat /\ (n + 1) + 1 = n + 2
    OBVIOUS
  <2>2. ASSUME n + 2 <= size PROVE Those(n + 2)
    <3>1. n + 1 <= size
      BY <2>1, <2>2
    <3>2. Those(n + 1)
      BY <2>1, <3>1
    <3>3. QED BY <1>4, <2>1, <2>2, <3>2
  <2>3. QED BY <2>1, <2>2
<1>7. S = Nat
  BY <1>5, <1>6, Induct
<1>8. ASSUME NEW n \in 1..size PROVE Those(n)
  <2>1. PICK m \in Nat : m + 1 = n
    <3>1. n - 1 \in Nat /\ (n - 1) + 1 = n
      OBVIOUS
    <3>2. QED BY <3>1
  <2>2. m + 1 <= size
    BY <2>1
  <2>3. m \in S
    BY <1>7
  <2>4. QED BY <2>1, <2>2, <2>3
<1>9. QED BY <1>8 DEF Those

LEMMA NearestFound ==
  ASSUME NearestInv, DOMAIN selected \subseteq Artifacts
  PROVE  NearestWins
<1>1. SUFFICES ASSUME at = "resolved", NEW a \in DOMAIN selected
               PROVE  \E p \in Paths : /\ p.end = a
                                       /\ selected[a].version = p.asks /\ selected[a].depth = Len(p.steps)
                                       /\ \A q \in Paths : q.end = a => ~Before(q.steps, p.steps)
  BY DEF NearestWins
<1>2. PICK path, lt, ut : Nearest(path, lt, ut)
  BY DEF NearestInv
<1>3. OnceInv /\ PathsInv(path) /\ PomsOK /\ Sequence(manifest.roots)
  BY <1>2 DEF NearestInv, OnceInv, Nearest
<1>4. /\ IsFiniteSet(DOMAIN selected) /\ Cardinality(Artifacts) \in Nat
      /\ Cardinality(DOMAIN selected) <= Cardinality(Artifacts)
  BY EffectivePomAssumption, FS_Subset, FS_CardinalityType
<1>5. /\ Cardinality(DOMAIN selected) \in Nat
      /\ Len(path[a]) \in Nat \ {0} /\ Len(path[a]) <= Cardinality(DOMAIN selected)
  BY <1>3, <1>4, PathsAreShort, FS_CardinalityType
<1>6. PICK n \in Nat \ {0}, size \in Nat \ {0} :
        n = Cardinality(DOMAIN selected) /\ size = Cardinality(Artifacts) /\ n <= size
  BY <1>4, <1>5
<1>7. n \in 1..size
  BY <1>6
<1>8. PICK h : UptoEach(h, size) /\ Paths = h[n]
  BY <1>6, PathsUnfold
<1>9. PICK p : p = FirstPath(path, a)
  OBVIOUS
<1>10. p.steps = path[a] /\ p.end = a /\ p.asks = selected[a].version
  BY <1>9 DEF FirstPath
<1>11. p \in Paths
  BY <1>3, <1>4, <1>5, <1>6, <1>7, <1>8, <1>9, SettledIsAPath
<1>12. selected[a].depth = Len(p.steps) /\ p.steps \in Seq(Nat)
  BY <1>3, <1>10 DEF PathsInv, Trails
<1>13. ASSUME NEW q \in Paths, q.end = a PROVE ~Before(q.steps, p.steps)
  <2>1. q.steps \in Seq(Nat) /\ NoLater(path, a, q.steps)
    BY <1>1, <1>2, <1>3, <1>7, <1>8, <1>13, PathsComeNoLater
  <2>2. AtMost(p.steps, q.steps)
    BY <1>10, <2>1 DEF NoLater
  <2>3. QED BY <1>12, <2>1, <2>2, AtMostIsNotAfter
<1>14. QED BY <1>10, <1>11, <1>12, <1>13

-----------------------------------------------------------------------------
\* For any repository and any manifest the walk is given (resolve_walking): a
\* package is on the classpath the main sources compile against, or on the one
\* the program runs with, exactly if a declaration that is there reaches it.
THEOREM ResolveLands == ResolveSpec => []LandsWhereRootsPutIt
<1>1. ResolveInit /\ manifest \in Manifest /\ (\E r \in Poms : pom = Effective(r)) => LandInv
  <2>1. SUFFICES ASSUME ResolveInit, manifest \in Manifest, NEW r \in Poms, pom = Effective(r)
                 PROVE  LandInv
    OBVIOUS
  <2>2. manifest.roots \in Seq(Root)
    BY <2>1 DEF Manifest
  <2>3. RepositoryOK(r)
    BY ResolverAssumption
  <2>4. QED BY <2>1, <2>2, <2>3, TypedRootsAreOK, EffectivePomsAreOK, LandStarts
<1>2. LandInv /\ [ResolveNext]_resolveVars => LandInv'
  BY LandStep
<1>3. LandInv => LandsWhereRootsPutIt
  BY WhereRootsPutIt
<1>4. QED BY <1>1, <1>2, <1>3, PTL DEF ResolveSpec

\* The same of what a workspace's members declare together, the aggregate its
\* one resolution is of (Workspace::aggregate), and of a project of its own.
THEOREM SpecLands == Spec => []LandsWhereRootsPutIt
<1>1. Init => LandInv
  BY InitLands
<1>2. LandInv /\ [Next]_workspaceVars => LandInv'
  BY NextResolves, LandStep
<1>3. LandInv => LandsWhereRootsPutIt
  BY WhereRootsPutIt
<1>4. QED BY <1>1, <1>2, <1>3, PTL DEF Spec

\* Every member of every workspace has on its classpath what its own and its
\* upstream members' declarations reach past their own exclusions, on every
\* classpath they put it on: the one walk of all members' declarations, and
\* each member's share of it (Workspace::aggregate, resolve_walking, project),
\* lose nothing for what another member excludes.
THEOREM SpecKeepsAll == Spec => []ShareKeepsAll
<1> DEFINE KInv == Workable /\ LandInv /\ (workspace.alone \/ KeepInv)
<1>1. Init => KInv
  BY InitLands, KeepInit DEF Init
<1>2. KInv /\ [Next]_workspaceVars => KInv'
  <2>1. SUFFICES ASSUME KInv, [Next]_workspaceVars PROVE KInv'
    OBVIOUS
  <2>2. [ResolveNext]_resolveVars /\ UNCHANGED workspace
    BY <2>1, NextResolves
  <2>3. Workable' /\ LandInv'
    BY <2>1, <2>2, WorkableStays, LandStep
  <2>4. KeepInv => KeepInv'
    BY <2>1, <2>2, KeepStep
  <2>5. QED BY <2>1, <2>2, <2>3, <2>4
<1>3. KInv => ShareKeepsAll
  BY NothingIsLost DEF ShareKeepsAll
<1>4. QED BY <1>1, <1>2, <1>3, PTL DEF Spec

\* For any repository and any manifest the walk is given (resolve_walking),
\* where nothing makes it walk a package again: the version of every package
\* is the one its first path asks for, the nearest one and the earlier
\* declaration among the nearest, and its depth is that path's.
THEOREM ResolveNearest == ResolveSpec => []NearestWins
<1> DEFINE NInv == LandInv /\ (manifest.everyPath \/ NearestInv)
<1>1. ResolveInit /\ manifest \in Manifest /\ (\E r \in Poms : pom = Effective(r)) => NInv
  <2>1. SUFFICES ASSUME ResolveInit, manifest \in Manifest, NEW r \in Poms, pom = Effective(r)
                 PROVE  NInv
    OBVIOUS
  <2>2. manifest.roots \in Seq(Root) /\ RepositoryOK(r)
    BY <2>1, ResolverAssumption DEF Manifest
  <2>3. LandInv
    BY <2>1, <2>2, TypedRootsAreOK, EffectivePomsAreOK, LandStarts
  <2>4. PomsOK /\ Sequence(manifest.roots)
    BY <2>1, <2>2, EffectivePomsAreTyped DEF Sequence
  <2>5. QED BY <2>1, <2>3, <2>4, NearestInit
<1>2. NInv /\ [ResolveNext]_resolveVars => NInv'
  <2>1. SUFFICES ASSUME NInv, [ResolveNext]_resolveVars PROVE NInv'
    OBVIOUS
  <2>2. UNCHANGED manifest
    BY <2>1 DEF ResolveNext, Start, Mediate, ReadPoms, Walk, NextLevel, Widen, Settle, resolveVars
  <2>3. LandInv'
    BY <2>1, LandStep
  <2>4. QED BY <2>1, <2>2, <2>3, NearestStep
<1>3. NInv => NearestWins
  BY NearestFound DEF LandInv, SelectedInv, NearestWins
<1>4. QED BY <1>1, <1>2, <1>3, PTL DEF ResolveSpec

\* The same of every project that is no workspace (resolve): its own
\* declarations are what is walked, and nothing is walked again.
THEOREM SpecNearest == Spec => []NearestWins
<1> DEFINE NInv == Workable /\ LandInv /\ (manifest.everyPath \/ NearestInv)
<1>1. Init => NInv
  <2>1. SUFFICES ASSUME Init PROVE NInv
    OBVIOUS
  <2>2. Workable /\ LandInv /\ ResolveInit
    BY <2>1, InitLands DEF Init
  <2>3. PICK w : w = workspace /\ WorkspaceOK(w)
    BY <2>2, WorkableIsTyped
  <2>4. manifest.roots \in Seq(Root)
    BY <2>2, <2>3, ResolvedIsTyped DEF Workable
  <2>5. PomsOK
    <3>1. PICK repo : repo = w.repo
      OBVIOUS
    <3>2. RepositoryOK(repo) /\ pom = Effective(repo)
      BY <2>2, <2>3, <3>1, ResolverAssumption DEF WorkspaceOK, Workable
    <3>3. QED BY <3>2, EffectivePomsAreTyped
  <2>6. Sequence(manifest.roots)
    BY <2>4 DEF Sequence
  <2>7. QED BY <2>2, <2>5, <2>6, NearestInit
<1>2. NInv /\ [Next]_workspaceVars => NInv'
  <2>1. SUFFICES ASSUME NInv, [Next]_workspaceVars PROVE NInv'
    OBVIOUS
  <2>2. [ResolveNext]_resolveVars
    BY <2>1, NextResolves
  <2>3. Workable' /\ LandInv'
    BY <2>1, <2>2, WorkableStays, LandStep
  <2>4. UNCHANGED manifest
    BY <2>2 DEF ResolveNext, Start, Mediate, ReadPoms, Walk, NextLevel, Widen, Settle, resolveVars
  <2>5. QED BY <2>1, <2>2, <2>3, <2>4, NearestStep
<1>3. NInv => NearestWins
  BY NearestFound DEF LandInv, SelectedInv, NearestWins
<1>4. QED BY <1>1, <1>2, <1>3, PTL DEF Spec
=============================================================================
