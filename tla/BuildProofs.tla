------------------------------ MODULE BuildProofs -------------------------------
(***************************************************************************)
(* What the build of a Java unit leaves behind, for any sources, any texts *)
(* they may have, any settings, and any history of the trials named in     *)
(* KindsOfTrials; and, at the end, what the --watch loop that repeats      *)
(* builds keeps.                                                           *)
(*                                                                         *)
(* The argument goes from the texts to the disk.  Closures along a graph   *)
(* are least closed sets; so two worlds of class files that agree on what  *)
(* a source sees compile it to the same class, and a round that compiled   *)
(* what changed moves only the sources it reaches.  Right says what is on  *)
(* disk at each step in these terms, Onward what stays true when anything  *)
(* is saved, killed or deleted in between.                                 *)
(***************************************************************************)
EXTENDS CompileUnit, WatchPromise, FiniteSetTheorems, WellFoundedInduction, TLAPS

-----------------------------------------------------------------------------
\* Induction over a set of numbers.
LEMMA Induct ==
  ASSUME NEW S \in SUBSET Nat, 0 \in S, \A n \in S : n + 1 \in S
  PROVE  S = Nat
<1>1. SUFFICES ASSUME Nat \ S # {} PROVE FALSE
  OBVIOUS
<1>2. PICK n \in Nat \ S : \A m \in Nat \ S : ~(<<m, n>> \in OpToRel(<, Nat))
  BY <1>1, NatLessThanWellFounded, WFMin
<1>3. n - 1 \in Nat /\ n - 1 \notin S
  <2>1. n \in Nat /\ n # 0
    BY <1>2
  <2>2. n - 1 \in Nat /\ (n - 1) + 1 = n
    BY <2>1
  <2>3. QED BY <1>2, <2>2
<1>4. <<n - 1, n>> \in OpToRel(<, Nat)
  BY <1>2, <1>3 DEF OpToRel
<1>5. QED BY <1>2, <1>3, <1>4
-----------------------------------------------------------------------------
(* Closure.                                                                *)

\* One more step along next.
Further(next, Y) == Y \cup UNION {next[y] : y \in Y}

\* Where paths of n steps from X come to, some of their steps idle.
Paths(next, X, n) ==
  {p \in [0..n -> Sources] : p[0] \in X /\ \A i \in 1..n : p[i] = p[i - 1] \/ p[i] \in next[p[i - 1]]}
EndsAt(next, X, n) == {p[n] : p \in Paths(next, X, n)}

LEMMA EndsOfNone ==
  ASSUME NEW next, NEW X \in SUBSET Sources
  PROVE  EndsAt(next, X, 0) = X
<1>1. ASSUME NEW x \in X PROVE x \in EndsAt(next, X, 0)
  <2>1. PICK p \in [0..0 -> Sources] : p[0] = x
    <3>1. [i \in 0..0 |-> x] \in [0..0 -> Sources] /\ [i \in 0..0 |-> x][0] = x
      OBVIOUS
    <3> QED BY <3>1
  <2>2. p \in Paths(next, X, 0)
    BY <2>1 DEF Paths
  <2> QED BY <2>1, <2>2 DEF EndsAt
<1>2. \A p \in Paths(next, X, 0) : p[0] \in X
  BY DEF Paths
<1> QED BY <1>1, <1>2 DEF EndsAt

LEMMA EndsOfMore ==
  ASSUME NEW next \in [Sources -> SUBSET Sources], NEW X \in SUBSET Sources, NEW n \in Nat \ {0}
  PROVE  EndsAt(next, X, n) = Further(next, EndsAt(next, X, n - 1))
<1>1. ASSUME NEW p \in Paths(next, X, n)
      PROVE  p[n] \in Further(next, EndsAt(next, X, n - 1))
  <2>1. PICK q \in [0..(n - 1) -> Sources] : \A i \in 0..(n - 1) : q[i] = p[i]
    <3>1. \A i \in 0..(n - 1) : p[i] \in Sources
      BY DEF Paths
    <3>2. [i \in 0..(n - 1) |-> p[i]] \in [0..(n - 1) -> Sources]
      BY <3>1
    <3> QED BY <3>2
  <2>2. q \in Paths(next, X, n - 1)
    BY <2>1 DEF Paths
  <2>3. q[n - 1] = p[n - 1] /\ q[n - 1] \in EndsAt(next, X, n - 1)
    BY <2>1, <2>2 DEF EndsAt
  <2>4. p[n] = p[n - 1] \/ p[n] \in next[p[n - 1]]
    BY DEF Paths
  <2> QED BY <2>3, <2>4 DEF Further
<1>2. ASSUME NEW q \in Paths(next, X, n - 1), NEW s \in Sources,
             s = q[n - 1] \/ s \in next[q[n - 1]]
      PROVE  s \in EndsAt(next, X, n)
  <2>1. PICK p \in [0..n -> Sources] : \A i \in 0..n : p[i] = IF i = n THEN s ELSE q[i]
    <3>1. \A i \in 0..n : (IF i = n THEN s ELSE q[i]) \in Sources
      BY DEF Paths
    <3>2. [i \in 0..n |-> IF i = n THEN s ELSE q[i]] \in [0..n -> Sources]
      BY <3>1
    <3> QED BY <3>2
  <2>2. p[0] \in X
    BY <2>1 DEF Paths
  <2>3. ASSUME NEW i \in 1..n PROVE p[i] = p[i - 1] \/ p[i] \in next[p[i - 1]]
    <3>1. p[i - 1] = q[i - 1]
      BY <2>1
    <3>2. CASE i = n
      BY <1>2, <2>1, <3>1, <3>2
    <3>3. CASE i # n
      BY <2>1, <3>1, <3>3 DEF Paths
    <3> QED BY <3>2, <3>3
  <2>4. p \in Paths(next, X, n) /\ p[n] = s
    BY <2>1, <2>2, <2>3 DEF Paths
  <2> QED BY <2>4 DEF EndsAt
<1>3. \A q \in Paths(next, X, n - 1) : q[n - 1] \in Sources /\ next[q[n - 1]] \subseteq Sources
  BY DEF Paths
<1> QED BY <1>1, <1>2, <1>3 DEF Further, EndsAt

\* The recursive function of Closure exists and is what it says.
LEMMA ClosureUnfolds ==
  ASSUME NEW next \in [Sources -> SUBSET Sources], NEW X \in SUBSET Sources
  PROVE  \E f : /\ Closure(X, next) = f[Cardinality(Sources)]
                /\ f[0] = X
                /\ \A n \in Nat : f[n + 1] = Further(next, f[n])
<1> DEFINE reach[n \in Nat] ==
      IF n = 0 THEN X ELSE LET Y == reach[n - 1] IN Y \cup UNION {next[y] : y \in Y}
<1>1. PICK f : f = [n \in Nat |-> EndsAt(next, X, n)]
  OBVIOUS
<1>2. f = [n \in Nat |-> IF n = 0 THEN X ELSE Further(next, f[n - 1])]
  <2>1. \A n \in Nat : n # 0 => n - 1 \in Nat
    OBVIOUS
  <2>2. \A n \in Nat : f[n] = IF n = 0 THEN X ELSE Further(next, f[n - 1])
    BY <1>1, <2>1, EndsOfNone, EndsOfMore
  <2> QED BY <1>1, <2>2
<1>3. Closure(X, next) = reach[Cardinality(Sources)]
  BY DEF Closure
<1>4. reach = [n \in Nat |-> IF n = 0 THEN X ELSE Further(next, reach[n - 1])]
  BY <1>2 DEF Further
<1> HIDE DEF reach
<1>5. PICK g : g = reach
  OBVIOUS
<1>6. g[0] = X /\ \A n \in Nat : g[n + 1] = Further(next, g[n])
  <2>1. \A n \in Nat : g[n] = IF n = 0 THEN X ELSE Further(next, g[n - 1])
    BY <1>4, <1>5
  <2>2. \A n \in Nat : n + 1 \in Nat /\ n + 1 # 0 /\ (n + 1) - 1 = n
    OBVIOUS
  <2> QED BY <2>1, <2>2
<1> QED BY <1>3, <1>5, <1>6

\* Closure: the least set that holds X and is closed under next.  Each step
\* that is not the last adds a source.
LEMMA ClosureIsLeast ==
  ASSUME NEW next \in [Sources -> SUBSET Sources], NEW X \in SUBSET Sources
  PROVE  /\ X \subseteq Closure(X, next) /\ Closure(X, next) \subseteq Sources
         /\ \A s \in Closure(X, next) : next[s] \subseteq Closure(X, next)
         /\ \A Y \in SUBSET Sources :
              X \subseteq Y /\ (\A s \in Y : next[s] \subseteq Y) => Closure(X, next) \subseteq Y
<1>1. PICK f : /\ Closure(X, next) = f[Cardinality(Sources)]
               /\ f[0] = X
               /\ \A n \in Nat : f[n + 1] = Further(next, f[n])
  BY ClosureUnfolds
<1>2. IsFiniteSet(Sources) /\ Cardinality(Sources) \in Nat
  BY TextAssumption, FS_CardinalityType
<1>3. ASSUME NEW Y \in SUBSET Sources, X \subseteq Y, \A s \in Y : next[s] \subseteq Y
      PROVE  \A n \in Nat : f[n] \subseteq Y
  <2> DEFINE S == {n \in Nat : f[n] \subseteq Y}
  <2>1. 0 \in S
    BY <1>1, <1>3
  <2>2. ASSUME NEW n \in S PROVE n + 1 \in S
    <3>1. f[n + 1] = Further(next, f[n]) /\ f[n] \subseteq Y
      BY <1>1
    <3> QED BY <1>3, <3>1 DEF Further
  <2>3. S = Nat
    BY <2>1, <2>2, Induct
  <2> QED BY <2>3
<1>4. \A n \in Nat : f[n] \subseteq Sources
  BY <1>3
<1>5. \A n \in Nat : X \subseteq f[n]
  <2> DEFINE S == {n \in Nat : X \subseteq f[n]}
  <2>1. 0 \in S
    BY <1>1
  <2>2. ASSUME NEW n \in S PROVE n + 1 \in S
    BY <1>1 DEF Further
  <2>3. S = Nat
    BY <2>1, <2>2, Induct
  <2> QED BY <2>3
<1>6. \A n \in Nat : IsFiniteSet(f[n]) /\ Cardinality(f[n]) \in Nat
                     /\ Cardinality(f[n]) <= Cardinality(Sources)
  BY <1>2, <1>4, FS_Subset, FS_CardinalityType
<1>7. \A n \in Nat : Further(next, f[n]) = f[n] \/ Cardinality(f[n]) >= n
  <2> DEFINE S == {n \in Nat : Further(next, f[n]) = f[n] \/ Cardinality(f[n]) >= n}
  <2>1. 0 \in S
    BY <1>6
  <2>2. ASSUME NEW n \in S PROVE n + 1 \in S
    <3>1. f[n + 1] = Further(next, f[n]) /\ n + 1 \in Nat
      BY <1>1
    <3>2. CASE Further(next, f[n]) = f[n]
      BY <3>1, <3>2
    <3>3. CASE Further(next, f[n]) # f[n]
      <4>1. f[n] \subseteq f[n + 1] /\ f[n] # f[n + 1]
        BY <3>1, <3>3 DEF Further
      <4>2. Cardinality(f[n]) < Cardinality(f[n + 1])
        BY <1>6, <3>1, <4>1, FS_Subset
      <4>3. Cardinality(f[n]) >= n
        BY <3>3
      <4>4. Cardinality(f[n + 1]) >= n + 1
        BY <1>6, <3>1, <4>2, <4>3
      <4> QED BY <3>1, <4>4
    <3> QED BY <3>2, <3>3
  <2>3. S = Nat
    BY <2>1, <2>2, Induct
  <2> QED BY <2>3
<1>8. Further(next, f[Cardinality(Sources)]) = f[Cardinality(Sources)]
  <2>1. PICK k \in Nat : k = Cardinality(Sources)
    BY <1>2
  <2>2. CASE Cardinality(f[k]) >= k
    <3>1. f[k] = Sources
      BY <1>2, <1>4, <1>6, <2>1, <2>2, FS_Subset
    <3> QED BY <2>1, <3>1 DEF Further
  <2> QED BY <1>7, <2>1, <2>2
<1>9. \A s \in f[Cardinality(Sources)] : next[s] \subseteq f[Cardinality(Sources)]
  BY <1>8 DEF Further
<1>10. /\ X \subseteq Closure(X, next) /\ Closure(X, next) \subseteq Sources
       /\ \A s \in Closure(X, next) : next[s] \subseteq Closure(X, next)
  BY <1>1, <1>2, <1>4, <1>5, <1>9
<1>11. ASSUME NEW Y \in SUBSET Sources, X \subseteq Y, \A s \in Y : next[s] \subseteq Y
       PROVE  Closure(X, next) \subseteq Y
  BY <1>1, <1>2, <1>3, <1>11
<1> QED BY <1>10, <1>11
-----------------------------------------------------------------------------
(* Class files and the texts they are of.                                  *)

\* A text, or none, for each source.
Known(ver) == ver \in [Sources -> Nat] /\ \A s \in Sources : ver[s] = 0 \/ ver[s] \in DOMAIN Content[s]

\* What javac finds when every class it finds is of the text `ver` says.
Of(ver) == [s \in Sources |->
              [of |-> ver[s], members |-> IF ver[s] = 0 THEN {} ELSE Content[s][ver[s]].members]]

\* The class file of s compiled in that world.
Compiled(s, ver, set) == ClassOf(s, Of(ver), set)

Uses(s, v) == IF v = 0 THEN {} ELSE Content[s][v].supers \cup Content[s][v].refs

LEMMA TextType ==
  ASSUME NEW ver, Known(ver), NEW s \in Sources
  PROVE  /\ Of(ver)[s].of = ver[s]
         /\ Supers(s, ver[s]) \subseteq Uses(s, ver[s]) /\ Uses(s, ver[s]) \subseteq Sources
         /\ s \notin Uses(s, ver[s])
         /\ \A m \in Of(ver)[s].members : "bridge" \in DOMAIN m /\ ~m.bridge
<1>1. CASE ver[s] = 0
  BY <1>1 DEF Of, Supers, Uses
<1>2. CASE ver[s] # 0
  <2>1. PICK v : v = ver[s]
    OBVIOUS
  <2>2. v \in DOMAIN Content[s] /\ v # 0
    BY <1>2, <2>1 DEF Known
  <2>3. /\ Content[s][v].supers \cup Content[s][v].refs \subseteq Sources \ {s}
        /\ \A m \in Content[s][v].members : "bridge" \in DOMAIN m /\ ~m.bridge
    BY <2>2, TextAssumption
  <2>4. Of(ver)[s].of = v /\ Of(ver)[s].members = Content[s][v].members
    BY <2>1, <2>2 DEF Of
  <2>5. Supers(s, v) = Content[s][v].supers /\ Uses(s, v) = Content[s][v].supers \cup Content[s][v].refs
    BY <2>2 DEF Supers, Uses
  <2> QED BY <2>1, <2>3, <2>4, <2>5
<1> QED BY <1>1, <1>2

\* The supertypes of a source, at any depth.
LEMMA LineageIsLeast ==
  ASSUME NEW ver, Known(ver), NEW s \in Sources
  PROVE  /\ s \in Lineage(s, Of(ver)) /\ Lineage(s, Of(ver)) \subseteq Sources
         /\ \A u \in Lineage(s, Of(ver)) : Supers(u, ver[u]) \subseteq Lineage(s, Of(ver))
         /\ \A Y \in SUBSET Sources :
              s \in Y /\ (\A u \in Y : Supers(u, ver[u]) \subseteq Y) => Lineage(s, Of(ver)) \subseteq Y
<1>1. PICK next : next = [u \in Sources |-> Supers(u, Of(ver)[u].of)]
  OBVIOUS
<1>2. \A u \in Sources : next[u] = Supers(u, ver[u]) /\ next[u] \subseteq Sources
  BY <1>1, TextType
<1>3. next \in [Sources -> SUBSET Sources]
  BY <1>1, <1>2
<1>4. Lineage(s, Of(ver)) = Closure({s}, next)
  BY <1>1 DEF Lineage
<1>5. /\ {s} \subseteq Closure({s}, next) /\ Closure({s}, next) \subseteq Sources
      /\ \A u \in Closure({s}, next) : next[u] \subseteq Closure({s}, next)
      /\ \A Y \in SUBSET Sources :
           {s} \subseteq Y /\ (\A u \in Y : next[u] \subseteq Y) => Closure({s}, next) \subseteq Y
  BY <1>3, ClosureIsLeast
<1>6. PICK L : L = Closure({s}, next)
  OBVIOUS
<1>7. ASSUME NEW Y \in SUBSET Sources, s \in Y, \A u \in Y : Supers(u, ver[u]) \subseteq Y
      PROVE  L \subseteq Y
  BY <1>2, <1>5, <1>6, <1>7
<1>8. s \in L /\ L \subseteq Sources /\ \A u \in L : Supers(u, ver[u]) \subseteq L
  <2>1. s \in L /\ L \subseteq Sources /\ \A u \in L : next[u] \subseteq L
    BY <1>5, <1>6
  <2>2. ASSUME NEW u \in L PROVE Supers(u, ver[u]) \subseteq L
    BY <1>2, <2>1
  <2> QED BY <2>1, <2>2
<1> QED BY <1>4, <1>6, <1>7, <1>8

\* Of what a class shows others, javac has added only bridges to its text.
LEMMA PlainMembers ==
  ASSUME NEW ver, Known(ver), NEW s \in Sources, ver[s] # 0, NEW set
  PROVE  /\ Compiled(s, ver, set).of = ver[s]
         /\ {m \in Compiled(s, ver, set).members : ~m.bridge} = Of(ver)[s].members
         /\ Compiled(s, ver, set).members = Of(ver)[s].members \cup Bridges(s, Of(ver))
<1>1. Compiled(s, ver, set).of = ver[s]
  BY TextType DEF Compiled, ClassOf
<1>2. Compiled(s, ver, set).members = Of(ver)[s].members \cup Bridges(s, Of(ver))
  BY TextType DEF Compiled, ClassOf, Of
<1>3. \A m \in Of(ver)[s].members : ~m.bridge
  BY TextType
<1>4. ASSUME NEW m \in Bridges(s, Of(ver)) PROVE m.bridge
  <2>1. PICK u \in Lineage(s, Of(ver)) : \E i \in Of(ver)[u].members : m = [i EXCEPT !.bridge = TRUE]
    BY DEF Bridges
  <2>2. PICK i \in Of(ver)[u].members : m = [i EXCEPT !.bridge = TRUE]
    BY <2>1
  <2>3. u \in Sources
    BY LineageIsLeast
  <2>4. "bridge" \in DOMAIN i
    BY <2>3, TextType
  <2> QED BY <2>2, <2>4
<1> QED BY <1>1, <1>2, <1>3, <1>4
-----------------------------------------------------------------------------
(* Whose class file stays what it was, from texts `old` to texts `new`.    *)

\* Others see the same of s.
Same(s, old, new) ==
  /\ Supers(s, old[s]) = Supers(s, new[s])
  /\ old[s] = 0 <=> new[s] = 0
  /\ old[s] # 0 => Content[s][old[s]].header = Content[s][new[s]].header
  /\ Of(old)[s].members = Of(new)[s].members

\* And what leaves no reference behind is the same.
Fixed(s, old, new) ==
  /\ old[s] = 0 <=> new[s] = 0
  /\ old[s] # 0 => /\ Content[s][old[s]].consts = Content[s][new[s]].consts
                   /\ Content[s][old[s]].tops = Content[s][new[s]].tops

LEMMA SameLineage ==
  ASSUME NEW old, NEW new, Known(old), Known(new), NEW s \in Sources,
         \A u \in Lineage(s, Of(new)) : Supers(u, old[u]) = Supers(u, new[u])
  PROVE  Lineage(s, Of(old)) = Lineage(s, Of(new))
<1>1. PICK A : A = Lineage(s, Of(old))
  OBVIOUS
<1>2. PICK B : B = Lineage(s, Of(new))
  OBVIOUS
<1>3. /\ s \in A /\ A \subseteq Sources
      /\ \A u \in A : Supers(u, old[u]) \subseteq A
      /\ \A Y \in SUBSET Sources : s \in Y /\ (\A u \in Y : Supers(u, old[u]) \subseteq Y) => A \subseteq Y
  BY <1>1, LineageIsLeast
<1>4. /\ s \in B /\ B \subseteq Sources
      /\ \A u \in B : Supers(u, new[u]) \subseteq B
      /\ \A Y \in SUBSET Sources : s \in Y /\ (\A u \in Y : Supers(u, new[u]) \subseteq Y) => B \subseteq Y
  BY <1>2, LineageIsLeast
<1>5. A \subseteq B
  <2>1. \A u \in B : Supers(u, old[u]) \subseteq B
    BY <1>2, <1>4
  <2> QED BY <1>3, <1>4, <2>1
<1>6. B \subseteq A
  <2>1. \A u \in A : Supers(u, new[u]) = Supers(u, old[u])
    BY <1>2, <1>5
  <2>2. \A u \in A : Supers(u, new[u]) \subseteq A
    BY <1>3, <2>1
  <2> QED BY <1>3, <1>4, <2>2
<1> QED BY <1>1, <1>2, <1>5, <1>6

LEMMA SameAbove ==
  ASSUME NEW old, NEW new, Known(old), Known(new), NEW s \in Sources,
         \A u \in Lineage(s, Of(new)) : Same(u, old, new)
  PROVE  /\ Lineage(s, Of(old)) = Lineage(s, Of(new))
         /\ Inherited(s, Of(old)) = Inherited(s, Of(new))
<1>1. Lineage(s, Of(old)) = Lineage(s, Of(new))
  BY SameLineage DEF Same
<1>2. \A u \in Lineage(s, Of(new)) : Of(old)[u].members = Of(new)[u].members
  BY DEF Same
<1> QED BY <1>1, <1>2 DEF Inherited

LEMMA SameHeaders ==
  ASSUME NEW old, NEW new, Known(old), Known(new), NEW s \in Sources,
         Lineage(s, Of(old)) = Lineage(s, Of(new)),
         \A u \in Lineage(s, Of(new)) : /\ old[u] = 0 <=> new[u] = 0
                                        /\ old[u] # 0 => Content[u][old[u]].header = Content[u][new[u]].header
  PROVE  {<<x, IF Of(old)[x].of = 0 THEN 0 ELSE Content[x][Of(old)[x].of].header>> : x \in Lineage(s, Of(old))}
           = {<<x, IF Of(new)[x].of = 0 THEN 0 ELSE Content[x][Of(new)[x].of].header>> : x \in Lineage(s, Of(new))}
<1>1. PICK L : L = Lineage(s, Of(new)) /\ L \subseteq Sources
  BY LineageIsLeast
<1>2. ASSUME NEW x \in L
      PROVE  (IF Of(old)[x].of = 0 THEN 0 ELSE Content[x][Of(old)[x].of].header)
               = (IF Of(new)[x].of = 0 THEN 0 ELSE Content[x][Of(new)[x].of].header)
  <2>1. Of(old)[x].of = old[x] /\ Of(new)[x].of = new[x]
    BY <1>1, TextType
  <2>2. /\ old[x] = 0 <=> new[x] = 0
        /\ old[x] # 0 => Content[x][old[x]].header = Content[x][new[x]].header
    BY <1>1
  <2> QED BY <2>1, <2>2
<1> QED BY <1>1, <1>2

LEMMA SeesSame ==
  ASSUME NEW old, NEW new, Known(old), Known(new), NEW s \in Sources, old[s] = new[s],
         NEW u \in Sources, \A x \in Lineage(u, Of(new)) : Same(x, old, new)
  PROVE  Sees(s, u, Of(old)) = Sees(s, u, Of(new))
<1>1. Lineage(u, Of(old)) = Lineage(u, Of(new)) /\ Inherited(u, Of(old)) = Inherited(u, Of(new))
  BY SameAbove
<1>2. {<<x, IF Of(old)[x].of = 0 THEN 0 ELSE Content[x][Of(old)[x].of].header>> : x \in Lineage(u, Of(old))}
        = {<<x, IF Of(new)[x].of = 0 THEN 0 ELSE Content[x][Of(new)[x].of].header>> : x \in Lineage(u, Of(new))}
  BY <1>1, SameHeaders DEF Same
<1>3. Of(old)[s].of = Of(new)[s].of
  BY TextType
<1> QED BY <1>1, <1>2, <1>3 DEF Sees

LEMMA ClassSame ==
  ASSUME NEW old, NEW new, Known(old), Known(new), NEW s \in Sources, old[s] = new[s], new[s] # 0,
         \A x \in Sources : Fixed(x, old, new),
         \A u \in Uses(s, new[s]) : Sees(s, u, Of(old)) = Sees(s, u, Of(new)),
         Bridges(s, Of(old)) = Bridges(s, Of(new)), NEW set
  PROVE  Compiled(s, old, set) = Compiled(s, new, set)
<1>1. PICK v : v = new[s] /\ v = old[s] /\ v \in DOMAIN Content[s]
  BY DEF Known
<1>2. Of(old)[s].of = v /\ Of(new)[s].of = v
  BY <1>1, TextType
<1>3. {Sees(s, u, Of(old)) : u \in Content[s][v].supers \cup Content[s][v].refs}
        = {Sees(s, u, Of(new)) : u \in Content[s][v].supers \cup Content[s][v].refs}
  BY <1>1 DEF Uses
<1>4. \A x \in Sources : Of(old)[x].of = old[x] /\ Of(new)[x].of = new[x]
  BY TextType
<1>5. {<<u, IF Of(old)[u].of = 0 THEN 0 ELSE Content[u][Of(old)[u].of].consts>> : u \in Content[s][v].inlines}
        = {<<u, IF Of(new)[u].of = 0 THEN 0 ELSE Content[u][Of(new)[u].of].consts>> : u \in Content[s][v].inlines}
  <2>1. Content[s][v].inlines \subseteq Sources
    BY <1>1, TextAssumption
  <2>2. ASSUME NEW u \in Sources
        PROVE  (IF Of(old)[u].of = 0 THEN 0 ELSE Content[u][Of(old)[u].of].consts)
                 = (IF Of(new)[u].of = 0 THEN 0 ELSE Content[u][Of(new)[u].of].consts)
    BY <1>4 DEF Fixed
  <2> QED BY <2>1, <2>2
<1>6. Declared(Of(old)) = Declared(Of(new))
  <2>1. {x \in Sources : Of(old)[x].of # 0} = {x \in Sources : Of(new)[x].of # 0}
    BY <1>4 DEF Fixed
  <2>2. ASSUME NEW x \in Sources, Of(new)[x].of # 0
        PROVE  Content[x][Of(old)[x].of].tops = Content[x][Of(new)[x].of].tops
    BY <1>4, <2>2 DEF Fixed
  <2> QED BY <2>1, <2>2 DEF Declared
<1> QED BY <1>1, <1>2, <1>3, <1>5, <1>6 DEF Compiled, ClassOf
-----------------------------------------------------------------------------
(* What one round reaches.                                                 *)

\* A round compiled the sources `first`, whose texts were `old` and are `new`,
\* and the index `is` was made of the one `was`.
Round(old, new, first, was, is) ==
  /\ Known(old) /\ Known(new) /\ Present(old) = Present(new)
  /\ first \subseteq Present(new) /\ \A s \in Present(new) \ first : old[s] = new[s]
  /\ DOMAIN is = Present(new)
  /\ \A s \in Present(new) :
       /\ was[s].of = old[s]
       /\ was[s].members = Of(old)[s].members \cup Bridges(s, Of(old))
       /\ is[s].of = new[s]
       /\ s \in first => is[s].members = Of(new)[s].members \cup Bridges(s, Of(new))
       /\ is[s].deps = Uses(s, new[s]) \cap Present(new)

LEMMA PresentIs ==
  ASSUME NEW old, NEW new, Known(old), Known(new), Present(old) = Present(new), NEW s \in Sources
  PROVE  /\ old[s] = 0 <=> new[s] = 0
         /\ s \in Present(new) <=> new[s] # 0
BY DEF Present

LEMMA RoundFixes ==
  ASSUME NEW old, NEW new, NEW first, NEW was, NEW is,
         Round(old, new, first, was, is), SafeToCompare(was, is, first),
         NEW s \in Sources
  PROVE  Fixed(s, old, new)
<1>1. /\ old[s] = 0 <=> new[s] = 0
      /\ s \in Present(new) <=> new[s] # 0
  BY PresentIs DEF Round
<1>2. CASE s \in first
  <2>1. s \in Present(new) /\ was[s].of = old[s] /\ is[s].of = new[s] /\ old[s] # 0 /\ new[s] # 0
    BY <1>1, <1>2 DEF Round
  <2>2. /\ TopLevels(s, was[s]) = TopLevels(s, is[s])
        /\ Consts(s, was[s]) = Consts(s, is[s])
    BY <1>2 DEF SafeToCompare
  <2>3. {s} \cup Content[s][old[s]].tops = {s} \cup Content[s][new[s]].tops
    BY <2>1, <2>2 DEF TopLevels
  <2>4. s \notin Content[s][old[s]].tops /\ s \notin Content[s][new[s]].tops
    <3>1. old[s] \in DOMAIN Content[s] /\ new[s] \in DOMAIN Content[s]
      BY <2>1 DEF Round, Known
    <3> QED BY <3>1, TextAssumption
  <2>5. Content[s][old[s]].tops = Content[s][new[s]].tops
    <3>1. PICK A, B : A = Content[s][old[s]].tops /\ B = Content[s][new[s]].tops
      OBVIOUS
    <3>2. {s} \cup A = {s} \cup B /\ s \notin A /\ s \notin B
      BY <2>3, <2>4, <3>1
    <3>3. \A x : x \in A <=> x \in B
      BY <3>2
    <3>4. A = B
      BY <3>3
    <3> QED BY <3>1, <3>4
  <2>6. Content[s][old[s]].consts = Content[s][new[s]].consts
    BY <2>1, <2>2 DEF Consts
  <2> QED BY <1>1, <2>5, <2>6 DEF Fixed
<1>3. CASE s \notin first
  <2>1. old[s] = new[s]
    BY <1>1, <1>3 DEF Round
  <2> QED BY <2>1 DEF Fixed
<1> QED BY <1>2, <1>3

\* The same header has the same supertypes.
LEMMA HeaderHasSupers ==
  ASSUME NEW old, NEW new, Known(old), Known(new), NEW s \in Sources, old[s] # 0, new[s] # 0,
         Content[s][old[s]].header = Content[s][new[s]].header
  PROVE  Supers(s, old[s]) = Supers(s, new[s])
<1>1. old[s] \in DOMAIN Content[s] /\ new[s] \in DOMAIN Content[s]
  BY DEF Known
<1>2. Content[s][old[s]].supers = Content[s][new[s]].supers
  BY <1>1, TextAssumption
<1> QED BY <1>2 DEF Supers

\* What the round did not move others see as it was; what it did not break
\* has its header, and every member it had.
LEMMA RoundMoves ==
  ASSUME NEW old, NEW new, NEW first, NEW was, NEW is,
         Round(old, new, first, was, is), NEW s \in Sources,
         NEW changes, changes = ChangesOf(was, is, first)
  PROVE  /\ s \notin changes.added \cup changes.broken => Same(s, old, new)
         /\ s \notin changes.broken =>
              /\ Supers(s, old[s]) = Supers(s, new[s])
              /\ old[s] = 0 <=> new[s] = 0
              /\ old[s] # 0 => Content[s][old[s]].header = Content[s][new[s]].header
              /\ Of(old)[s].members \subseteq Of(new)[s].members
              /\ \A m \in Of(new)[s].members \ Of(old)[s].members :
                   IF m.plain THEN m.name \in changes.methods ELSE changes.wide
<1>1. /\ old[s] = 0 <=> new[s] = 0
      /\ s \in Present(new) <=> new[s] # 0
  BY PresentIs DEF Round
<1>2. CASE s \notin first
  <2>1. old[s] = new[s]
    BY <1>1, <1>2 DEF Round
  <2>2. Of(old)[s].members = Of(new)[s].members
    BY <2>1 DEF Of
  <2> QED BY <2>1, <2>2 DEF Same
<1>3. CASE s \in first
  <2>1. /\ s \in Present(new) /\ was[s].of = old[s] /\ is[s].of = new[s] /\ old[s] # 0 /\ new[s] # 0
        /\ was[s].members = Of(old)[s].members \cup Bridges(s, Of(old))
        /\ is[s].members = Of(new)[s].members \cup Bridges(s, Of(new))
    BY <1>1, <1>3 DEF Round
  <2>2. /\ {m \in was[s].members : ~m.bridge} = Of(old)[s].members
        /\ {m \in is[s].members : ~m.bridge} = Of(new)[s].members
    <3>1. /\ {m \in Compiled(s, old, 0).members : ~m.bridge} = Of(old)[s].members
          /\ Compiled(s, old, 0).members = Of(old)[s].members \cup Bridges(s, Of(old))
      BY <2>1, PlainMembers DEF Round
    <3>2. /\ {m \in Compiled(s, new, 0).members : ~m.bridge} = Of(new)[s].members
          /\ Compiled(s, new, 0).members = Of(new)[s].members \cup Bridges(s, Of(new))
      BY <2>1, PlainMembers DEF Round
    <3> QED BY <2>1, <3>1, <3>2
  <2> DEFINE moved == {x \in first : \/ was[x].members # is[x].members
                                     \/ Header(x, was[x]) # Header(x, is[x])}
             added == {x \in moved : OnlyAddsTo(x, was[x], is[x])}
             gained == UNION {is[x].members \ was[x].members : x \in added}
  <2>3. /\ changes.added = added /\ changes.broken = moved \ added
        /\ changes.methods = {m.name : m \in {g \in gained : g.plain}}
        /\ changes.wide = \E m \in gained : ~m.plain
    BY DEF ChangesOf
  <2>4. CASE s \notin moved
    <3>1. was[s].members = is[s].members /\ Header(s, was[s]) = Header(s, is[s])
      BY <1>3, <2>4
    <3>2. Of(old)[s].members = Of(new)[s].members
      BY <2>2, <3>1
    <3>3. Content[s][old[s]].header = Content[s][new[s]].header
      BY <2>1, <3>1 DEF Header
    <3>4. Supers(s, old[s]) = Supers(s, new[s])
      BY <2>1, <3>3, HeaderHasSupers DEF Round
    <3> QED BY <1>1, <3>2, <3>3, <3>4 DEF Same
  <2>5. CASE s \in added
    <3>1. Header(s, was[s]) = Header(s, is[s]) /\ was[s].members \subseteq is[s].members
      BY <2>5 DEF OnlyAddsTo
    <3>2. Of(old)[s].members \subseteq Of(new)[s].members
      BY <2>2, <3>1
    <3>3. Content[s][old[s]].header = Content[s][new[s]].header
      BY <2>1, <3>1 DEF Header
    <3>4. Supers(s, old[s]) = Supers(s, new[s])
      BY <2>1, <3>3, HeaderHasSupers DEF Round
    <3>5. ASSUME NEW m \in Of(new)[s].members \ Of(old)[s].members
          PROVE  IF m.plain THEN m.name \in changes.methods ELSE changes.wide
      <4>1. m \in is[s].members \ was[s].members
        BY <2>2
      <4>2. m \in gained
        BY <2>5, <4>1
      <4> QED BY <2>3, <4>2
    <3>6. s \in changes.added
      BY <2>3, <2>5
    <3> QED BY <1>1, <3>2, <3>3, <3>4, <3>5, <3>6
  <2>6. CASE s \in moved \ added
    BY <2>3, <2>6
  <2> QED BY <2>4, <2>5, <2>6
<1> QED BY <1>2, <1>3
-----------------------------------------------------------------------------
(* Whom a round does not reach.                                            *)

\* J holds all that inherit from what it holds.
HoldsHeirs(J, ver) ==
  J \in SUBSET Sources /\ \A s \in Sources : Supers(s, ver[s]) \cap J # {} => s \in J

LEMMA SubtypesHoldHeirs ==
  ASSUME NEW new, Known(new), NEW is, DOMAIN is = Present(new),
         \A s \in Present(new) : is[s].of = new[s],
         NEW X \in SUBSET Present(new)
  PROVE  /\ X \subseteq Subtypes(is, X) /\ Subtypes(is, X) \subseteq Present(new)
         /\ HoldsHeirs(Subtypes(is, X), new)
<1>1. PICK next : next = [u \in Sources |-> {s \in DOMAIN is : u \in Supers(s, is[s].of)}]
  OBVIOUS
<1>2. Present(new) \subseteq Sources
  BY DEF Present
<1>3. \A u \in Sources : next[u] = {s \in Present(new) : u \in Supers(s, new[s])}
  BY <1>1
<1>4. next \in [Sources -> SUBSET Sources]
  BY <1>1, <1>2
<1>5. PICK J : J = Subtypes(is, X) /\ J = Closure(X, next)
  BY <1>1 DEF Subtypes
<1>6. /\ X \subseteq J /\ J \subseteq Sources /\ \A u \in J : next[u] \subseteq J
      /\ \A Y \in SUBSET Sources : X \subseteq Y /\ (\A u \in Y : next[u] \subseteq Y) => J \subseteq Y
  BY <1>2, <1>4, <1>5, ClosureIsLeast
<1>7. J \subseteq Present(new)
  BY <1>2, <1>3, <1>6
<1>8. ASSUME NEW s \in Sources, Supers(s, new[s]) \cap J # {} PROVE s \in J
  <2>1. PICK u \in J : u \in Supers(s, new[s])
    BY <1>8
  <2>2. s \in Present(new)
    BY <2>1 DEF Supers, Present
  <2> QED BY <1>3, <1>6, <2>1, <2>2
<1> QED BY <1>5, <1>6, <1>7, <1>8 DEF HoldsHeirs

\* Nothing J holds is above what it does not hold.
LEMMA AboveOthers ==
  ASSUME NEW new, Known(new), NEW J, HoldsHeirs(J, new), NEW s \in Sources
  PROVE  /\ s \notin J => Lineage(s, Of(new)) \subseteq Sources \ J
         /\ Supers(s, new[s]) \cap J = {} => Lineage(s, Of(new)) \subseteq {s} \cup (Sources \ J)
<1>1. PICK L : L = Lineage(s, Of(new))
  OBVIOUS
<1>2. \A Y \in SUBSET Sources :
        s \in Y /\ (\A u \in Y : Supers(u, new[u]) \subseteq Y) => L \subseteq Y
  BY <1>1, LineageIsLeast
<1>3. \A u \in Sources : Supers(u, new[u]) \subseteq Sources
  BY TextType
<1>4. \A u \in Sources \ J : Supers(u, new[u]) \subseteq Sources \ J
  BY <1>3 DEF HoldsHeirs
<1>5. ASSUME s \notin J PROVE L \subseteq Sources \ J
  BY <1>2, <1>4, <1>5
<1>6. ASSUME Supers(s, new[s]) \cap J = {} PROVE L \subseteq {s} \cup (Sources \ J)
  <2>1. PICK Y : Y = {s} \cup (Sources \ J)
    OBVIOUS
  <2>2. ASSUME NEW u \in Y PROVE Supers(u, new[u]) \subseteq Y
    BY <1>3, <1>4, <1>6, <2>1
  <2>3. Y \in SUBSET Sources /\ s \in Y
    BY <2>1
  <2> QED BY <1>2, <2>1, <2>2, <2>3
<1> QED BY <1>1, <1>5, <1>6

\* No bridge of s changes when nothing above s did.
LEMMA SameBridges ==
  ASSUME NEW old, NEW new, Known(old), Known(new), NEW s \in Sources, old[s] = new[s],
         \A x \in Lineage(s, Of(new)) \ {s} : Same(x, old, new)
  PROVE  Bridges(s, Of(old)) = Bridges(s, Of(new))
<1>1. \A x \in Lineage(s, Of(new)) : Supers(x, old[x]) = Supers(x, new[x])
  BY DEF Same
<1>2. Lineage(s, Of(old)) = Lineage(s, Of(new))
  BY <1>1, SameLineage
<1>3. \A x \in Lineage(s, Of(new)) \ {s} : Of(old)[x].members = Of(new)[x].members
  BY DEF Same
<1>4. UNION {Of(old)[u].members : u \in Lineage(s, Of(old)) \ {s}}
        = UNION {Of(new)[u].members : u \in Lineage(s, Of(new)) \ {s}}
  BY <1>2, <1>3
<1>5. Of(old)[s].of = Of(new)[s].of
  BY TextType
<1> QED BY <1>4, <1>5 DEF Bridges

\* A source that uses none of what moved, nor of what inherits from it.
LEMMA Apart ==
  ASSUME NEW old, NEW new, NEW first, NEW was, NEW is,
         Round(old, new, first, was, is), SafeToCompare(was, is, first),
         NEW changes, changes = ChangesOf(was, is, first),
         NEW J, HoldsHeirs(J, new), changes.added \cup changes.broken \subseteq J,
         NEW s \in Present(new) \ first, Uses(s, new[s]) \cap J = {}, NEW set
  PROVE  Compiled(s, old, set) = Compiled(s, new, set)
<1>1. /\ Known(old) /\ Known(new) /\ s \in Sources /\ old[s] = new[s] /\ new[s] # 0
      /\ Supers(s, new[s]) \subseteq Uses(s, new[s]) /\ Uses(s, new[s]) \subseteq Sources
  BY TextType DEF Round, Present
<1>2. ASSUME NEW x \in Sources \ J PROVE Same(x, old, new)
  BY <1>2, RoundMoves
<1>3. ASSUME NEW u \in Uses(s, new[s]) PROVE Sees(s, u, Of(old)) = Sees(s, u, Of(new))
  <2>1. u \in Sources \ J
    BY <1>1
  <2>2. Lineage(u, Of(new)) \subseteq Sources \ J
    BY <1>1, <2>1, AboveOthers
  <2>3. \A x \in Lineage(u, Of(new)) : Same(x, old, new)
    BY <1>2, <2>2
  <2> QED BY <1>1, <2>1, <2>3, SeesSame
<1>4. Bridges(s, Of(old)) = Bridges(s, Of(new))
  <2>1. Supers(s, new[s]) \cap J = {}
    BY <1>1
  <2>2. Lineage(s, Of(new)) \subseteq {s} \cup (Sources \ J)
    BY <1>1, <2>1, AboveOthers
  <2>3. \A x \in Lineage(s, Of(new)) \ {s} : Same(x, old, new)
    BY <1>2, <2>2
  <2> QED BY <1>1, <2>3, SameBridges
<1>5. \A x \in Sources : Fixed(x, old, new)
  BY RoundFixes
<1> QED BY <1>1, <1>3, <1>4, <1>5, ClassSame

\* A source that uses what only gained methods with bodies, without a call of
\* their names or a supertype among them.
LEMMA Unfelt ==
  ASSUME NEW old, NEW new, NEW first, NEW was, NEW is,
         Round(old, new, first, was, is), SafeToCompare(was, is, first),
         NEW changes, changes = ChangesOf(was, is, first), changes.broken = {}, ~changes.wide,
         NEW J, HoldsHeirs(J, new), changes.added \subseteq J,
         NEW s \in Present(new) \ first, Supers(s, new[s]) \cap J = {},
         Content[s][new[s]].calls \cap changes.methods = {}, NEW set
  PROVE  Compiled(s, old, set) = Compiled(s, new, set)
<1>1. /\ Known(old) /\ Known(new) /\ s \in Sources /\ old[s] = new[s] /\ new[s] # 0
      /\ Supers(s, new[s]) = Content[s][new[s]].supers /\ Uses(s, new[s]) \subseteq Sources
  BY TextType DEF Round, Present, Supers
<1>2. ASSUME NEW x \in Sources \ J PROVE Same(x, old, new)
  BY <1>2, RoundMoves
<1>3. ASSUME NEW x \in Sources
      PROVE  /\ Supers(x, old[x]) = Supers(x, new[x])
             /\ old[x] = 0 <=> new[x] = 0
             /\ old[x] # 0 => Content[x][old[x]].header = Content[x][new[x]].header
             /\ Of(old)[x].members \subseteq Of(new)[x].members
             /\ \A m \in Of(new)[x].members \ Of(old)[x].members :
                  m.plain /\ m.name \in changes.methods
  BY <1>3, RoundMoves
<1>4. ASSUME NEW u \in Uses(s, new[s]) PROVE Sees(s, u, Of(old)) = Sees(s, u, Of(new))
  <2>1. u \in Sources
    BY <1>1
  <2>2. PICK L : L = Lineage(u, Of(new)) /\ L \subseteq Sources
    BY <1>1, <2>1, LineageIsLeast
  <2>3. Lineage(u, Of(old)) = L
    BY <1>1, <1>3, <2>1, <2>2, SameLineage
  <2>4. {<<x, IF Of(old)[x].of = 0 THEN 0 ELSE Content[x][Of(old)[x].of].header>> : x \in Lineage(u, Of(old))}
          = {<<x, IF Of(new)[x].of = 0 THEN 0 ELSE Content[x][Of(new)[x].of].header>> : x \in Lineage(u, Of(new))}
    BY <1>1, <1>3, <2>1, <2>2, <2>3, SameHeaders
  <2>5. PICK v : v = new[s] /\ Of(old)[s].of = v /\ Of(new)[s].of = v
    BY <1>1, TextType
  <2>6. CASE u \in J
    <3>1. u \notin Content[s][v].supers
      BY <1>1, <2>5, <2>6
    <3>2. ASSUME NEW m
          PROVE  m \in {i \in Inherited(u, Of(old)) : u \in Content[s][v].supers \/ ~i.plain \/ i.name \in Content[s][v].calls}
                  <=> m \in {i \in Inherited(u, Of(new)) : u \in Content[s][v].supers \/ ~i.plain \/ i.name \in Content[s][v].calls}
      <4>1. m \in Inherited(u, Of(old)) => m \in Inherited(u, Of(new))
        BY <1>3, <2>2, <2>3 DEF Inherited
      <4>2. ASSUME m \in Inherited(u, Of(new)), m \notin Inherited(u, Of(old))
            PROVE  m.plain /\ m.name \notin Content[s][v].calls
        <5>1. PICK x \in L : m \in Of(new)[x].members
          BY <2>2, <4>2 DEF Inherited
        <5>2. m \notin Of(old)[x].members
          BY <2>3, <4>2, <5>1 DEF Inherited
        <5>3. m.plain /\ m.name \in changes.methods
          BY <1>3, <2>2, <5>1, <5>2
        <5> QED BY <2>5, <5>3
      <4> QED BY <3>1, <4>1, <4>2
    <3>3. {i \in Inherited(u, Of(old)) : u \in Content[s][v].supers \/ ~i.plain \/ i.name \in Content[s][v].calls}
            = {i \in Inherited(u, Of(new)) : u \in Content[s][v].supers \/ ~i.plain \/ i.name \in Content[s][v].calls}
      BY <3>2
    <3> QED BY <2>4, <2>5, <3>3 DEF Sees
  <2>7. CASE u \notin J
    <3>1. Lineage(u, Of(new)) \subseteq Sources \ J
      BY <1>1, <2>1, <2>7, AboveOthers
    <3>2. \A x \in Lineage(u, Of(new)) : Same(x, old, new)
      BY <1>2, <3>1
    <3> QED BY <1>1, <2>1, <3>2, SeesSame
  <2> QED BY <2>6, <2>7
<1>5. Bridges(s, Of(old)) = Bridges(s, Of(new))
  <2>1. Lineage(s, Of(new)) \subseteq {s} \cup (Sources \ J)
    BY <1>1, AboveOthers
  <2>2. \A x \in Lineage(s, Of(new)) \ {s} : Same(x, old, new)
    BY <1>2, <2>1
  <2> QED BY <1>1, <2>2, SameBridges
<1>6. \A x \in Sources : Fixed(x, old, new)
  BY RoundFixes
<1> QED BY <1>1, <1>4, <1>5, <1>6, ClassSame

LEMMA ChangesAre ==
  ASSUME NEW was, NEW is, NEW first, NEW changes, changes = ChangesOf(was, is, first)
  PROVE  changes.added \subseteq first /\ changes.broken \subseteq first
BY DEF ChangesOf

\* A round whose changes are taken as far as they go reaches every source
\* that a whole build would compile to another class file.
LEMMA DependentsSuffice ==
  ASSUME NEW old, NEW new, NEW first, NEW was, NEW is,
         Round(old, new, first, was, is), SafeToCompare(was, is, first),
         NEW changes, changes = ChangesOf(was, is, first),
         NEW s \in Present(new) \ first,
         s \notin Dependents(is, Subtypes(is, changes.added \cup changes.broken), first), NEW set
  PROVE  Compiled(s, old, set) = Compiled(s, new, set)
<1>1. PICK X : X = changes.added \cup changes.broken
  OBVIOUS
<1>2. X \subseteq Present(new) /\ Present(new) \subseteq Sources /\ Known(new) /\ DOMAIN is = Present(new)
      /\ \A u \in Present(new) : is[u].of = new[u] /\ is[u].deps = Uses(u, new[u]) \cap Present(new)
  BY <1>1, ChangesAre DEF Round, Present
<1>3. PICK J : J = Subtypes(is, X)
  OBVIOUS
<1>4. X \subseteq J /\ J \subseteq Present(new) /\ HoldsHeirs(J, new)
  BY <1>2, <1>3, SubtypesHoldHeirs
<1>5. PICK next : next = [u \in Sources |-> DirectUsers(is, {u})]
  OBVIOUS
<1>6. next \in [Sources -> SUBSET Sources]
  BY <1>2, <1>5 DEF DirectUsers
<1>7. J \subseteq Closure(J, next)
  <2>1. J \in SUBSET Sources
    BY <1>2, <1>4
  <2> QED BY <1>6, <2>1, ClosureIsLeast
<1>8. s \notin DirectUsers(is, Closure(J, next))
  BY <1>1, <1>3, <1>5 DEF Dependents
<1>9. Uses(s, new[s]) \cap Present(new) \cap J = {}
  BY <1>2, <1>7, <1>8 DEF DirectUsers
<1>10. Uses(s, new[s]) \cap J = {}
  BY <1>4, <1>9
<1> QED BY <1>1, <1>4, <1>10, Apart

\* So does one that broke nothing and asks only whoever can feel what was
\* gained.
LEMMA UsersOfAdditionSuffice ==
  ASSUME NEW old, NEW new, NEW first, NEW was, NEW is,
         Round(old, new, first, was, is), SafeToCompare(was, is, first),
         NEW changes, changes = ChangesOf(was, is, first), changes.broken = {},
         NEW files, NEW s \in Present(new) \ first, files[s].of = new[s],
         s \notin UsersOfAddition(files, is, DirectUsers(is, Subtypes(is, changes.added)) \ first,
                                  Subtypes(is, changes.added), changes), NEW set
  PROVE  Compiled(s, old, set) = Compiled(s, new, set)
<1>1. changes.added \subseteq Present(new) /\ Present(new) \subseteq Sources /\ Known(new)
      /\ DOMAIN is = Present(new)
      /\ \A u \in Present(new) : is[u].of = new[u] /\ is[u].deps = Uses(u, new[u]) \cap Present(new)
  BY ChangesAre DEF Round, Present
<1>2. PICK J : J = Subtypes(is, changes.added)
  OBVIOUS
<1>3. changes.added \subseteq J /\ J \subseteq Present(new) /\ HoldsHeirs(J, new)
  BY <1>1, <1>2, SubtypesHoldHeirs
<1>4. CASE s \in DirectUsers(is, J) \ first
  <2>1. /\ ~changes.wide /\ changes.methods # {}
        /\ ~FeelsNewMethods(files, is, s, J, changes.methods)
    BY <1>2, <1>4 DEF UsersOfAddition
  <2>2. is[s].of = new[s] /\ new[s] # 0
    BY <1>1 DEF Present
  <2>3. /\ Supers(s, new[s]) \cap J = {}
        /\ Content[s][new[s]].calls \cap changes.methods = {}
    BY <2>1, <2>2 DEF FeelsNewMethods
  <2> QED BY <1>3, <2>1, <2>3, Unfelt
<1>5. CASE s \notin DirectUsers(is, J)
  <2>1. Uses(s, new[s]) \cap J = {}
    BY <1>1, <1>3, <1>5 DEF DirectUsers
  <2>2. changes.added \cup changes.broken \subseteq J
    BY <1>3
  <2> QED BY <1>3, <2>1, <2>2, Apart
<1> QED BY <1>4, <1>5

\* And one that moved nothing others see reaches nobody.
LEMMA NothingMoved ==
  ASSUME NEW old, NEW new, NEW first, NEW was, NEW is,
         Round(old, new, first, was, is), SafeToCompare(was, is, first),
         NEW changes, changes = ChangesOf(was, is, first), changes.added \cup changes.broken = {},
         NEW s \in Present(new) \ first, NEW set
  PROVE  Compiled(s, old, set) = Compiled(s, new, set)
<1>1. HoldsHeirs({}, new)
  BY DEF HoldsHeirs
<1> QED BY <1>1, Apart
-----------------------------------------------------------------------------
(* What javac finds, and what a whole build gives.                         *)

\* What the class file of u shows others when it was compiled in the texts
\* `ver`.
Shown(u, ver) == Of(ver)[u].members \cup Bridges(u, Of(ver))

\* The class file of u is of the text it has in `ver`.
IsOf(u, file, ver) ==
  file.of = ver[u] /\ {m \in file.members : ~m.bridge} = Of(ver)[u].members

LEMMA CompiledIsOf ==
  ASSUME NEW ver, Known(ver), NEW u \in Sources, ver[u] # 0, NEW set
  PROVE  /\ IsOf(u, Compiled(u, ver, set), ver)
         /\ Compiled(u, ver, set).members = Shown(u, ver)
BY PlainMembers DEF IsOf, Shown

LEMMA NoneIsOf ==
  ASSUME NEW ver, NEW u \in Sources, ver[u] = 0
  PROVE  IsOf(u, NoClass, ver)
BY DEF IsOf, NoClass, Of

LEMMA WorldIs ==
  ASSUME NEW ver, Known(ver), NEW X \in SUBSET Present(ver), NEW files,
         \A u \in Sources \ X : IsOf(u, files[u], ver)
  PROVE  World(X, ver, files) = Of(ver)
<1>1. ASSUME NEW u \in Sources
      PROVE  (IF u \in X THEN [of |-> ver[u], members |-> Content[u][ver[u]].members]
              ELSE [of |-> files[u].of, members |-> {m \in files[u].members : ~m.bridge}])
               = [of |-> ver[u], members |-> IF ver[u] = 0 THEN {} ELSE Content[u][ver[u]].members]
  <2>1. CASE u \in X
    <3>1. ver[u] # 0
      BY <2>1 DEF Present
    <3> QED BY <2>1, <3>1
  <2>2. CASE u \notin X
    <3>1. /\ files[u].of = ver[u]
          /\ {m \in files[u].members : ~m.bridge} = IF ver[u] = 0 THEN {} ELSE Content[u][ver[u]].members
      BY <2>2 DEF IsOf, Of
    <3> QED BY <2>2, <3>1
  <2> QED BY <2>1, <2>2
<1> QED BY <1>1 DEF World, Of

LEMMA WholeIs ==
  ASSUME NEW ver, Known(ver), NEW set
  PROVE  /\ World(Present(ver), ver, NoClasses) = Of(ver)
         /\ Whole(ver, set) = [s \in Sources |-> IF ver[s] # 0 THEN Compiled(s, ver, set) ELSE NoClass]
<1>1. World(Present(ver), ver, NoClasses) = Of(ver)
  <2>1. \A u \in Sources \ Present(ver) : IsOf(u, NoClasses[u], ver)
    BY NoneIsOf DEF Present, NoClasses
  <2> QED BY <2>1, WorldIs
<1>2. \A s \in Sources : NoClasses[s] = NoClass /\ (s \in Present(ver) <=> ver[s] # 0)
  BY DEF NoClasses, Present
<1>3. Whole(ver, set) = [s \in Sources |-> IF s \in Present(ver) THEN Compiled(s, ver, set) ELSE NoClasses[s]]
  BY <1>1 DEF Whole, Written, Compiled
<1> QED BY <1>1, <1>2, <1>3

\* Javac rejects in any round what a whole build rejects.
LEMMA FailsWhole ==
  ASSUME NEW ver, Known(ver), NEW X \in SUBSET Present(ver), NEW files,
         World(X, ver, files) = Of(ver), Fails(X, ver, files)
  PROVE  Fails(Present(ver), ver, NoClasses)
BY WholeIs DEF Fails

\* The class files javac writes of a round.
LEMMA WrittenIs ==
  ASSUME NEW X, NEW W, NEW ver, NEW files, NEW set, World(X, ver, files) = Of(ver)
  PROVE  Written(X, W, ver, files, set)
           = [s \in Sources |-> IF s \in W THEN Compiled(s, ver, set) ELSE files[s]]
BY DEF Written, Compiled
-----------------------------------------------------------------------------
(* The invariant.                                                          *)

\* Nothing is saved under a build or deleted, and a build is killed only
\* where it has written nothing but a restored entry.
Undisturbed(t) ==
  /\ t.saves = 0 /\ t.clears = 0
  /\ t.killsAt \subseteq {"look up", "forget", "forget index", "extract", "take stock",
                          "track", "sweep", "store"}

\* Anything may happen to a build, without a build cache and as long as no
\* edit brings back an earlier text.
Forward(t) == ~t.exact /\ ~t.cache /\ ~t.reverts

\* The texts an index is of, as Known wants them.
TextsOf(entries) == [s \in Sources |-> IF s \in DOMAIN entries THEN entries[s].of ELSE 0]

EntryFields == {"hash", "of", "members", "deps"}

\* An index says of each source what its class showed in the texts it is of.
Described(entries) ==
  /\ DOMAIN entries \subseteq Sources /\ Known(TextsOf(entries))
  /\ \A u \in DOMAIN entries :
       /\ DOMAIN entries[u] = EntryFields
       /\ entries[u].of # 0 /\ entries[u].hash \in {0, entries[u].of}
       /\ entries[u].members = Shown(u, TextsOf(entries))
       /\ entries[u].deps = Uses(u, entries[u].of) \cap DOMAIN entries

\* And the class files of the sources that need not be compiled again are as
\* they were compiled in those texts.
Filed(entries, files, set) ==
  /\ Described(entries)
  /\ \A u \in DOMAIN entries : entries[u].hash # 0 => files[u] = Compiled(u, TextsOf(entries), set)
  /\ \A u \in Sources \ DOMAIN entries : files[u] = NoClass

JobFields == {"at", "unit", "key", "restored", "saved", "cur", "prev", "before", "after",
              "round", "compiled", "rounds"}
Cached == {"look up", "forget", "forget index", "extract", "take stock", "store"}
RoundSteps == {"javac", "record", "reach", "save"}
Steps == Cached \cup RoundSteps
           \cup {"track", "sweep", "clear", "create", "javac all", "index all", "stamp"}

\* What was built last, what is cached, and what a job started from.
EndRight ==
  /\ last.result = "ok" => out = Whole(src, settings)
  /\ last.result = "failed" => Fails(Present(src), src, NoClasses)
  /\ ~At("idle") => last = NoEnd
CacheRight ==
  \A key \in DOMAIN cache : \E ver, set : key = <<set, ver>> /\ cache[key] = Whole(ver, set)
JobRight ==
  ~At("idle") =>
    /\ DOMAIN job = JobFields /\ job.at \in Steps
    /\ job.unit = Present(src) /\ job.cur = src /\ job.saved = FALSE
    /\ job.at \in Cached => trial.cache
    /\ trial.cache /\ job.at # "look up" => job.key = Key
    /\ job.at \in {"forget", "forget index", "extract"} => job.key \in DOMAIN cache
    /\ job.at \in {"look up", "track", "sweep"} => job.rounds = 0

\* The index and the fingerprint describe the class files, wherever a build
\* can leave them as they are.
IndexRight ==
  /\ job.at \in {"idle", "look up", "forget", "forget index", "track", "sweep", "store"} =>
       \/ index = NoIndex /\ print = NoPrint
       \/ /\ index.settings \in Nat \ {0} /\ Filed(index.of, out, index.settings)
          /\ print # NoPrint => print[1] = index.settings
  /\ job.at = "forget index" => print = NoPrint
  /\ job.at \in {"extract", "take stock"} => index = NoIndex /\ print = NoPrint
  /\ job.at = "stamp" => index.settings = settings /\ Filed(index.of, out, settings)
  /\ job.at = "sweep" => job.prev = <<>> \/ (job.prev = index.of /\ settings = index.settings)
OnSources(files) == files = [s \in Sources |-> files[s]]
OutRight ==
  /\ OnSources(out)
  /\ job.at \in {"take stock", "index all", "save", "stamp", "store"} => out = Whole(src, settings)
  /\ job.at \in {"create", "javac all"} => out = NoClasses
  /\ job.at = "javac all" => job.round = Present(src)

\* A round's sources are compiled in the texts as they are; the others still
\* in the earlier texts until the first round is over, and in the texts as
\* they are from then on.
First == {s \in job.unit : job.prev[s].hash # src[s]}
FirstRound == job.rounds = IF At("javac") THEN 0 ELSE 1
Against == IF FirstRound THEN TextsOf(job.prev) ELSE src
Moved(u) == \/ Shown(u, TextsOf(job.prev)) # Shown(u, src)
            \/ Content[u][job.prev[u].of].header # Content[u][src[u]].header
Entered(e, u, ver) ==
  /\ DOMAIN e = EntryFields
  /\ e.of = src[u] /\ e.members = Shown(u, ver) /\ e.deps = Uses(u, src[u]) \cap Present(src)
RoundRight ==
  job.at \in RoundSteps =>
    /\ Described(job.prev) /\ DOMAIN job.prev = Present(src) /\ job.rounds \in Nat
    /\ First \subseteq job.compiled /\ job.compiled \subseteq Present(src) /\ job.round \subseteq job.compiled
    /\ job.compiled = First \/ \E u \in First : Moved(u)
    /\ \A u \in Present(src) \ job.compiled : out[u] = Compiled(u, TextsOf(job.prev), settings)
    /\ \A u \in Sources \ Present(src) : out[u] = NoClass
FilesRight ==
  /\ job.at \in {"javac", "record", "reach"} =>
       \A u \in Present(src) \ job.round : out[u] = Compiled(u, Against, settings)
  /\ job.at \in {"record", "reach"} =>
       job.rounds # 0 /\ \A u \in job.round : out[u] = Compiled(u, src, settings)
  /\ job.at \in {"javac", "record", "reach"} =>
       IF FirstRound THEN job.round = First /\ job.compiled = First ELSE \E u \in First : Moved(u)
AfterRight ==
  /\ job.at \in {"javac", "record"} =>
       \A u \in Present(src) \ job.round : Entered(job.after[u], u, Against)
  /\ job.at \in {"javac", "record"} /\ FirstRound => job.after = job.prev
  /\ job.at = "reach" /\ FirstRound => job.before = job.prev
  /\ job.at \in {"reach", "save"} =>
       /\ DOMAIN job.after = Present(src)
       /\ \A u \in Present(src) : job.after[u].hash = src[u]
  /\ job.at = "reach" =>
       \A u \in Present(src) : Entered(job.after[u], u, IF u \in job.round THEN src ELSE Against)
  /\ job.at = "save" => \A u \in Present(src) : Entered(job.after[u], u, src)

Right ==
  /\ Known(src) /\ Present(src) # {} /\ settings \in Nat \ {0}
  /\ EndRight /\ CacheRight /\ JobRight /\ IndexRight /\ OutRight
  /\ RoundRight /\ FilesRight /\ AfterRight

\* No hash an index holds is of a later text than the source has; one that is
\* of the text it has now is of the class file too.
Dated(hash, s) ==
  hash \in Nat /\ hash <= src[s] /\ (hash = 0 \/ hash < src[s] \/ out[s].of \in {0, hash})
Dates(entries, unit) == DOMAIN entries = unit /\ \A s \in unit : "hash" \in DOMAIN entries[s]
OnDisk ==
  /\ src \in [Sources -> Nat] /\ cache = <<>>
  /\ \A s \in Sources : out[s].of \in Nat /\ out[s].of <= src[s]
  /\ DOMAIN index.of \subseteq Sources /\ Dates(index.of, DOMAIN index.of)
  /\ \A s \in DOMAIN index.of : Dated(index.of[s].hash, s)
OnJob ==
  ~At("idle") =>
    /\ DOMAIN job = JobFields /\ job.at \in Steps \ Cached /\ job.unit \subseteq Sources
    /\ \A s \in job.unit : job.cur[s] \in Nat /\ job.cur[s] <= src[s]
    /\ job.at \notin {"track", "sweep", "clear"} => \A s \in job.unit : Dated(job.cur[s], s)
    /\ job.at = "sweep" => job.prev = <<>> \/ job.prev = index.of
    /\ job.at \in RoundSteps =>
         Dates(job.prev, job.unit) /\ \A s \in job.unit \ job.compiled : job.prev[s].hash = job.cur[s]
    /\ job.at \in {"javac", "record", "reach", "javac all"} => job.round \subseteq job.unit
    /\ job.at \in {"reach", "save"} =>
         Dates(job.after, job.unit) /\ \A s \in job.unit : job.after[s].hash = job.cur[s]
Onward == OnDisk /\ OnJob

\* What the theorems suppose of the trials, and what every state then is.
KindsOfTrials == \A t \in Trials : Undisturbed(t) \/ Forward(t)
TrialType == [exact : BOOLEAN, cache : BOOLEAN, reverts : BOOLEAN,
              settings : SUBSET Settings, killsAt : SUBSET STRING,
              edits : Nat, saves : Nat, crashes : Nat, clears : Nat]
IInv ==
  /\ trial \in TrialType
  /\ \/ Undisturbed(trial) /\ Right
     \/ Forward(trial) /\ Onward
-----------------------------------------------------------------------------
(* What the invariant's parts give one another.                            *)

LEMMA Texts ==
  ASSUME NEW entries, Described(entries)
  PROVE  /\ Known(TextsOf(entries)) /\ Present(TextsOf(entries)) = DOMAIN entries
         /\ \A u \in DOMAIN entries : TextsOf(entries)[u] = entries[u].of
<1>1. \A u \in DOMAIN entries : TextsOf(entries)[u] = entries[u].of
  BY DEF Described, TextsOf
<1>2. \A u \in Sources \ DOMAIN entries : TextsOf(entries)[u] = 0
  BY DEF TextsOf
<1>3. \A u \in DOMAIN entries : u \in Sources /\ entries[u].of # 0
  BY DEF Described
<1>4. Present(TextsOf(entries)) = DOMAIN entries
  BY <1>1, <1>2, <1>3 DEF Present
<1> QED BY <1>1, <1>4 DEF Described

\* An index of the texts as they are: what is in the output directory is
\* what a whole build gives.
LEMMA FiledIsWhole ==
  ASSUME NEW ver, Known(ver), NEW entries, NEW files, NEW set, Filed(entries, files, set),
         OnSources(files),
         DOMAIN entries = Present(ver), \A u \in Present(ver) : entries[u].hash = ver[u]
  PROVE  TextsOf(entries) = ver /\ files = Whole(ver, set)
<1>1. \A u \in Present(ver) : u \in Sources /\ ver[u] # 0 /\ ver[u] = entries[u].of
  BY DEF Present, Filed, Described
<1>2. \A u \in Sources : TextsOf(entries)[u] = ver[u]
  BY <1>1 DEF TextsOf, Present
<1>3. TextsOf(entries) = ver
  BY <1>2 DEF TextsOf, Known
<1>4. \A u \in Sources : files[u] = IF ver[u] # 0 THEN Compiled(u, ver, set) ELSE NoClass
  BY <1>1, <1>3 DEF Filed, Present
<1>5. files = [s \in Sources |-> IF ver[s] # 0 THEN Compiled(s, ver, set) ELSE NoClass]
  BY <1>4 DEF OnSources
<1> QED BY <1>3, <1>5, WholeIs

\* And the index of a whole build is one.
LEMMA WholeIsFiled ==
  ASSUME NEW ver, Known(ver), NEW entries, NEW set, DOMAIN entries = Present(ver),
         \A u \in Present(ver) :
           /\ DOMAIN entries[u] = EntryFields
           /\ entries[u].hash = ver[u] /\ entries[u].of = ver[u]
           /\ entries[u].members = Shown(u, ver)
           /\ entries[u].deps = Uses(u, ver[u]) \cap Present(ver)
  PROVE  Filed(entries, Whole(ver, set), set)
<1>1. Present(ver) \subseteq Sources /\ \A u \in Present(ver) : ver[u] # 0
  BY DEF Present
<1>2. \A u \in Sources : TextsOf(entries)[u] = ver[u]
  BY <1>1 DEF TextsOf, Present
<1>3. TextsOf(entries) = ver
  BY <1>2 DEF TextsOf, Known
<1>4. Described(entries)
  BY <1>1, <1>3 DEF Described
<1>5. \A u \in Sources : Whole(ver, set)[u] = IF ver[u] # 0 THEN Compiled(u, ver, set) ELSE NoClass
  BY WholeIs
<1>6. \A u \in Sources \ DOMAIN entries : ver[u] = 0
  BY DEF Present
<1> QED BY <1>1, <1>3, <1>4, <1>5, <1>6 DEF Filed

\* A unit that is not stale is as a whole build leaves it.
LEMMA FreshIsWhole ==
  ASSUME Known(src), IndexRight, OutRight,
         job.at \in {"idle", "look up", "forget", "forget index", "track", "sweep", "store"},
         ~IsStale(Present(src))
  PROVE  out = Whole(src, settings)
<1>1. /\ print = <<settings, Present(src)>> /\ index.settings # 0
      /\ DOMAIN index.of = Present(src) /\ \A s \in Present(src) : index.of[s].hash = src[s]
  BY DEF IsStale, Fingerprint, Holds
<1>2. print # NoPrint /\ print[1] = settings
  BY <1>1 DEF NoPrint
<1>3. Filed(index.of, out, index.settings) /\ index.settings = settings
  BY <1>1, <1>2 DEF IndexRight, NoIndex
<1>4. OnSources(out)
  BY DEF OutRight
<1>5. PICK ver, entries, files, set :
        ver = src /\ entries = index.of /\ files = out /\ set = settings
  OBVIOUS
<1>6. /\ Known(ver) /\ Filed(entries, files, set) /\ OnSources(files)
      /\ DOMAIN entries = Present(ver) /\ \A u \in Present(ver) : entries[u].hash = ver[u]
  BY <1>1, <1>3, <1>4, <1>5
<1>7. files = Whole(ver, set)
  BY <1>6, FiledIsWhole
<1> QED BY <1>5, <1>7

\* Away from the rounds nothing is asked of them.
LEMMA Elsewhere ==
  ASSUME job'.at \notin RoundSteps
  PROVE  RoundRight' /\ FilesRight' /\ AfterRight'
BY DEF RoundRight, FilesRight, AfterRight, RoundSteps

\* The fields of a job.
LEMMA Going ==
  ASSUME DOMAIN job = JobFields, NEW step, Go(step)
  PROVE  /\ DOMAIN job' = JobFields /\ job'.at = step
         /\ job'.unit = job.unit /\ job'.key = job.key /\ job'.restored = job.restored
         /\ job'.saved = job.saved /\ job'.cur = job.cur /\ job'.prev = job.prev
         /\ job'.before = job.before /\ job'.after = job.after /\ job'.round = job.round
         /\ job'.compiled = job.compiled /\ job'.rounds = job.rounds
BY DEF JobFields, Go
-----------------------------------------------------------------------------
(* Every step keeps it: up to the compiler.                                *)

LEMMA InitRight == Init => Right
<1> SUFFICES ASSUME Init PROVE Right
  OBVIOUS
<1>1. src \in [Sources -> {0, 1}] /\ Present(src) # {} /\ job.at = "idle"
  BY DEF Init, NoJob
<1>2. Known(src)
  BY <1>1, TextAssumption DEF Known
<1>3. settings \in Nat \ {0}
  BY UnitAssumption DEF Init
<1>4. EndRight /\ CacheRight /\ JobRight
  BY <1>1 DEF Init, NoEnd, EndRight, CacheRight, JobRight, At
<1>5. IndexRight /\ OutRight
  BY <1>1 DEF Init, IndexRight, OutRight, OnSources, NoClasses
<1>6. RoundRight /\ FilesRight /\ AfterRight
  BY <1>1 DEF RoundRight, FilesRight, AfterRight, RoundSteps
<1> QED BY <1>1, <1>2, <1>3, <1>4, <1>5, <1>6 DEF Right

LEMMA BeginRight ==
  ASSUME Right, Begin
  PROVE  Right'
<1>1. UNCHANGED <<disk, trial>> /\ job.at = "idle"
  BY DEF Begin, At
<1> USE DEF disk
<1>2. Known(src') /\ Present(src') # {} /\ settings' \in Nat \ {0} /\ CacheRight'
  BY <1>1 DEF Right, CacheRight
<1>3. CASE IsStale(Present(src))
  <2>1. /\ job' = [at |-> IF trial.cache THEN "look up" ELSE "track", unit |-> Present(src),
                   key |-> <<>>, restored |-> FALSE, saved |-> FALSE,
                   cur |-> src, prev |-> <<>>, before |-> <<>>, after |-> <<>>,
                   round |-> {}, compiled |-> {}, rounds |-> 0]
        /\ last' = NoEnd
    BY <1>3 DEF Begin
  <2>2. job'.at = IF trial.cache THEN "look up" ELSE "track"
    BY <2>1
  <2>3. JobRight'
    BY <1>1, <2>1, <2>2 DEF JobRight, JobFields, Steps, Cached, At
  <2>4. EndRight'
    BY <1>1, <2>1, <2>2 DEF EndRight, NoEnd
  <2>5. IndexRight' /\ OutRight'
    BY <1>1, <2>2 DEF Right, IndexRight, OutRight
  <2>6. RoundRight' /\ FilesRight' /\ AfterRight'
    BY <2>2, Elsewhere DEF RoundSteps
  <2> QED BY <1>2, <2>3, <2>4, <2>5, <2>6 DEF Right
<1>4. CASE ~IsStale(Present(src))
  <2>1. job' = NoJob /\ last'.result = "ok" /\ job'.at = "idle"
    BY <1>4 DEF Begin, NoJob
  <2>2. out = Whole(src, settings)
    BY <1>1, <1>4, FreshIsWhole DEF Right
  <2>3. EndRight' /\ JobRight'
    BY <1>1, <2>1, <2>2 DEF EndRight, JobRight, At
  <2>4. IndexRight' /\ OutRight'
    BY <1>1, <2>1 DEF Right, IndexRight, OutRight
  <2>5. RoundRight' /\ FilesRight' /\ AfterRight'
    BY <2>1, Elsewhere DEF RoundSteps
  <2> QED BY <1>2, <2>3, <2>4, <2>5 DEF Right
<1> QED BY <1>3, <1>4

LEMMA LookUpRight ==
  ASSUME Right, LookUp
  PROVE  Right'
<1> USE DEF disk
<1>1. UNCHANGED <<disk, last, trial>> /\ job.at = "look up"
  BY DEF LookUp, At
<1>2. DOMAIN job = JobFields /\ job.unit = Present(src) /\ job.cur = src /\ job.saved = FALSE /\ trial.cache
      /\ last = NoEnd
  BY <1>1 DEF Right, JobRight, EndRight, At, Cached
<1>3. /\ DOMAIN job' = JobFields
      /\ job'.at = IF Key \in DOMAIN cache THEN "forget" ELSE "track"
      /\ job'.key = Key /\ job'.unit = job.unit /\ job'.cur = job.cur /\ job'.saved = job.saved
      /\ job'.rounds = job.rounds /\ job.rounds = 0
  BY <1>1, <1>2 DEF LookUp, JobFields, Right, JobRight, At
<1>4. JobRight'
  BY <1>1, <1>2, <1>3 DEF JobRight, Steps, Cached, At, Key
<1>5. EndRight' /\ CacheRight'
  BY <1>1, <1>2, <1>3 DEF Right, EndRight, CacheRight, NoEnd
<1>6. IndexRight' /\ OutRight'
  BY <1>1, <1>3 DEF Right, IndexRight, OutRight
<1>7. RoundRight' /\ FilesRight' /\ AfterRight'
  BY <1>3, Elsewhere DEF RoundSteps
<1> QED BY <1>1, <1>4, <1>5, <1>6, <1>7 DEF Right

LEMMA ForgetRight ==
  ASSUME Right, Forget \/ ForgetIndex
  PROVE  Right'
<1>1. CASE Forget
  <2>1. UNCHANGED <<src, settings, dir, out, index, cache, last, trial>> /\ print' = NoPrint
        /\ job.at = "forget" /\ Go("forget index")
    BY <1>1 DEF Forget, At
  <2>2. DOMAIN job = JobFields /\ job.unit = Present(src) /\ job.cur = src /\ job.saved = FALSE /\ trial.cache
        /\ last = NoEnd /\ job.key = Key /\ job.key \in DOMAIN cache
    BY <2>1 DEF Right, JobRight, EndRight, At, Cached
  <2>3. /\ DOMAIN job' = JobFields /\ job'.at = "forget index"
        /\ job'.key = job.key /\ job'.unit = job.unit /\ job'.cur = job.cur /\ job'.saved = job.saved
    BY <2>1, <2>2, Going
  <2>4. JobRight'
    BY <2>1, <2>2, <2>3 DEF JobRight, Steps, Cached, At, Key
  <2>5. EndRight' /\ CacheRight'
    BY <2>1, <2>2, <2>3 DEF Right, EndRight, CacheRight, NoEnd
  <2>6. IndexRight' /\ OutRight'
    BY <2>1, <2>3 DEF Right, IndexRight, OutRight
  <2>7. RoundRight' /\ FilesRight' /\ AfterRight'
    BY <2>3, Elsewhere DEF RoundSteps
  <2> QED BY <2>1, <2>4, <2>5, <2>6, <2>7 DEF Right
<1>2. CASE ForgetIndex
  <2>1. UNCHANGED <<src, settings, dir, out, print, cache, last, trial>> /\ index' = NoIndex
        /\ job.at = "forget index" /\ Go("extract")
    BY <1>2 DEF ForgetIndex, At
  <2>2. DOMAIN job = JobFields /\ job.unit = Present(src) /\ job.cur = src /\ job.saved = FALSE /\ trial.cache
        /\ last = NoEnd /\ job.key = Key /\ job.key \in DOMAIN cache
    BY <2>1 DEF Right, JobRight, EndRight, At, Cached
  <2>3. /\ DOMAIN job' = JobFields /\ job'.at = "extract"
        /\ job'.key = job.key /\ job'.unit = job.unit /\ job'.cur = job.cur /\ job'.saved = job.saved
    BY <2>1, <2>2, Going
  <2>4. JobRight'
    BY <2>1, <2>2, <2>3 DEF JobRight, Steps, Cached, At, Key
  <2>5. EndRight' /\ CacheRight'
    BY <2>1, <2>2, <2>3 DEF Right, EndRight, CacheRight, NoEnd
  <2>6. IndexRight' /\ OutRight'
    BY <2>1, <2>3 DEF Right, IndexRight, OutRight
  <2>7. RoundRight' /\ FilesRight' /\ AfterRight'
    BY <2>3, Elsewhere DEF RoundSteps
  <2> QED BY <2>1, <2>4, <2>5, <2>6, <2>7 DEF Right
<1> QED BY <1>1, <1>2

LEMMA ExtractRight ==
  ASSUME Right, Extract
  PROVE  Right'
<1>1. UNCHANGED <<src, settings, print, index, cache, last, trial>> /\ job.at = "extract"
  BY DEF Extract, At
<1>2. DOMAIN job = JobFields /\ job.unit = Present(src) /\ job.cur = src /\ job.saved = FALSE /\ trial.cache
      /\ last = NoEnd /\ job.key = <<settings, src>> /\ job.key \in DOMAIN cache
  BY <1>1 DEF Right, JobRight, EndRight, At, Cached, Key
<1>3. /\ DOMAIN job' = JobFields /\ job'.at = "take stock"
      /\ job'.key = job.key /\ job'.unit = job.unit /\ job'.cur = job.cur /\ job'.saved = job.saved
  BY <1>2 DEF Extract, JobFields
<1>4. out' = Whole(src, settings)
  <2>1. PICK ver, set : job.key = <<set, ver>> /\ cache[job.key] = Whole(ver, set)
    BY <1>2 DEF Right, CacheRight
  <2>2. set = settings /\ ver = src
    BY <1>2, <2>1
  <2> QED BY <2>1, <2>2 DEF Extract
<1>5. OnSources(out')
  <2>1. PICK f : f = out' /\ f = [s \in Sources |-> IF src[s] # 0 THEN Compiled(s, src, settings) ELSE NoClass]
    BY <1>4, WholeIs DEF Right
  <2>2. OnSources(f)
    BY <2>1 DEF OnSources
  <2> QED BY <2>1, <2>2
<1>6. JobRight'
  BY <1>1, <1>2, <1>3 DEF JobRight, Steps, Cached, At, Key
<1>7. EndRight' /\ CacheRight'
  BY <1>1, <1>2, <1>3 DEF Right, EndRight, CacheRight, NoEnd
<1>8. IndexRight' /\ OutRight'
  BY <1>1, <1>3, <1>4, <1>5 DEF Right, IndexRight, OutRight
<1>9. RoundRight' /\ FilesRight' /\ AfterRight'
  BY <1>3, Elsewhere DEF RoundSteps
<1> QED BY <1>1, <1>6, <1>7, <1>8, <1>9 DEF Right

LEMMA TakeStockRight ==
  ASSUME Right, TakeStock
  PROVE  Right'
<1> USE DEF disk
<1>1. UNCHANGED <<disk, last, trial>> /\ job.at = "take stock"
  BY DEF TakeStock, At
<1>2. DOMAIN job = JobFields /\ job.unit = Present(src) /\ job.saved = FALSE
      /\ last = NoEnd /\ (trial.cache => job.key = Key) /\ out = Whole(src, settings)
  BY <1>1 DEF Right, JobRight, EndRight, OutRight, At
<1>3. /\ DOMAIN job' = JobFields /\ job'.at = "index all"
      /\ job'.key = job.key /\ job'.unit = job.unit /\ job'.cur = src /\ job'.saved = job.saved
  BY <1>2 DEF TakeStock, JobFields
<1>4. JobRight'
  BY <1>1, <1>2, <1>3 DEF JobRight, Steps, Cached, At, Key
<1>5. EndRight' /\ CacheRight'
  BY <1>1, <1>2, <1>3 DEF Right, EndRight, CacheRight, NoEnd
<1>6. IndexRight' /\ OutRight'
  BY <1>1, <1>2, <1>3 DEF Right, IndexRight, OutRight
<1>7. RoundRight' /\ FilesRight' /\ AfterRight'
  BY <1>3, Elsewhere DEF RoundSteps
<1> QED BY <1>1, <1>4, <1>5, <1>6, <1>7 DEF Right

LEMMA TrackRight ==
  ASSUME Right, Track
  PROVE  Right'
<1> USE DEF disk
<1>1. UNCHANGED <<disk, trial>> /\ job.at = "track"
  BY DEF Track, At
<1>2. DOMAIN job = JobFields /\ job.unit = Present(src) /\ job.saved = FALSE
      /\ last = NoEnd /\ (trial.cache => job.key = Key) /\ job.rounds = 0
  BY <1>1 DEF Right, JobRight, EndRight, At
<1>3. CASE IsStale(job.unit)
  <2>1. /\ DOMAIN job' = JobFields /\ job'.at = "sweep" /\ job'.rounds = job.rounds
        /\ job'.key = job.key /\ job'.unit = job.unit /\ job'.cur = src /\ job'.saved = job.saved
        /\ job'.prev = IF index.settings = settings /\ dir THEN index.of ELSE <<>>
        /\ UNCHANGED last
    BY <1>2, <1>3 DEF Track, JobFields
  <2>2. JobRight'
    BY <1>1, <1>2, <2>1 DEF JobRight, Steps, Cached, At, Key
  <2>3. EndRight' /\ CacheRight'
    BY <1>1, <1>2, <2>1 DEF Right, EndRight, CacheRight, NoEnd
  <2>4. IndexRight' /\ OutRight'
    BY <1>1, <2>1 DEF Right, IndexRight, OutRight
  <2>5. RoundRight' /\ FilesRight' /\ AfterRight'
    BY <2>1, Elsewhere DEF RoundSteps
  <2> QED BY <1>1, <2>2, <2>3, <2>4, <2>5 DEF Right
<1>4. CASE ~IsStale(job.unit)
  <2>1. job' = NoJob /\ last'.result = "ok" /\ job'.at = "idle"
    BY <1>4 DEF Track, End, NoJob
  <2>2. out = Whole(src, settings)
    BY <1>1, <1>2, <1>4, FreshIsWhole DEF Right
  <2>3. EndRight' /\ JobRight' /\ CacheRight'
    BY <1>1, <2>1, <2>2 DEF Right, EndRight, JobRight, CacheRight, At
  <2>4. IndexRight' /\ OutRight'
    BY <1>1, <2>1 DEF Right, IndexRight, OutRight
  <2>5. RoundRight' /\ FilesRight' /\ AfterRight'
    BY <2>1, Elsewhere DEF RoundSteps
  <2> QED BY <1>1, <2>3, <2>4, <2>5 DEF Right
<1> QED BY <1>3, <1>4

LEMMA SweepRight ==
  ASSUME Right, Sweep
  PROVE  Right'
<1>1. UNCHANGED <<src, settings, dir, print, index, cache, last, trial>> /\ job.at = "sweep"
  BY DEF Sweep, At
<1>2. DOMAIN job = JobFields /\ job.unit = Present(src) /\ job.cur = src /\ job.saved = FALSE
      /\ last = NoEnd /\ (trial.cache => job.key = Key) /\ job.rounds = 0
      /\ Known(src) /\ Present(src) # {} /\ OnSources(out)
  BY <1>1 DEF Right, JobRight, EndRight, OutRight, At
<1>3. EndRight' /\ CacheRight' /\ Known(src') /\ Present(src') # {} /\ settings' \in Nat \ {0}
  BY <1>1, <1>2 DEF Right, EndRight, CacheRight, NoEnd
<1>4. CASE DOMAIN job.prev # job.unit
  <2>1. Go("clear") /\ UNCHANGED out
    BY <1>4 DEF Sweep
  <2>2. /\ DOMAIN job' = JobFields /\ job'.at = "clear"
        /\ job'.key = job.key /\ job'.unit = job.unit /\ job'.cur = job.cur /\ job'.saved = job.saved
    BY <1>2, <2>1, Going
  <2>3. JobRight'
    BY <1>1, <1>2, <2>2 DEF JobRight, Steps, Cached, At, Key
  <2>4. IndexRight' /\ OutRight'
    BY <1>1, <2>1, <2>2 DEF Right, IndexRight, OutRight
  <2>5. RoundRight' /\ FilesRight' /\ AfterRight'
    BY <2>2, Elsewhere DEF RoundSteps
  <2> QED BY <1>3, <2>2, <2>3, <2>4, <2>5 DEF Right
<1>5. CASE DOMAIN job.prev = job.unit
  <2>1. job.prev = index.of /\ settings = index.settings /\ Filed(index.of, out, settings)
    <3>1. job.prev # <<>>
      BY <1>2, <1>5
    <3>2. job.prev = index.of /\ settings = index.settings
      BY <1>1, <3>1 DEF Right, IndexRight
    <3>3. index # NoIndex
      BY <3>1, <3>2 DEF NoIndex
    <3> QED BY <1>1, <3>2, <3>3 DEF Right, IndexRight
  <2>2. PICK first : first = {s \in job.unit : job.prev[s].hash # job.cur[s]} /\ first = First
    BY <1>2 DEF First
  <2>3. CASE first = {}
    <3>1. Go("stamp") /\ UNCHANGED out
      BY <1>5, <2>2, <2>3 DEF Sweep
    <3>2. /\ DOMAIN job' = JobFields /\ job'.at = "stamp"
          /\ job'.key = job.key /\ job'.unit = job.unit /\ job'.cur = job.cur /\ job'.saved = job.saved
      BY <1>2, <3>1, Going
    <3>3. out = Whole(src, settings)
      <4>1. PICK ver, entries, files, set :
              ver = src /\ entries = index.of /\ files = out /\ set = settings
        OBVIOUS
      <4>2. /\ Known(ver) /\ Filed(entries, files, set) /\ OnSources(files)
            /\ DOMAIN entries = Present(ver) /\ \A u \in Present(ver) : entries[u].hash = ver[u]
        BY <1>2, <1>5, <2>1, <2>2, <2>3, <4>1
      <4>3. files = Whole(ver, set)
        BY <4>2, FiledIsWhole
      <4> QED BY <4>1, <4>3
    <3>4. JobRight'
      BY <1>1, <1>2, <3>2 DEF JobRight, Steps, Cached, At, Key
    <3>5. IndexRight' /\ OutRight'
      BY <1>1, <2>1, <3>1, <3>2, <3>3 DEF Right, IndexRight, OutRight
    <3>6. RoundRight' /\ FilesRight' /\ AfterRight'
      BY <3>2, Elsewhere DEF RoundSteps
    <3> QED BY <1>3, <3>2, <3>4, <3>5, <3>6 DEF Right
  <2>4. CASE first # {}
    <3>1. PICK owned : owned = {s \in job.unit \ first : job.prev[s].of # 0}
      OBVIOUS
    <3>2. /\ out' = Without(Sources \ owned)
          /\ job' = [job EXCEPT !.at = "javac", !.round = first, !.compiled = first,
                                !.after = job.prev]
      BY <1>5, <2>2, <2>4, <3>1 DEF Sweep
    <3>3. /\ DOMAIN job' = JobFields /\ job'.at = "javac" /\ job'.rounds = job.rounds
          /\ job'.key = job.key /\ job'.unit = job.unit /\ job'.cur = job.cur /\ job'.saved = job.saved
          /\ job'.prev = job.prev /\ job'.after = job.prev
          /\ job'.round = first /\ job'.compiled = first
      BY <1>2, <3>2 DEF JobFields
    <3>4. First' = first /\ FirstRound' /\ Against' = TextsOf(job.prev)
      BY <1>1, <1>2, <2>2, <3>3 DEF First, Against, FirstRound, At
    <3>5. PICK P : P = TextsOf(job.prev) /\ Known(P) /\ \A u \in Present(src) : P[u] = job.prev[u].of
      BY <1>2, <1>5, <2>1, Texts DEF Filed
    <3>6. Present(src) \subseteq Sources /\ \A u \in Present(src) : src[u] # 0
      BY DEF Present
    <3>7. ASSUME NEW u \in Present(src) \ first
          PROVE  /\ out'[u] = Compiled(u, P, settings)
                 /\ Entered(job.prev[u], u, P)
      <4>1. job.prev[u].hash = src[u] /\ src[u] # 0 /\ u \in Sources
        BY <1>2, <2>2, <3>6
      <4>2. /\ DOMAIN job.prev[u] = EntryFields
            /\ job.prev[u].of = src[u] /\ job.prev[u].members = Shown(u, P)
            /\ job.prev[u].deps = Uses(u, src[u]) \cap Present(src)
        BY <1>2, <1>5, <2>1, <3>5, <4>1 DEF Filed, Described
      <4>3. out[u] = Compiled(u, P, settings)
        BY <1>2, <1>5, <2>1, <3>5, <4>1 DEF Filed
      <4>4. u \in owned
        BY <1>2, <3>1, <4>1, <4>2
      <4> QED BY <3>2, <4>1, <4>2, <4>3, <4>4 DEF Without, Entered
    <3>8. ASSUME NEW u \in Sources \ Present(src) PROVE out'[u] = NoClass
      BY <1>2, <3>1, <3>2 DEF Without
    <3>9. OnSources(out')
      BY <3>2 DEF OnSources, Without
    <3>10. RoundRight'
      BY <1>1, <1>2, <1>5, <2>1, <2>2, <3>3, <3>4, <3>5, <3>7, <3>8 DEF RoundRight, RoundSteps, Filed
    <3>11. FilesRight'
      BY <1>1, <3>3, <3>4, <3>5, <3>7 DEF FilesRight
    <3>12. \A u \in Present(src) \ first : Entered(job.prev[u], u, P)'
      BY <1>1, <3>3, <3>5, <3>7 DEF Entered
    <3>13. AfterRight'
      BY <1>1, <3>3, <3>4, <3>5, <3>12 DEF AfterRight
    <3>14. JobRight'
      BY <1>1, <1>2, <3>3 DEF JobRight, Steps, Cached, RoundSteps, At, Key
    <3>15. IndexRight' /\ OutRight'
      BY <3>3, <3>9 DEF IndexRight, OutRight
    <3> QED BY <1>3, <3>3, <3>10, <3>11, <3>13, <3>14, <3>15 DEF Right
  <2> QED BY <2>3, <2>4
<1> QED BY <1>4, <1>5
-----------------------------------------------------------------------------
(* Every step keeps it: the rounds.                                        *)

LEMMA Same12 ==
  ASSUME Right, job.at \in RoundSteps
  PROVE  /\ DOMAIN job = JobFields /\ job.unit = Present(src) /\ job.cur = src /\ job.saved = FALSE
         /\ (trial.cache => job.key = Key) /\ last = NoEnd /\ Known(src) /\ OnSources(out)
         /\ Described(job.prev) /\ DOMAIN job.prev = Present(src) /\ job.rounds \in Nat
         /\ First \subseteq job.compiled /\ job.compiled \subseteq Present(src) /\ job.round \subseteq job.compiled
BY DEF Right, JobRight, EndRight, OutRight, RoundRight, RoundSteps, At

\* Outside the round, the texts its class files are of are those of now.
LEMMA AgainstIs ==
  ASSUME Right, job.at \in {"javac", "record", "reach"}
  PROVE  /\ Known(Against) /\ Present(Against) = Present(src)
         /\ \A u \in Present(src) \ job.round : Against[u] = src[u]
<1>1. /\ Described(job.prev) /\ DOMAIN job.prev = Present(src) /\ Known(src) /\ job.unit = Present(src)
  BY Same12 DEF RoundSteps
<1>2. CASE FirstRound
  <2>1. Against = TextsOf(job.prev) /\ job.round = First
    BY <1>2 DEF Right, FilesRight, Against
  <2>2. ASSUME NEW u \in Present(src) \ job.round PROVE TextsOf(job.prev)[u] = src[u]
    <3>1. job.prev[u].hash = src[u] /\ src[u] # 0
      BY <1>1, <2>1 DEF First, Present
    <3> QED BY <1>1, <3>1, Texts DEF Described
  <2> QED BY <1>1, <2>1, <2>2, Texts
<1>3. CASE ~FirstRound
  BY <1>1, <1>3 DEF Against
<1> QED BY <1>2, <1>3

LEMMA RoundWorld ==
  ASSUME Right, At("javac")
  PROVE  World(job.round, src, out) = Of(src) /\ job.round \in SUBSET Present(src)
<1>1. job.at \in RoundSteps /\ job.at = "javac"
  BY DEF RoundSteps, At
<1>2. Known(src) /\ job.round \in SUBSET Present(src)
  BY <1>1, Same12
<1>3. ASSUME NEW u \in Sources \ job.round PROVE IsOf(u, out[u], src)
  <2>1. CASE u \in Present(src)
    <3>1. PICK B : /\ B = Against /\ Known(B) /\ B[u] = src[u] /\ src[u] # 0
                   /\ out[u] = Compiled(u, B, settings)
      BY <1>1, <1>3, <2>1, AgainstIs DEF Right, FilesRight, Present
    <3>2. IsOf(u, out[u], B)
      BY <3>1, CompiledIsOf
    <3> QED BY <3>1, <3>2 DEF IsOf, Of
  <2>2. CASE u \notin Present(src)
    <3>1. out[u] = NoClass /\ src[u] = 0
      BY <1>1, <2>2 DEF Right, RoundRight, Present
    <3> QED BY <3>1, NoneIsOf
  <2> QED BY <2>1, <2>2
<1> QED BY <1>2, <1>3, WorldIs

LEMMA JavacRight ==
  ASSUME Right, Javac
  PROVE  Right'
<1>1. UNCHANGED <<src, settings, dir, cache, trial>> /\ job.at = "javac" /\ At("javac")
  BY DEF Javac, At
<1>2. /\ DOMAIN job = JobFields /\ job.unit = Present(src) /\ job.cur = src /\ job.saved = FALSE
      /\ (trial.cache => job.key = Key) /\ last = NoEnd /\ Known(src) /\ OnSources(out)
      /\ Described(job.prev) /\ DOMAIN job.prev = Present(src) /\ job.rounds \in Nat
      /\ First \subseteq job.compiled /\ job.compiled \subseteq Present(src) /\ job.round \subseteq job.compiled
  BY <1>1, Same12 DEF RoundSteps
<1>3. World(job.round, src, out) = Of(src) /\ job.round \in SUBSET Present(src)
  BY <1>1, RoundWorld
<1>4. \A W : Written(job.round, W, src, out, settings)
               = [s \in Sources |-> IF s \in W THEN Compiled(s, src, settings) ELSE out[s]]
  BY <1>3, WrittenIs
<1>5. CacheRight' /\ Known(src') /\ Present(src') # {} /\ settings' \in Nat \ {0}
  BY <1>1 DEF Right, CacheRight
<1>6. CASE Fails(job.round, src, out)
  <2>1. PICK W : W \in SUBSET Sound(job.round) /\ out' = Written(job.round, W, src, out, settings)
    BY <1>6 DEF Javac
  <2>2. W \subseteq job.round /\ out' = [s \in Sources |-> IF s \in W THEN Compiled(s, src, settings) ELSE out[s]]
    BY <1>4, <2>1 DEF Sound
  <2>3. /\ index' = [settings |-> settings, of |-> Cleared] /\ print' = NoPrint
        /\ job' = NoJob /\ job'.at = "idle" /\ last'.result = "failed"
    BY <1>6 DEF Javac, End, NoJob
  <2>4. Fails(Present(src), src, NoClasses)
    BY <1>2, <1>3, <1>6, FailsWhole
  <2>5. EndRight' /\ JobRight'
    BY <1>1, <2>3, <2>4 DEF EndRight, JobRight, At
  <2>6. PICK P, entries : P = TextsOf(job.prev) /\ entries = Cleared
    OBVIOUS
  <2>7. /\ DOMAIN entries = Present(src)
        /\ \A u \in Present(src) :
             entries[u] = IF u \in job.compiled THEN [job.prev[u] EXCEPT !.hash = 0] ELSE job.prev[u]
    BY <1>2, <2>6 DEF Cleared
  <2>8. ASSUME NEW u \in Present(src)
        PROVE  /\ DOMAIN entries[u] = EntryFields
               /\ entries[u].of = job.prev[u].of /\ entries[u].members = job.prev[u].members
               /\ entries[u].deps = job.prev[u].deps
               /\ entries[u].hash = IF u \in job.compiled THEN 0 ELSE job.prev[u].hash
    <3>1. DOMAIN job.prev[u] = EntryFields
      BY <1>2 DEF Described
    <3> QED BY <2>7, <3>1 DEF EntryFields
  <2>9. TextsOf(entries) = P
    <3>1. \A u \in Sources : TextsOf(entries)[u] = P[u]
      BY <1>2, <2>6, <2>7, <2>8 DEF TextsOf
    <3> QED BY <2>6, <3>1 DEF TextsOf
  <2>10. Described(entries)
    BY <1>2, <2>6, <2>7, <2>8, <2>9 DEF Described
  <2>11. ASSUME NEW u \in Present(src), entries[u].hash # 0
         PROVE  out'[u] = Compiled(u, P, settings)
    <3>1. u \notin job.compiled
      BY <2>8, <2>11
    <3>2. out[u] = Compiled(u, P, settings)
      BY <1>1, <2>6, <3>1 DEF Right, RoundRight, RoundSteps
    <3> QED BY <1>2, <2>2, <3>1, <3>2 DEF Present
  <2>12. ASSUME NEW u \in Sources \ Present(src) PROVE out'[u] = NoClass
    <3>1. out[u] = NoClass /\ u \notin W
      BY <1>1, <1>2, <2>2 DEF Right, RoundRight, RoundSteps
    <3> QED BY <2>2, <3>1
  <2>13. Filed(entries, out', settings)
    BY <2>7, <2>9, <2>10, <2>11, <2>12 DEF Filed
  <2>14. IndexRight'
    BY <1>1, <1>5, <2>3, <2>6, <2>13 DEF IndexRight
  <2>15. OutRight'
    BY <2>2, <2>3 DEF OutRight, OnSources
  <2>16. RoundRight' /\ FilesRight' /\ AfterRight'
    BY <2>3, Elsewhere DEF RoundSteps
  <2> QED BY <1>5, <2>5, <2>14, <2>15, <2>16 DEF Right
<1>7. CASE ~Fails(job.round, src, out)
  <2>1. /\ out' = [s \in Sources |-> IF s \in job.round THEN Compiled(s, src, settings) ELSE out[s]]
        /\ job' = [job EXCEPT !.at = "record", !.rounds = @ + 1]
        /\ UNCHANGED <<print, index, last>>
    BY <1>4, <1>7 DEF Javac
  <2>2. /\ DOMAIN job' = JobFields /\ job'.at = "record" /\ job'.rounds = job.rounds + 1
        /\ job'.key = job.key /\ job'.unit = job.unit /\ job'.cur = job.cur /\ job'.saved = job.saved
        /\ job'.prev = job.prev /\ job'.after = job.after
        /\ job'.round = job.round /\ job'.compiled = job.compiled
    BY <1>2, <2>1 DEF JobFields
  <2>3. FirstRound' = FirstRound /\ job'.rounds # 0 /\ job'.rounds \in Nat
    BY <1>1, <1>2, <2>2 DEF FirstRound, At
  <2>4. Against' = Against /\ First' = First
    BY <1>1, <2>2, <2>3 DEF Against, First
  <2>5. \A u \in First : Moved(u)' = Moved(u)
    BY <1>1, <2>2 DEF Moved
  <2>6. \A u \in Sources \ job.round : out'[u] = out[u]
    BY <2>1
  <2>7. Present(src) \subseteq Sources
    BY DEF Present
  <2>8. \A u \in Present(src) \ job.compiled : out'[u] = Compiled(u, TextsOf(job.prev), settings)
    BY <1>1, <1>2, <2>6, <2>7 DEF Right, RoundRight, RoundSteps
  <2>9. \A u \in Sources \ Present(src) : out'[u] = NoClass
    BY <1>1, <1>3, <2>6 DEF Right, RoundRight, RoundSteps
  <2>10. job.compiled = First \/ \E u \in First : Moved(u)
    BY <1>1 DEF Right, RoundRight, RoundSteps
  <2>11. RoundRight'
    BY <1>1, <1>2, <2>2, <2>3, <2>4, <2>5, <2>8, <2>9, <2>10 DEF RoundRight, RoundSteps
  <2>12. /\ \A u \in Present(src) \ job.round : out'[u] = Compiled(u, Against, settings)
         /\ \A u \in job.round : out'[u] = Compiled(u, src, settings)
    BY <1>1, <1>3, <2>1, <2>6, <2>7 DEF Right, FilesRight
  <2>13. IF FirstRound THEN job.round = First /\ job.compiled = First ELSE \E u \in First : Moved(u)
    BY <1>1 DEF Right, FilesRight
  <2>14. FilesRight'
    BY <1>1, <2>2, <2>3, <2>4, <2>5, <2>12, <2>13 DEF FilesRight
  <2>15. \A u \in Present(src) \ job.round : Entered(job.after[u], u, Against)'
    BY <1>1, <2>2, <2>4 DEF Right, AfterRight, Entered
  <2>16. AfterRight'
    BY <1>1, <2>2, <2>3, <2>15 DEF Right, AfterRight
  <2>17. JobRight' /\ EndRight'
    BY <1>1, <1>2, <2>1, <2>2 DEF JobRight, EndRight, NoEnd, Steps, Cached, RoundSteps, At, Key
  <2>18. IndexRight' /\ OutRight'
    BY <2>1, <2>2 DEF IndexRight, OutRight, OnSources
  <2> QED BY <1>5, <2>11, <2>14, <2>16, <2>17, <2>18 DEF Right
<1> QED BY <1>6, <1>7

LEMMA RecordRight ==
  ASSUME Right, Record
  PROVE  Right'
<1> USE DEF disk
<1>1. UNCHANGED <<disk, last, trial>> /\ job.at = "record"
  BY DEF Record, At
<1>2. /\ DOMAIN job = JobFields /\ job.unit = Present(src) /\ job.cur = src /\ job.saved = FALSE
      /\ (trial.cache => job.key = Key) /\ last = NoEnd /\ Known(src) /\ OnSources(out)
      /\ Described(job.prev) /\ DOMAIN job.prev = Present(src) /\ job.rounds \in Nat
      /\ First \subseteq job.compiled /\ job.compiled \subseteq Present(src) /\ job.round \subseteq job.compiled
  BY <1>1, Same12 DEF RoundSteps
<1>3. PICK after : after = Recorded(job.unit \ job.round)
  OBVIOUS
<1>4. /\ DOMAIN job' = JobFields /\ job'.at = "reach" /\ job'.rounds = job.rounds
      /\ job'.key = job.key /\ job'.unit = job.unit /\ job'.cur = job.cur /\ job'.saved = job.saved
      /\ job'.prev = job.prev /\ job'.before = job.after /\ job'.after = after
      /\ job'.round = job.round /\ job'.compiled = job.compiled
  BY <1>2, <1>3 DEF Record, JobFields
<1>5. PICK B : /\ B = Against /\ Known(B) /\ Present(B) = Present(src)
               /\ \A u \in Present(src) \ job.round : B[u] = src[u]
  BY <1>1, AgainstIs
<1>6. Present(src) \subseteq Sources /\ \A u \in Sources : u \in Present(src) <=> src[u] # 0
  BY DEF Present
<1>7. /\ \A u \in Present(src) \ job.round : out[u] = Compiled(u, B, settings)
      /\ \A u \in job.round : out[u] = Compiled(u, src, settings)
      /\ \A u \in Sources \ Present(src) : out[u] = NoClass
  BY <1>1, <1>5 DEF Right, FilesRight, RoundRight, RoundSteps
<1>8. ASSUME NEW u \in Sources PROVE out[u].of = src[u]
  <2>1. CASE u \in job.round
    BY <1>2, <1>6, <1>7, <2>1, CompiledIsOf DEF IsOf
  <2>2. CASE u \in Present(src) \ job.round
    BY <1>2, <1>5, <1>6, <1>7, <2>2, CompiledIsOf DEF IsOf
  <2>3. CASE u \notin Present(src)
    BY <1>6, <1>7, <2>3 DEF NoClass
  <2> QED BY <2>1, <2>2, <2>3
<1>9. ASSUME NEW s \in Present(src)
      PROVE  /\ after[s].hash = src[s]
             /\ Entered(after[s], s, IF s \in job.round THEN src ELSE B)
  <2>1. s \in Sources /\ src[s] # 0 /\ out[s].of = src[s]
    BY <1>6, <1>8
  <2>2. after[s] = Entry(s, job.unit \ job.round)
    BY <1>2, <1>3 DEF Recorded
  <2>3. CASE s \in job.round
    <3>1. after[s] = [hash |-> src[s], of |-> out[s].of, members |-> out[s].members,
                      deps |-> {u \in Refers(s) : u # s /\ out[u].of # 0}]
      BY <1>2, <2>2, <2>3 DEF Entry
    <3>2. out[s].members = Shown(s, src)
      BY <1>2, <1>7, <2>1, <2>3, CompiledIsOf
    <3>3. Refers(s) = Uses(s, src[s])
      BY <2>1 DEF Refers, Uses
    <3>4. Uses(s, src[s]) \subseteq Sources /\ s \notin Uses(s, src[s])
      BY <1>2, <2>1, TextType
    <3>5. {u \in Refers(s) : u # s /\ out[u].of # 0} = Uses(s, src[s]) \cap Present(src)
      BY <1>6, <1>8, <3>3, <3>4
    <3>6. DOMAIN after[s] = EntryFields
      BY <3>1 DEF EntryFields
    <3> QED BY <2>1, <2>3, <3>1, <3>2, <3>5, <3>6 DEF Entered
  <2>4. CASE s \notin job.round
    <3>1. Entered(job.after[s], s, B)
      BY <1>1, <1>5, <2>4 DEF Right, AfterRight
    <3>2. PICK e : e = job.after[s] /\ e.of = src[s] /\ e.members = Shown(s, B)
                   /\ e.deps = Uses(s, src[s]) \cap Present(src)
      BY <3>1 DEF Entered
    <3>3. after[s] = [hash |-> src[s], of |-> e.of, members |-> e.members,
                      deps |-> {u \in e.deps : u # s /\ out[u].of # 0}]
      BY <1>2, <2>1, <2>2, <2>4, <3>2 DEF Entry
    <3>4. Uses(s, src[s]) \subseteq Sources /\ s \notin Uses(s, src[s])
      BY <1>2, <2>1, TextType
    <3>5. {u \in e.deps : u # s /\ out[u].of # 0} = Uses(s, src[s]) \cap Present(src)
      BY <1>6, <1>8, <3>2, <3>4
    <3>6. DOMAIN after[s] = EntryFields
      BY <3>3 DEF EntryFields
    <3> QED BY <2>4, <3>2, <3>3, <3>5, <3>6 DEF Entered
  <2> QED BY <2>3, <2>4
<1>10. DOMAIN after = Present(src)
  BY <1>2, <1>3 DEF Recorded
<1>11. FirstRound' = FirstRound /\ Against' = B /\ First' = First /\ \A u \in First : Moved(u)' = Moved(u)
  BY <1>1, <1>4, <1>5 DEF FirstRound, Against, First, Moved, At
<1>12. RoundRight'
  BY <1>1, <1>4, <1>11 DEF Right, RoundRight, RoundSteps
<1>13. FilesRight'
  BY <1>1, <1>4, <1>5, <1>11 DEF Right, FilesRight
<1>14. ASSUME NEW u \in Present(src)
       PROVE  Entered(job.after[u], u, IF u \in job.round THEN src ELSE Against)'
  BY <1>1, <1>4, <1>9, <1>11 DEF Entered
<1>15. AfterRight'
  <2>1. FirstRound' => job'.before = job'.prev
    BY <1>1, <1>4, <1>11 DEF Right, AfterRight
  <2>2. Present(src') = Present(src) /\ DOMAIN job'.after = Present(src)
        /\ \A u \in Present(src) : job'.after[u].hash = src'[u]
    BY <1>1, <1>4, <1>9, <1>10
  <2> QED BY <1>4, <1>14, <2>1, <2>2 DEF AfterRight
<1>16. JobRight' /\ EndRight' /\ CacheRight'
  BY <1>1, <1>2, <1>4 DEF Right, JobRight, EndRight, CacheRight, NoEnd, Steps, Cached, RoundSteps, At, Key
<1>17. IndexRight' /\ OutRight'
  BY <1>1, <1>2, <1>4 DEF IndexRight, OutRight
<1> QED BY <1>1, <1>12, <1>13, <1>15, <1>16, <1>17 DEF Right

\* After the first round: what it does not reach is already what a whole
\* build gives.
LEMMA NotReached ==
  ASSUME Right, job.at = "reach", FirstRound,
         SafeToCompare(job.before, job.after, job.round),
         NEW changes, changes = ChangesOf(job.before, job.after, job.round),
         NEW u \in Present(src) \ job.round,
         changes.added \cup changes.broken # {} => u \notin Reached(job.after, changes)
  PROVE  Compiled(u, TextsOf(job.prev), settings) = Compiled(u, src, settings)
<1>1. /\ job.unit = Present(src) /\ Known(src)
      /\ Described(job.prev) /\ DOMAIN job.prev = Present(src)
      /\ job.compiled \subseteq Present(src) /\ job.round \subseteq job.compiled
  BY Same12 DEF RoundSteps
<1>2. PICK P, was, is, first : P = TextsOf(job.prev) /\ was = job.before /\ is = job.after /\ first = job.round
  OBVIOUS
<1>3. /\ was = job.prev /\ first = First /\ P = Against /\ DOMAIN is = Present(src)
      /\ \A s \in Present(src) : Entered(is[s], s, IF s \in first THEN src ELSE P)
  BY <1>2 DEF Right, FilesRight, AfterRight, Against
<1>4. Known(P) /\ Present(P) = Present(src) /\ \A s \in Present(src) \ first : P[s] = src[s]
  BY <1>2, <1>3, AgainstIs
<1>5. Round(P, src, first, was, is)
  <2>1. ASSUME NEW s \in Present(src)
        PROVE  /\ was[s].of = P[s] /\ was[s].members = Of(P)[s].members \cup Bridges(s, Of(P))
               /\ is[s].of = src[s] /\ is[s].deps = Uses(s, src[s]) \cap Present(src)
               /\ s \in first => is[s].members = Of(src)[s].members \cup Bridges(s, Of(src))
    <3>1. was[s].of = P[s] /\ was[s].members = Shown(s, P)
      <4>1. P[s] = job.prev[s].of
        BY <1>1, <1>2, Texts
      <4>2. job.prev[s].members = Shown(s, P)
        BY <1>1, <1>2 DEF Described
      <4> QED BY <1>3, <4>1, <4>2
    <3>2. /\ is[s].of = src[s] /\ is[s].deps = Uses(s, src[s]) \cap Present(src)
          /\ is[s].members = Shown(s, IF s \in first THEN src ELSE P)
      BY <1>3 DEF Entered
    <3> QED BY <3>1, <3>2 DEF Shown
  <2> QED BY <1>1, <1>2, <1>3, <1>4, <2>1 DEF Round
<1>6. SafeToCompare(was, is, first) /\ changes = ChangesOf(was, is, first) /\ u \in Present(src) \ first
  BY <1>2
<1>7. CASE changes.added \cup changes.broken = {}
  BY <1>2, <1>5, <1>6, <1>7, NothingMoved
<1>8. CASE changes.added \cup changes.broken # {} /\ GivesUp(changes)
  <2>1. u \notin Dependents(is, Subtypes(is, changes.added \cup changes.broken), first)
    BY <1>2, <1>8 DEF Reached
  <2> QED BY <1>2, <1>5, <1>6, <2>1, DependentsSuffice
<1>9. CASE changes.added \cup changes.broken # {} /\ ~GivesUp(changes)
  <2>1. changes.broken = {}
    BY <1>9 DEF GivesUp
  <2>2. u \notin UsersOfAddition(out, is, DirectUsers(is, Subtypes(is, changes.added)) \ first,
                                 Subtypes(is, changes.added), changes)
    BY <1>2, <1>9 DEF Reached
  <2>3. out[u].of = src[u]
    <3>1. out[u] = Compiled(u, P, settings) /\ P[u] = src[u] /\ u \in Sources /\ src[u] # 0
      BY <1>2, <1>3, <1>4 DEF Right, FilesRight, Present
    <3> QED BY <1>4, <3>1, CompiledIsOf DEF IsOf
  <2> QED BY <1>2, <1>5, <1>6, <2>1, <2>2, <2>3, UsersOfAdditionSuffice
<1> QED BY <1>7, <1>8, <1>9

\* What a round reaches is of the unit, and is moved by something.
LEMMA ReachedIs ==
  ASSUME Right, job.at = "reach",
         NEW changes, changes = ChangesOf(job.before, job.after, job.round)
  PROVE  /\ Reached(job.after, changes) \subseteq Present(src)
         /\ FirstRound /\ changes.added \cup changes.broken # {} => \E u \in First : Moved(u)
<1>1. /\ job.unit = Present(src) /\ Known(src)
      /\ Described(job.prev) /\ DOMAIN job.prev = Present(src)
      /\ job.compiled \subseteq Present(src) /\ job.round \subseteq job.compiled
  BY Same12 DEF RoundSteps
<1>2. DOMAIN job.after = Present(src)
  BY DEF Right, AfterRight
<1>3. Reached(job.after, changes) \subseteq Present(src)
  BY <1>2 DEF Reached, Dependents, UsersOfAddition, DirectUsers
<1>4. ASSUME FirstRound, changes.added \cup changes.broken # {} PROVE \E u \in First : Moved(u)
  <2>1. job.round = First /\ job.before = job.prev
    BY <1>4 DEF Right, FilesRight, AfterRight
  <2>2. PICK u \in job.round : \/ job.before[u].members # job.after[u].members
                               \/ Header(u, job.before[u]) # Header(u, job.after[u])
    BY <1>4 DEF ChangesOf
  <2>3. u \in Present(src)
    BY <1>1
  <2>4. job.prev[u].members = Shown(u, TextsOf(job.prev))
    BY <1>1, <2>3 DEF Described
  <2>5. job.after[u].members = Shown(u, src) /\ job.after[u].of = src[u]
    BY <2>2, <2>3 DEF Right, AfterRight, Entered
  <2> QED BY <2>1, <2>2, <2>4, <2>5 DEF Moved, Header
<1> QED BY <1>3, <1>4

LEMMA ReachRight ==
  ASSUME Right, Reach
  PROVE  Right'
<1>1. UNCHANGED <<src, settings, dir, print, index, cache, last, trial>> /\ job.at = "reach"
  BY DEF Reach, At
<1>2. /\ DOMAIN job = JobFields /\ job.unit = Present(src) /\ job.cur = src /\ job.saved = FALSE
      /\ (trial.cache => job.key = Key) /\ last = NoEnd /\ Known(src) /\ OnSources(out)
      /\ Described(job.prev) /\ DOMAIN job.prev = Present(src) /\ job.rounds \in Nat
      /\ First \subseteq job.compiled /\ job.compiled \subseteq Present(src) /\ job.round \subseteq job.compiled
  BY <1>1, Same12 DEF RoundSteps
<1>3. PICK changes : changes = ChangesOf(job.before, job.after, job.round)
  OBVIOUS
<1>4. PICK next : next = IF job.rounds > Rounds \/ changes.added \cup changes.broken = {} THEN {}
                         ELSE Reached(job.after, changes)
  OBVIOUS
<1>5. EndRight' /\ CacheRight' /\ Known(src') /\ Present(src') # {} /\ settings' \in Nat \ {0}
  BY <1>1, <1>2 DEF Right, EndRight, CacheRight, NoEnd
<1>6. Rounds \in Nat /\ Rounds # 0 /\ (FirstRound <=> job.rounds = 1) /\ job.rounds # 0
  BY <1>1, UnitAssumption DEF FirstRound, At, Right, FilesRight
<1>7. CASE job.rounds <= Rounds /\ ~SafeToCompare(job.before, job.after, job.round)
  <2>1. Go("clear") /\ UNCHANGED out
    BY <1>7 DEF Reach
  <2>2. /\ DOMAIN job' = JobFields /\ job'.at = "clear"
        /\ job'.key = job.key /\ job'.unit = job.unit /\ job'.cur = job.cur /\ job'.saved = job.saved
    BY <1>2, <2>1, Going
  <2>3. JobRight'
    BY <1>1, <1>2, <2>2 DEF JobRight, Steps, Cached, At, Key
  <2>4. IndexRight' /\ OutRight'
    BY <1>2, <2>1, <2>2 DEF IndexRight, OutRight
  <2>5. RoundRight' /\ FilesRight' /\ AfterRight'
    BY <2>2, Elsewhere DEF RoundSteps
  <2> QED BY <1>5, <2>2, <2>3, <2>4, <2>5 DEF Right
<1>8. CASE ~(job.rounds <= Rounds /\ ~SafeToCompare(job.before, job.after, job.round))
  <2>1. PICK B : /\ B = Against /\ Known(B) /\ Present(B) = Present(src)
                 /\ \A u \in Present(src) \ job.round : B[u] = src[u]
    BY <1>1, AgainstIs
  <2>2. Present(src) \subseteq Sources /\ \A u \in Sources : u \in Present(src) <=> src[u] # 0
    BY DEF Present
  <2>3. ASSUME NEW u \in Present(src), u \notin next
        PROVE  out[u] = Compiled(u, src, settings) /\ Entered(job.after[u], u, src)
    <3>1. CASE u \in job.round
      BY <1>1, <3>1 DEF Right, FilesRight, AfterRight
    <3>2. CASE u \notin job.round /\ ~FirstRound
      BY <1>1, <3>2 DEF Right, FilesRight, AfterRight, Against
    <3>3. CASE u \notin job.round /\ FirstRound
      <4>1. B = TextsOf(job.prev)
        BY <2>1, <3>3 DEF Against
      <4>2. SafeToCompare(job.before, job.after, job.round)
        BY <1>6, <1>8, <3>3
      <4>3. changes.added \cup changes.broken # {} => u \notin Reached(job.after, changes)
        BY <1>4, <1>6, <2>3, <3>3
      <4>4. Compiled(u, B, settings) = Compiled(u, src, settings)
        BY <1>1, <1>3, <3>3, <4>1, <4>2, <4>3, NotReached
      <4>5. u \in Sources /\ B[u] # 0 /\ src[u] # 0
        BY <2>1, <2>2, <3>3
      <4>6. Shown(u, B) = Shown(u, src)
        BY <1>2, <2>1, <4>4, <4>5, CompiledIsOf
      <4>7. out[u] = Compiled(u, B, settings) /\ Entered(job.after[u], u, B)
        BY <1>1, <2>1, <3>3 DEF Right, FilesRight, AfterRight
      <4> QED BY <4>4, <4>6, <4>7 DEF Entered
    <3> QED BY <3>1, <3>2, <3>3
  <2>4. \A u \in Sources \ Present(src) : out[u] = NoClass
    BY <1>1 DEF Right, RoundRight, RoundSteps
  <2>5. job.compiled = First \/ \E u \in First : Moved(u)
    BY <1>1 DEF Right, RoundRight, RoundSteps
  <2>6. CASE next = {}
    <3>1. Go("save") /\ UNCHANGED out
      BY <1>3, <1>4, <1>8, <2>6 DEF Reach
    <3>2. /\ DOMAIN job' = JobFields /\ job'.at = "save" /\ job'.rounds = job.rounds
          /\ job'.key = job.key /\ job'.unit = job.unit /\ job'.cur = job.cur /\ job'.saved = job.saved
          /\ job'.prev = job.prev /\ job'.after = job.after
          /\ job'.round = job.round /\ job'.compiled = job.compiled
      BY <1>2, <3>1, Going
    <3>3. out = Whole(src, settings)
      <4>1. \A u \in Sources : out[u] = IF src[u] # 0 THEN Compiled(u, src, settings) ELSE NoClass
        BY <2>2, <2>3, <2>4, <2>6
      <4>2. out = [u \in Sources |-> IF src[u] # 0 THEN Compiled(u, src, settings) ELSE NoClass]
        BY <1>2, <4>1 DEF OnSources
      <4> QED BY <1>2, <4>2, WholeIs
    <3>4. First' = First /\ \A u \in First : Moved(u)' = Moved(u)
      BY <1>1, <3>2 DEF First, Moved
    <3>5. RoundRight'
      BY <1>1, <3>1, <3>2, <3>4 DEF Right, RoundRight, RoundSteps
    <3>6. FilesRight'
      BY <3>2 DEF FilesRight
    <3>7. ASSUME NEW u \in Present(src) PROVE Entered(job.after[u], u, src)'
      BY <1>1, <2>3, <2>6, <3>2 DEF Entered
    <3>8. AfterRight'
      <4>1. Present(src') = Present(src) /\ DOMAIN job'.after = Present(src)
            /\ \A u \in Present(src) : job'.after[u].hash = src'[u]
        BY <1>1, <3>2 DEF Right, AfterRight
      <4> QED BY <3>2, <3>7, <4>1 DEF AfterRight
    <3>9. JobRight'
      BY <1>1, <1>2, <3>2 DEF JobRight, Steps, Cached, RoundSteps, At, Key
    <3>10. IndexRight' /\ OutRight'
      BY <1>1, <1>2, <3>1, <3>2, <3>3 DEF IndexRight, OutRight
    <3> QED BY <1>5, <3>2, <3>5, <3>6, <3>8, <3>9, <3>10 DEF Right
  <2>7. CASE next # {}
    <3>1. /\ out' = Without(next)
          /\ job' = [job EXCEPT !.at = "javac", !.round = next, !.compiled = @ \cup next,
                       !.rounds = IF GivesUp(changes) THEN Rounds ELSE @]
      BY <1>3, <1>4, <1>8, <2>7 DEF Reach
    <3>2. /\ DOMAIN job' = JobFields /\ job'.at = "javac"
          /\ job'.rounds = IF GivesUp(changes) THEN Rounds ELSE job.rounds
          /\ job'.key = job.key /\ job'.unit = job.unit /\ job'.cur = job.cur /\ job'.saved = job.saved
          /\ job'.prev = job.prev /\ job'.after = job.after
          /\ job'.round = next /\ job'.compiled = job.compiled \cup next
      BY <1>2, <3>1 DEF JobFields
    <3>3. ~FirstRound' /\ Against' = src /\ job'.rounds \in Nat
      BY <1>1, <1>2, <1>6, <3>2 DEF FirstRound, Against, At
    <3>4. First' = First /\ \A u \in First : Moved(u)' = Moved(u)
      BY <1>1, <3>2 DEF First, Moved
    <3>5. next \subseteq Present(src)
      BY <1>1, <1>3, <1>4, ReachedIs
    <3>6. \E u \in First : Moved(u)
      <4>1. CASE FirstRound
        BY <1>1, <1>3, <1>4, <2>7, <4>1, ReachedIs
      <4>2. CASE ~FirstRound
        BY <1>1, <4>2 DEF Right, FilesRight
      <4> QED BY <4>1, <4>2
    <3>7. \A u \in Sources : out'[u] = IF u \in next THEN NoClass ELSE out[u]
      BY <3>1 DEF Without
    <3>8. \A u \in Present(src) \ (job.compiled \cup next) : out'[u] = Compiled(u, TextsOf(job.prev), settings)
      BY <1>1, <2>2, <3>7 DEF Right, RoundRight, RoundSteps
    <3>9. \A u \in Sources \ Present(src) : out'[u] = NoClass
      BY <2>4, <3>7
    <3>10. RoundRight'
      BY <1>1, <1>2, <3>2, <3>3, <3>4, <3>5, <3>6, <3>8, <3>9 DEF RoundRight, RoundSteps
    <3>11. \A u \in Present(src) \ next : out'[u] = Compiled(u, src, settings)
      BY <2>2, <2>3, <3>7
    <3>12. FilesRight'
      BY <1>1, <3>2, <3>3, <3>4, <3>6, <3>11 DEF FilesRight
    <3>13. ASSUME NEW u \in Present(src) \ next PROVE Entered(job.after[u], u, Against)'
      BY <1>1, <2>3, <3>2, <3>3 DEF Entered
    <3>14. AfterRight'
      BY <1>1, <3>2, <3>3, <3>13 DEF AfterRight
    <3>15. JobRight'
      BY <1>1, <1>2, <3>2 DEF JobRight, Steps, Cached, RoundSteps, At, Key
    <3>16. IndexRight' /\ OutRight'
      BY <3>1, <3>2 DEF IndexRight, OutRight, OnSources, Without
    <3> QED BY <1>5, <3>2, <3>10, <3>12, <3>14, <3>15, <3>16 DEF Right
  <2> QED BY <2>6, <2>7
<1> QED BY <1>7, <1>8

LEMMA SaveRight ==
  ASSUME Right, Save
  PROVE  Right'
<1>1. UNCHANGED <<src, settings, dir, out, print, cache, last, trial>> /\ job.at = "save"
      /\ index' = [settings |-> settings, of |-> job.after] /\ Go("stamp")
  BY DEF Save, At
<1>2. /\ DOMAIN job = JobFields /\ job.unit = Present(src) /\ job.cur = src /\ job.saved = FALSE
      /\ (trial.cache => job.key = Key) /\ last = NoEnd /\ Known(src) /\ OnSources(out)
  BY <1>1, Same12 DEF RoundSteps
<1>3. /\ DOMAIN job' = JobFields /\ job'.at = "stamp"
      /\ job'.key = job.key /\ job'.unit = job.unit /\ job'.cur = job.cur /\ job'.saved = job.saved
  BY <1>1, <1>2, Going
<1>4. out = Whole(src, settings)
  BY <1>1 DEF Right, OutRight
<1>5. Filed(job.after, out, settings)
  <2>1. DOMAIN job.after = Present(src)
    BY <1>1 DEF Right, AfterRight
  <2>2. \A u \in Present(src) :
           /\ DOMAIN job.after[u] = EntryFields
           /\ job.after[u].hash = src[u] /\ job.after[u].of = src[u]
           /\ job.after[u].members = Shown(u, src)
           /\ job.after[u].deps = Uses(u, src[u]) \cap Present(src)
    BY <1>1 DEF Right, AfterRight, Entered
  <2>3. PICK entries : entries = job.after
    OBVIOUS
  <2>4. Filed(entries, Whole(src, settings), settings)
    BY <1>2, <2>1, <2>2, <2>3, WholeIsFiled
  <2> QED BY <1>4, <2>3, <2>4
<1>6. JobRight'
  BY <1>1, <1>2, <1>3 DEF JobRight, Steps, Cached, At, Key
<1>7. EndRight' /\ CacheRight'
  BY <1>1, <1>2, <1>3 DEF Right, EndRight, CacheRight, NoEnd
<1>8. IndexRight' /\ OutRight'
  BY <1>1, <1>2, <1>3, <1>4, <1>5 DEF IndexRight, OutRight
<1>9. RoundRight' /\ FilesRight' /\ AfterRight'
  BY <1>3, Elsewhere DEF RoundSteps
<1> QED BY <1>1, <1>6, <1>7, <1>8, <1>9 DEF Right
-----------------------------------------------------------------------------
(* Every step keeps it: the whole unit, and the end of a build.            *)

LEMMA JobIs ==
  ASSUME Right, ~At("idle")
  PROVE  /\ DOMAIN job = JobFields /\ job.unit = Present(src) /\ job.cur = src /\ job.saved = FALSE
         /\ (trial.cache /\ job.at # "look up" => job.key = Key) /\ last = NoEnd /\ Known(src) /\ OnSources(out)
         /\ Present(src) # {} /\ settings \in Nat \ {0}
BY DEF Right, JobRight, EndRight, OutRight

LEMMA ClearRight ==
  ASSUME Right, Clear \/ Create
  PROVE  Right'
<1>1. UNCHANGED <<src, settings, print, index, cache, last, trial>> /\ job.at \in {"clear", "create"}
      /\ ~At("idle")
  BY DEF Clear, Create, At
<1>2. /\ DOMAIN job = JobFields /\ job.unit = Present(src) /\ job.cur = src /\ job.saved = FALSE
      /\ (trial.cache => job.key = Key) /\ last = NoEnd /\ Known(src)
      /\ Present(src) # {} /\ settings \in Nat \ {0}
  BY <1>1, JobIs
<1>3. out' = NoClasses /\ OnSources(out')
  <2>1. out' = NoClasses
    BY DEF Clear, Create, Right, OutRight, At
  <2>2. OnSources(NoClasses)
    BY DEF OnSources, NoClasses
  <2> QED BY <2>1, <2>2
<1>4. /\ DOMAIN job' = JobFields /\ job'.at \in {"create", "javac all"}
      /\ job'.key = job.key /\ job'.unit = job.unit /\ job'.cur = job.cur /\ job'.saved = job.saved
      /\ job'.at = "javac all" => job'.round = job.unit
  <2>1. CASE Clear
    <3>1. Go("create")
      BY <2>1 DEF Clear
    <3>2. /\ DOMAIN job' = JobFields /\ job'.at = "create"
          /\ job'.key = job.key /\ job'.unit = job.unit /\ job'.cur = job.cur /\ job'.saved = job.saved
      BY <1>2, <3>1, Going
    <3> QED BY <3>2
  <2>2. CASE Create
    BY <1>2, <2>2 DEF Create, JobFields
  <2> QED BY <2>1, <2>2
<1>5. JobRight'
  BY <1>1, <1>2, <1>4 DEF JobRight, Steps, Cached, At, Key
<1>6. EndRight' /\ CacheRight'
  BY <1>1, <1>2, <1>4 DEF Right, EndRight, CacheRight, NoEnd
<1>7. IndexRight' /\ OutRight'
  BY <1>1, <1>2, <1>3, <1>4 DEF IndexRight, OutRight
<1>8. RoundRight' /\ FilesRight' /\ AfterRight'
  BY <1>4, Elsewhere DEF RoundSteps
<1> QED BY <1>1, <1>2, <1>5, <1>6, <1>7, <1>8 DEF Right

LEMMA JavacAllRight ==
  ASSUME Right, JavacAll
  PROVE  Right'
<1>1. UNCHANGED <<src, settings, dir, cache, trial>> /\ job.at = "javac all" /\ ~At("idle")
  BY DEF JavacAll, At
<1>2. /\ DOMAIN job = JobFields /\ job.unit = Present(src) /\ job.cur = src /\ job.saved = FALSE
      /\ (trial.cache => job.key = Key) /\ last = NoEnd /\ Known(src)
      /\ Present(src) # {} /\ settings \in Nat \ {0} /\ out = NoClasses
  BY <1>1, JobIs DEF Right, OutRight
<1>3. CASE Fails(job.unit, src, out)
  <2>1. PICK W : out' = Written(job.unit, W, src, out, settings)
    BY <1>3 DEF JavacAll
  <2>2. /\ index' = NoIndex /\ print' = NoPrint
        /\ job' = NoJob /\ job'.at = "idle" /\ last'.result = "failed"
    <3>1. index' = NoIndex /\ print' = NoPrint /\ End("failed")
      BY <1>3 DEF JavacAll
    <3> QED BY <3>1 DEF End, NoJob
  <2>3. EndRight' /\ JobRight' /\ CacheRight'
    BY <1>1, <1>2, <1>3, <2>2 DEF Right, EndRight, JobRight, CacheRight, At
  <2>4. IndexRight' /\ OutRight'
    BY <2>1, <2>2 DEF IndexRight, OutRight, OnSources, Written
  <2>5. RoundRight' /\ FilesRight' /\ AfterRight'
    BY <2>2, Elsewhere DEF RoundSteps
  <2> QED BY <1>1, <1>2, <2>3, <2>4, <2>5 DEF Right
<1>4. CASE ~Fails(job.unit, src, out)
  <2>1. out' = Written(job.unit, job.unit, src, out, settings) /\ Go("index all") /\ UNCHANGED <<print, index, last>>
    BY <1>4 DEF JavacAll
  <2>2. /\ DOMAIN job' = JobFields /\ job'.at = "index all"
        /\ job'.key = job.key /\ job'.unit = job.unit /\ job'.cur = job.cur /\ job'.saved = job.saved
    BY <1>2, <2>1, Going
  <2>3. out' = Whole(src, settings) /\ OnSources(out')
    BY <1>2, <2>1 DEF Whole, OnSources, Written
  <2>4. JobRight'
    BY <1>1, <1>2, <2>2 DEF JobRight, Steps, Cached, At, Key
  <2>5. EndRight' /\ CacheRight'
    BY <1>1, <1>2, <2>1, <2>2 DEF Right, EndRight, CacheRight, NoEnd
  <2>6. IndexRight' /\ OutRight'
    BY <1>1, <2>2, <2>3 DEF IndexRight, OutRight
  <2>7. RoundRight' /\ FilesRight' /\ AfterRight'
    BY <2>2, Elsewhere DEF RoundSteps
  <2> QED BY <1>1, <1>2, <2>4, <2>5, <2>6, <2>7 DEF Right
<1> QED BY <1>3, <1>4

LEMMA IndexAllRight ==
  ASSUME Right, IndexAll
  PROVE  Right'
<1>1. UNCHANGED <<src, settings, dir, out, print, cache, last, trial>> /\ job.at = "index all"
      /\ ~At("idle") /\ index' = [settings |-> settings, of |-> Recorded({})] /\ Go("stamp")
  BY DEF IndexAll, At
<1>2. /\ DOMAIN job = JobFields /\ job.unit = Present(src) /\ job.cur = src /\ job.saved = FALSE
      /\ (trial.cache => job.key = Key) /\ last = NoEnd /\ Known(src) /\ OnSources(out)
      /\ Present(src) # {} /\ settings \in Nat \ {0} /\ out = Whole(src, settings)
  BY <1>1, JobIs DEF Right, OutRight
<1>3. /\ DOMAIN job' = JobFields /\ job'.at = "stamp"
      /\ job'.key = job.key /\ job'.unit = job.unit /\ job'.cur = job.cur /\ job'.saved = job.saved
  BY <1>1, <1>2, Going
<1>4. PICK entries : entries = Recorded({})
  OBVIOUS
<1>5. \A u \in Sources : out[u] = IF src[u] # 0 THEN Compiled(u, src, settings) ELSE NoClass
  BY <1>2, WholeIs
<1>6. ASSUME NEW u \in Sources PROVE out[u].of = src[u]
  BY <1>2, <1>5, CompiledIsOf DEF IsOf, NoClass
<1>7. ASSUME NEW s \in Present(src)
      PROVE  /\ DOMAIN entries[s] = EntryFields
             /\ entries[s].hash = src[s] /\ entries[s].of = src[s]
             /\ entries[s].members = Shown(s, src)
             /\ entries[s].deps = Uses(s, src[s]) \cap Present(src)
  <2>1. s \in Sources /\ src[s] # 0 /\ out[s].of = src[s]
    BY <1>6 DEF Present
  <2>2. entries[s] = [hash |-> src[s], of |-> out[s].of, members |-> out[s].members,
                      deps |-> {u \in Refers(s) : u # s /\ out[u].of # 0}]
    BY <1>2, <1>4 DEF Recorded, Entry
  <2>3. out[s].members = Shown(s, src)
    BY <1>2, <1>5, <2>1, CompiledIsOf
  <2>4. Refers(s) = Uses(s, src[s])
    BY <2>1 DEF Refers, Uses
  <2>5. Uses(s, src[s]) \subseteq Sources /\ s \notin Uses(s, src[s])
    BY <1>2, <2>1, TextType
  <2>6. {u \in Refers(s) : u # s /\ out[u].of # 0} = Uses(s, src[s]) \cap Present(src)
    BY <1>6, <2>4, <2>5 DEF Present
  <2>7. DOMAIN entries[s] = EntryFields
    BY <2>2 DEF EntryFields
  <2> QED BY <2>1, <2>2, <2>3, <2>6, <2>7
<1>8. DOMAIN entries = Present(src)
  BY <1>2, <1>4 DEF Recorded
<1>9. Filed(entries, out, settings)
  <2>1. Filed(entries, Whole(src, settings), settings)
    BY <1>2, <1>7, <1>8, WholeIsFiled
  <2> QED BY <1>2, <2>1
<1>10. JobRight'
  BY <1>1, <1>2, <1>3 DEF JobRight, Steps, Cached, At, Key
<1>11. EndRight' /\ CacheRight'
  BY <1>1, <1>2, <1>3 DEF Right, EndRight, CacheRight, NoEnd
<1>12. IndexRight' /\ OutRight'
  BY <1>1, <1>2, <1>3, <1>4, <1>9 DEF IndexRight, OutRight
<1>13. RoundRight' /\ FilesRight' /\ AfterRight'
  BY <1>3, Elsewhere DEF RoundSteps
<1> QED BY <1>1, <1>2, <1>10, <1>11, <1>12, <1>13 DEF Right

LEMMA StampRight ==
  ASSUME Right, Stamp
  PROVE  Right'
<1>1. UNCHANGED <<src, settings, dir, out, index, cache, trial>> /\ job.at = "stamp"
      /\ ~At("idle") /\ print' = <<settings, job.unit>>
  BY DEF Stamp, At, Fingerprint
<1>2. /\ DOMAIN job = JobFields /\ job.unit = Present(src) /\ job.cur = src /\ job.saved = FALSE
      /\ (trial.cache => job.key = Key) /\ last = NoEnd /\ Known(src) /\ OnSources(out)
      /\ Present(src) # {} /\ settings \in Nat \ {0} /\ out = Whole(src, settings)
      /\ index.settings = settings /\ Filed(index.of, out, settings)
  BY <1>1, JobIs DEF Right, OutRight, IndexRight
<1>3. print'[1] = settings
  BY <1>1
<1>4. CASE trial.cache /\ ~job.restored
  <2>1. Go("store") /\ UNCHANGED last
    BY <1>4 DEF Stamp
  <2>2. /\ DOMAIN job' = JobFields /\ job'.at = "store"
        /\ job'.key = job.key /\ job'.unit = job.unit /\ job'.cur = job.cur /\ job'.saved = job.saved
    BY <1>2, <2>1, Going
  <2>3. JobRight'
    BY <1>1, <1>2, <1>4, <2>2 DEF JobRight, Steps, Cached, At, Key
  <2>4. EndRight' /\ CacheRight'
    BY <1>1, <1>2, <2>1, <2>2 DEF Right, EndRight, CacheRight, NoEnd
  <2>5. IndexRight' /\ OutRight'
    BY <1>1, <1>2, <1>3, <2>2 DEF IndexRight, OutRight
  <2>6. RoundRight' /\ FilesRight' /\ AfterRight'
    BY <2>2, Elsewhere DEF RoundSteps
  <2> QED BY <1>1, <1>2, <2>3, <2>4, <2>5, <2>6 DEF Right
<1>5. CASE ~(trial.cache /\ ~job.restored)
  <2>1. job' = NoJob /\ last'.result = "ok" /\ job'.at = "idle"
    BY <1>5 DEF Stamp, End, NoJob
  <2>2. EndRight' /\ JobRight' /\ CacheRight'
    BY <1>1, <1>2, <2>1 DEF Right, EndRight, JobRight, CacheRight, At
  <2>3. IndexRight' /\ OutRight'
    BY <1>1, <1>2, <1>3, <2>1 DEF IndexRight, OutRight
  <2>4. RoundRight' /\ FilesRight' /\ AfterRight'
    BY <2>1, Elsewhere DEF RoundSteps
  <2> QED BY <1>1, <1>2, <2>2, <2>3, <2>4 DEF Right
<1> QED BY <1>4, <1>5

LEMMA StoreRight ==
  ASSUME Right, Store
  PROVE  Right'
<1>1. UNCHANGED <<src, settings, dir, out, print, index, trial>> /\ job.at = "store" /\ ~At("idle")
      /\ cache' = [key \in DOMAIN cache \cup {job.key} |-> IF key = job.key THEN out ELSE cache[key]]
  BY DEF Store, At
<1>2. /\ DOMAIN job = JobFields /\ trial.cache /\ Known(src) /\ OnSources(out)
      /\ Present(src) # {} /\ settings \in Nat \ {0} /\ out = Whole(src, settings)
  BY <1>1, JobIs DEF Right, OutRight, JobRight, Cached
<1>3. job.key = <<settings, src>>
  BY <1>1, <1>2, JobIs DEF Key
<1>4. job' = NoJob /\ last'.result = "ok" /\ job'.at = "idle"
  BY DEF Store, End, NoJob
<1>5. CacheRight'
  <2>1. ASSUME NEW key \in DOMAIN cache'
        PROVE  \E ver, set : key = <<set, ver>> /\ cache'[key] = Whole(ver, set)
    <3>1. CASE key = job.key
      BY <1>1, <1>2, <1>3, <3>1
    <3>2. CASE key # job.key
      <4>1. key \in DOMAIN cache /\ cache'[key] = cache[key]
        BY <1>1, <3>2
      <4> QED BY <4>1 DEF Right, CacheRight
    <3> QED BY <3>1, <3>2
  <2> QED BY <2>1 DEF CacheRight
<1>6. EndRight' /\ JobRight'
  BY <1>1, <1>2, <1>4 DEF EndRight, JobRight, At
<1>7. IndexRight' /\ OutRight'
  BY <1>1, <1>4 DEF Right, IndexRight, OutRight
<1>8. RoundRight' /\ FilesRight' /\ AfterRight'
  BY <1>4, Elsewhere DEF RoundSteps
<1> QED BY <1>1, <1>2, <1>5, <1>6, <1>7, <1>8 DEF Right
-----------------------------------------------------------------------------
(* Every step keeps it: what happens around a build.                       *)

LEMMA SpendIs ==
  ASSUME trial \in TrialType, NEW what \in {"edits", "saves", "crashes", "clears"}, Spend(what)
  PROVE  /\ trial' \in TrialType /\ trial[what] # 0
         /\ trial'.exact = trial.exact /\ trial'.cache = trial.cache /\ trial'.reverts = trial.reverts
         /\ trial'.settings = trial.settings /\ trial'.killsAt = trial.killsAt
         /\ trial.saves = 0 => trial'.saves = 0
         /\ trial.clears = 0 => trial'.clears = 0
<1>1. trial[what] \in Nat /\ trial[what] > 0 /\ trial' = [trial EXCEPT ![what] = trial[what] - 1]
  BY DEF Spend, TrialType
<1>2. trial[what] - 1 \in Nat
  BY <1>1
<1>3. trial' \in TrialType
  BY <1>1, <1>2 DEF TrialType
<1> QED BY <1>1, <1>2, <1>3 DEF TrialType

LEMMA StepsSpendNothing == Step \/ Begin => UNCHANGED trial
<1>1. Begin \/ LookUp \/ Forget \/ ForgetIndex \/ Extract \/ TakeStock \/ Track => UNCHANGED trial
  BY DEF Begin, LookUp, Forget, ForgetIndex, Extract, TakeStock, Track
<1>2. Sweep \/ Javac \/ Record \/ Reach \/ Save => UNCHANGED trial
  BY DEF Sweep, Javac, Record, Reach, Save
<1>3. Clear \/ Create \/ JavacAll \/ IndexAll \/ Stamp \/ Store => UNCHANGED trial
  BY DEF Clear, Create, JavacAll, IndexAll, Stamp, Store
<1> QED BY <1>1, <1>2, <1>3 DEF Step

LEMMA TrialsStay ==
  ASSUME trial \in TrialType, [Next]_vars
  PROVE  /\ trial' \in TrialType
         /\ Undisturbed(trial) => Undisturbed(trial')
         /\ Forward(trial) => Forward(trial')
<1>1. CASE Step \/ Begin \/ Evict \/ UNCHANGED vars
  BY <1>1, StepsSpendNothing DEF Evict, vars
<1>2. CASE Edit \/ SaveSource \/ Crash \/ ClearOut
  <2>1. PICK what \in {"edits", "saves", "crashes", "clears"} : Spend(what)
    BY <1>2 DEF Edit, SaveSource, Crash, ClearOut
  <2> QED BY <2>1, SpendIs DEF Undisturbed, Forward
<1> QED BY <1>1, <1>2 DEF Next

LEMMA EditRight ==
  ASSUME Right, trial \in TrialType, Edit
  PROVE  Right'
<1>1. UNCHANGED <<dir, out, print, index, cache, job>> /\ job.at = "idle" /\ last' = NoEnd
  BY DEF Edit, At
<1>2. Known(src') /\ Present(src') # {} /\ settings' \in Nat \ {0}
  <2>1. Known(src) /\ Present(src) # {} /\ settings \in Nat \ {0}
    BY DEF Right
  <2>2. CASE UNCHANGED src /\ settings' \in trial.settings
    <3>1. settings' \in Nat \ {0}
      BY <2>2, UnitAssumption DEF TrialType
    <3> QED BY <2>1, <2>2, <3>1
  <2>3. CASE \E s \in Sources : \E v \in Versions(s) \cup {0} :
               src' = [src EXCEPT ![s] = v] /\ Present(src') # {} /\ UNCHANGED settings
    <3>1. PICK s \in Sources : \E v \in Versions(s) \cup {0} : src' = [src EXCEPT ![s] = v]
      BY <2>3
    <3>2. PICK v \in Versions(s) \cup {0} : src' = [src EXCEPT ![s] = v]
      BY <3>1
    <3>3. v \in Nat
      BY TextAssumption DEF Versions
    <3>4. Known(src')
      BY <2>1, <3>2, <3>3 DEF Known, Versions
    <3> QED BY <2>1, <2>3, <3>4
  <2> QED BY <2>2, <2>3 DEF Edit
<1>3. EndRight' /\ CacheRight' /\ JobRight'
  BY <1>1 DEF Right, EndRight, CacheRight, JobRight, NoEnd, At
<1>4. IndexRight' /\ OutRight'
  BY <1>1 DEF Right, IndexRight, OutRight
<1>5. RoundRight' /\ FilesRight' /\ AfterRight'
  BY <1>1, Elsewhere DEF RoundSteps
<1> QED BY <1>2, <1>3, <1>4, <1>5 DEF Right

LEMMA EvictRight ==
  ASSUME Right, Evict
  PROVE  Right'
<1>1. UNCHANGED <<src, settings, dir, out, print, index, job, last, trial>> /\ job.at = "idle" /\ cache' = <<>>
  BY DEF Evict, At
<1>2. EndRight' /\ CacheRight' /\ JobRight'
  BY <1>1 DEF Right, EndRight, CacheRight, JobRight, NoEnd, At
<1>3. IndexRight' /\ OutRight'
  BY <1>1 DEF Right, IndexRight, OutRight
<1>4. RoundRight' /\ FilesRight' /\ AfterRight'
  BY <1>1, Elsewhere DEF RoundSteps
<1> QED BY <1>1, <1>2, <1>3, <1>4 DEF Right

\* Killed before anything is written, or while an entry is restored, when
\* there is no index any more.
LEMMA CrashRight ==
  ASSUME Right, Undisturbed(trial), Crash
  PROVE  Right'
<1>1. UNCHANGED <<src, settings, print, index, cache>> /\ last' = NoEnd /\ job' = NoJob /\ job'.at = "idle"
      /\ job.at \in {"look up", "forget", "forget index", "extract", "take stock", "track", "sweep", "store"}
  BY DEF Crash, Undisturbed, NoJob
<1>2. OnSources(out') /\ (UNCHANGED out \/ job.at = "extract")
  <2>1. CASE UNCHANGED <<dir, out>>
    BY <2>1 DEF Right, OutRight, OnSources
  <2>2. CASE At("extract") /\ dir' = TRUE
             /\ \E W \in SUBSET job.unit :
                  out' = [s \in Sources |-> IF s \in W THEN cache[job.key][s] ELSE NoClass]
    BY <2>2 DEF OnSources, At
  <2>3. CASE job.at \in {"javac", "javac all"}
    BY <1>1, <2>3
  <2> QED BY <2>1, <2>2, <2>3 DEF Crash
<1>3. EndRight' /\ CacheRight' /\ JobRight'
  BY <1>1 DEF Right, EndRight, CacheRight, JobRight, NoEnd, At
<1>4. IndexRight'
  BY <1>1, <1>2 DEF Right, IndexRight
<1>5. OutRight'
  BY <1>1, <1>2 DEF OutRight
<1>6. RoundRight' /\ FilesRight' /\ AfterRight'
  BY <1>1, Elsewhere DEF RoundSteps
<1> QED BY <1>1, <1>3, <1>4, <1>5, <1>6 DEF Right

LEMMA StaysRight ==
  ASSUME Right, UNCHANGED vars
  PROVE  Right'
<1> USE DEF vars, disk
<1>1. EndRight' /\ CacheRight' /\ JobRight'
  BY DEF Right, EndRight, CacheRight, JobRight, At, Key
<1>2. IndexRight' /\ OutRight'
  BY DEF Right, IndexRight, OutRight
<1>3. First' = First /\ FirstRound' = FirstRound /\ Against' = Against
  BY DEF First, FirstRound, Against, At
<1>4. \A u : Moved(u)' = Moved(u)
  BY DEF Moved
<1>5. RoundRight' /\ FilesRight'
  BY <1>3, <1>4 DEF Right, RoundRight, FilesRight
<1>6. AfterRight'
  BY <1>3 DEF Right, AfterRight, Entered
<1> QED BY <1>1, <1>2, <1>5, <1>6 DEF Right

LEMMA NextRight ==
  ASSUME Right, trial \in TrialType, Undisturbed(trial), [Next]_vars
  PROVE  Right'
<1>1. CASE Begin
  BY <1>1, BeginRight
<1>2. CASE LookUp \/ Forget \/ ForgetIndex \/ Extract \/ TakeStock \/ Track \/ Sweep
  BY <1>2, LookUpRight, ForgetRight, ExtractRight, TakeStockRight, TrackRight, SweepRight
<1>3. CASE Javac \/ Record \/ Reach \/ Save
  BY <1>3, JavacRight, RecordRight, ReachRight, SaveRight
<1>4. CASE Clear \/ Create \/ JavacAll \/ IndexAll \/ Stamp \/ Store
  BY <1>4, ClearRight, JavacAllRight, IndexAllRight, StampRight, StoreRight
<1>5. CASE Edit \/ Crash \/ Evict
  BY <1>5, EditRight, CrashRight, EvictRight
<1>6. CASE SaveSource \/ ClearOut
  <2>1. Spend("saves") \/ Spend("clears")
    BY <1>6 DEF SaveSource, ClearOut
  <2>2. trial.saves # 0 \/ trial.clears # 0
    BY <2>1, SpendIs
  <2> QED BY <2>2 DEF Undisturbed
<1>7. CASE UNCHANGED vars
  BY <1>7, StaysRight
<1> QED BY <1>1, <1>2, <1>3, <1>4, <1>5, <1>6, <1>7 DEF Next, Step
-----------------------------------------------------------------------------
(* The other trials: every step goes onward.                               *)

\* A source is saved, or its class file written anew or deleted: what was
\* told by its hash still is.
LEMMA MovesOn ==
  ASSUME OnDisk, src' \in [Sources -> Nat],
         \A s \in Sources : src'[s] >= src[s] /\ out'[s].of \in {out[s].of, src[s], 0}
  PROVE  /\ \A s \in Sources : out'[s].of \in Nat /\ out'[s].of <= src'[s]
         /\ \A s \in Sources : \A hash \in Nat : Dated(hash, s) => Dated(hash, s)'
         /\ \A s \in Sources : \A hash \in Nat :
              hash <= src'[s] /\ out'[s].of = 0 => Dated(hash, s)'
<1>1. src \in [Sources -> Nat] /\ \A s \in Sources : out[s].of \in Nat /\ out[s].of <= src[s]
  BY DEF OnDisk
<1>2. ASSUME NEW s \in Sources
      PROVE  /\ src[s] \in Nat /\ src'[s] \in Nat /\ src'[s] >= src[s]
             /\ out[s].of \in Nat /\ out[s].of <= src[s]
             /\ out'[s].of = out[s].of \/ out'[s].of = src[s] \/ out'[s].of = 0
  BY <1>1
<1>3. \A s \in Sources : out'[s].of \in Nat /\ out'[s].of <= src'[s]
  BY <1>2
<1>4. ASSUME NEW s \in Sources, NEW hash \in Nat, Dated(hash, s)
      PROVE  Dated(hash, s)'
  <2>1. hash <= src[s] /\ (hash = 0 \/ hash < src[s] \/ out[s].of = 0 \/ out[s].of = hash)
    BY <1>4 DEF Dated
  <2>2. hash <= src'[s] /\ (hash = 0 \/ hash < src'[s] \/ out'[s].of = 0 \/ out'[s].of = hash)
    BY <1>2, <2>1
  <2> QED BY <2>2 DEF Dated
<1>5. ASSUME NEW s \in Sources, NEW hash \in Nat, hash <= src'[s], out'[s].of = 0
      PROVE  Dated(hash, s)'
  BY <1>5 DEF Dated
<1> QED BY <1>3, <1>4, <1>5

\* OnDisk, where the index stays.
LEMMA DiskStays ==
  ASSUME OnDisk, src' \in [Sources -> Nat], UNCHANGED <<index, cache>>,
         \A s \in Sources : src'[s] >= src[s] /\ out'[s].of \in {out[s].of, src[s], 0}
  PROVE  OnDisk'
<1>1. /\ \A s \in Sources : out'[s].of \in Nat /\ out'[s].of <= src'[s]
      /\ \A s \in Sources : \A hash \in Nat : Dated(hash, s) => Dated(hash, s)'
  BY MovesOn
<1>2. ASSUME NEW s \in DOMAIN index.of PROVE Dated(index.of[s].hash, s)'
  <2>1. PICK hash : hash = index.of[s].hash /\ s \in Sources /\ Dated(hash, s) /\ hash \in Nat
    BY DEF OnDisk, Dated
  <2>2. Dated(hash, s)'
    BY <1>1, <2>1
  <2> QED BY <2>1, <2>2 DEF Dated
<1> QED BY <1>1, <1>2 DEF OnDisk

\* And the hashes of a job's sources.
LEMMA CurStays ==
  ASSUME OnDisk, src' \in [Sources -> Nat], NEW unit \in SUBSET Sources, NEW cur,
         \A s \in Sources : src'[s] >= src[s] /\ out'[s].of \in {out[s].of, src[s], 0},
         \A s \in unit : cur[s] \in Nat /\ cur[s] <= src[s]
  PROVE  /\ \A s \in unit : cur[s] \in Nat /\ cur[s] <= src'[s]
         /\ (\A s \in unit : Dated(cur[s], s)) => \A s \in unit : Dated(cur[s], s)'
<1>1. src \in [Sources -> Nat]
  BY DEF OnDisk
<1>2. ASSUME NEW s \in unit PROVE cur[s] \in Nat /\ cur[s] <= src'[s]
  BY <1>1
<1>3. ASSUME \A s \in unit : Dated(cur[s], s), NEW s \in unit PROVE Dated(cur[s], s)'
  <2>1. PICK hash : hash = cur[s] /\ s \in Sources /\ Dated(hash, s) /\ hash \in Nat
    BY <1>2, <1>3
  <2>2. Dated(hash, s)'
    BY <2>1, MovesOn
  <2> QED BY <2>1, <2>2
<1> QED BY <1>2, <1>3

\* What javac writes is of the text the source has.
LEMMA WrittenMoves ==
  ASSUME NEW X \in SUBSET Sources, NEW W \in SUBSET X, out' = Written(X, W, src, out, settings)
  PROVE  \A s \in Sources : out'[s].of \in {out[s].of, src[s], 0}
<1>1. ASSUME NEW s \in W PROVE ClassOf(s, World(X, src, out), settings).of = src[s]
  BY DEF ClassOf, World
<1> QED BY <1>1 DEF Written

LEMMA WithoutMoves ==
  ASSUME NEW gone, out' = Without(gone)
  PROVE  /\ \A s \in Sources : out'[s].of \in {out[s].of, src[s], 0}
         /\ \A s \in Sources : s \in gone => out'[s].of = 0
BY DEF Without, NoClass

LEMMA InitOnward == Init => Onward
<1> SUFFICES ASSUME Init PROVE Onward
  OBVIOUS
<1>1. src \in [Sources -> Nat] /\ cache = <<>> /\ index = NoIndex /\ job = NoJob /\ out = NoClasses
  BY DEF Init
<1>2. \A s \in Sources : out[s].of = 0
  BY <1>1 DEF NoClasses, NoClass
<1>3. OnDisk
  BY <1>1, <1>2 DEF OnDisk, NoIndex, Dates
<1>4. OnJob
  BY <1>1 DEF OnJob, NoJob, At
<1> QED BY <1>3, <1>4 DEF Onward

\* What a job knows at each step.
LEMMA JobOnward ==
  ASSUME Onward, ~At("idle")
  PROVE  /\ DOMAIN job = JobFields /\ job.at \in Steps \ Cached /\ job.unit \subseteq Sources
         /\ \A s \in job.unit : job.cur[s] \in Nat /\ job.cur[s] <= src[s]
         /\ OnDisk /\ src \in [Sources -> Nat] /\ \A s \in Sources : src[s] >= src[s]
<1>1. OnDisk /\ OnJob /\ src \in [Sources -> Nat]
  BY DEF Onward, OnDisk
<1>2. \A s \in Sources : src[s] >= src[s]
  BY <1>1
<1> QED BY <1>1, <1>2 DEF OnJob

\* A step that leaves the sources and the index, and may write or delete
\* class files, up to the end of the build.
LEMMA EndsOnward ==
  ASSUME Onward, UNCHANGED <<src, index, cache>>, job'.at = "idle",
         \A s \in Sources : out'[s].of \in {out[s].of, src[s], 0}
  PROVE  Onward'
<1>1. OnDisk /\ src' \in [Sources -> Nat] /\ \A s \in Sources : src'[s] >= src[s]
  BY DEF Onward, OnDisk
<1>2. OnDisk'
  BY <1>1, DiskStays
<1>3. OnJob'
  BY DEF OnJob, At
<1> QED BY <1>2, <1>3 DEF Onward

LEMMA BeginOnward ==
  ASSUME Onward, Forward(trial), Begin
  PROVE  Onward'
<1>1. UNCHANGED <<src, index, cache, out>>
  BY DEF Begin, disk
<1>2. CASE IsStale(Present(src))
  <2>1. job' = [at |-> "track", unit |-> Present(src),
                key |-> <<>>, restored |-> FALSE, saved |-> FALSE,
                cur |-> src, prev |-> <<>>, before |-> <<>>, after |-> <<>>,
                round |-> {}, compiled |-> {}, rounds |-> 0]
    BY <1>2 DEF Begin, Forward
  <2>2. job'.at = "track" /\ job'.unit = Present(src) /\ job'.cur = src /\ DOMAIN job' = JobFields
    BY <2>1 DEF JobFields
  <2>3. Present(src) \subseteq Sources /\ \A s \in Present(src) : src[s] \in Nat /\ src[s] <= src'[s]
    BY <1>1 DEF Present, Onward, OnDisk
  <2>4. OnJob'
    BY <2>2, <2>3 DEF OnJob, At, Steps, Cached, RoundSteps
  <2>5. OnDisk'
    BY <1>1 DEF Onward, OnDisk, Dated
  <2> QED BY <2>4, <2>5 DEF Onward
<1>3. CASE ~IsStale(Present(src))
  <2>1. job'.at = "idle"
    BY <1>3 DEF Begin, NoJob
  <2> QED BY <1>1, <2>1, EndsOnward
<1> QED BY <1>2, <1>3

LEMMA TrackOnward ==
  ASSUME Onward, Track
  PROVE  Onward'
<1>1. UNCHANGED <<src, index, cache, out>> /\ job.at = "track" /\ ~At("idle")
  BY DEF Track, disk, At
<1>2. /\ DOMAIN job = JobFields /\ job.unit \subseteq Sources
      /\ OnDisk /\ src \in [Sources -> Nat] /\ \A s \in Sources : src[s] >= src[s]
  BY <1>1, JobOnward
<1>3. CASE IsStale(job.unit)
  <2>1. /\ DOMAIN job' = JobFields /\ job'.at = "sweep" /\ job'.unit = job.unit /\ job'.cur = src
        /\ job'.prev = <<>> \/ job'.prev = index.of
    BY <1>2, <1>3 DEF Track, JobFields
  <2>2. OnDisk'
    BY <1>1, <1>2, DiskStays
  <2>3. OnJob'
    BY <1>1, <1>2, <2>1 DEF OnJob, At, Steps, Cached, RoundSteps
  <2> QED BY <2>2, <2>3 DEF Onward
<1>4. CASE ~IsStale(job.unit)
  <2>1. job'.at = "idle"
    BY <1>4 DEF Track, End, NoJob
  <2> QED BY <1>1, <2>1, EndsOnward
<1> QED BY <1>3, <1>4

LEMMA SweepOnward ==
  ASSUME Onward, Sweep
  PROVE  Onward'
<1>1. UNCHANGED <<src, index, cache>> /\ job.at = "sweep" /\ ~At("idle")
  BY DEF Sweep, At
<1>2. /\ DOMAIN job = JobFields /\ job.unit \subseteq Sources
      /\ \A s \in job.unit : job.cur[s] \in Nat /\ job.cur[s] <= src[s]
      /\ OnDisk /\ src \in [Sources -> Nat] /\ \A s \in Sources : src[s] >= src[s]
  BY <1>1, JobOnward
<1>3. \A s \in Sources : out'[s].of \in {out[s].of, src[s], 0}
  BY WithoutMoves DEF Sweep
<1>4. OnDisk'
  BY <1>1, <1>2, <1>3, DiskStays
<1>5. \A s \in job.unit : job.cur[s] \in Nat /\ job.cur[s] <= src'[s]
  BY <1>1, <1>2
<1>6. PICK first : first = {s \in job.unit : job.prev[s].hash # job.cur[s]}
  OBVIOUS
<1>7. CASE DOMAIN job.prev # job.unit
  <2>1. Go("clear")
    BY <1>7 DEF Sweep
  <2>2. DOMAIN job' = JobFields /\ job'.at = "clear" /\ job'.unit = job.unit /\ job'.cur = job.cur
    BY <1>2, <2>1, Going
  <2>3. OnJob'
    BY <1>2, <1>5, <2>2 DEF OnJob, At, Steps, Cached, RoundSteps
  <2> QED BY <1>4, <2>3 DEF Onward
<1>8. CASE DOMAIN job.prev = job.unit
  <2>1. Dates(job.prev, job.unit) /\ \A s \in job.unit : job.prev[s] = index.of[s] /\ s \in DOMAIN index.of
    BY <1>1, <1>8 DEF Onward, OnDisk, OnJob, Dates
  <2>2. \A s \in job.unit \ first : Dated(job.cur[s], s)
    BY <1>6, <2>1 DEF Onward, OnDisk
  <2>3. CASE first = {}
    <3>1. Go("stamp") /\ UNCHANGED out
      BY <1>6, <1>8, <2>3 DEF Sweep
    <3>2. DOMAIN job' = JobFields /\ job'.at = "stamp" /\ job'.unit = job.unit /\ job'.cur = job.cur
      BY <1>2, <3>1, Going
    <3>3. \A s \in job.unit : Dated(job.cur[s], s)
      BY <2>2, <2>3
    <3>4. \A s \in job'.unit : Dated(job.cur[s], s)'
      BY <1>1, <3>1, <3>2, <3>3 DEF Dated
    <3>5. OnJob'
      BY <1>2, <1>5, <3>2, <3>4 DEF OnJob, At, Steps, Cached, RoundSteps
    <3> QED BY <1>4, <3>5 DEF Onward
  <2>4. CASE first # {}
    <3>1. PICK owned : owned = {s \in job.unit \ first : job.prev[s].of # 0}
      OBVIOUS
    <3>2. /\ out' = Without(Sources \ owned)
          /\ job' = [job EXCEPT !.at = "javac", !.round = first, !.compiled = first,
                                !.after = job.prev]
      BY <1>6, <1>8, <2>4, <3>1 DEF Sweep
    <3>3. /\ DOMAIN job' = JobFields /\ job'.at = "javac" /\ job'.unit = job.unit /\ job'.cur = job.cur
          /\ job'.prev = job.prev /\ job'.round = first /\ job'.compiled = first
      BY <1>2, <3>2 DEF JobFields
    <3>4. ASSUME NEW s \in job.unit PROVE Dated(job.cur[s], s)'
      <4>1. PICK hash : hash = job.cur[s] /\ hash \in Nat /\ hash <= src'[s] /\ s \in Sources
        BY <1>2, <1>5
      <4>2. CASE s \in first
        <5>1. out'[s].of = 0
          BY <1>2, <3>1, <3>2, <4>2, WithoutMoves
        <5>2. Dated(hash, s)'
          BY <4>1, <5>1 DEF Dated
        <5> QED BY <3>3, <4>1, <5>2
      <4>3. CASE s \notin first
        <5>1. Dated(hash, s)
          BY <2>2, <4>1, <4>3
        <5>2. Dated(hash, s)'
          BY <1>1, <1>2, <1>3, <4>1, <5>1, MovesOn
        <5> QED BY <3>3, <4>1, <5>2
      <4> QED BY <4>2, <4>3
    <3>5. first \subseteq job.unit /\ \A s \in job.unit \ first : job.prev[s].hash = job.cur[s]
      BY <1>6
    <3>6. OnJob'
      BY <1>2, <1>5, <2>1, <3>3, <3>4, <3>5 DEF OnJob, At, Steps, Cached, RoundSteps
    <3> QED BY <1>4, <3>6 DEF Onward
  <2> QED BY <2>3, <2>4
<1> QED BY <1>7, <1>8

LEMMA JavacOnward ==
  ASSUME Onward, Javac
  PROVE  Onward'
<1>1. UNCHANGED <<src, cache>> /\ job.at = "javac" /\ ~At("idle")
  BY DEF Javac, At
<1>2. /\ DOMAIN job = JobFields /\ job.unit \subseteq Sources
      /\ \A s \in job.unit : job.cur[s] \in Nat /\ job.cur[s] <= src[s]
      /\ OnDisk /\ src \in [Sources -> Nat] /\ \A s \in Sources : src[s] >= src[s]
  BY <1>1, JobOnward
<1>3. /\ \A s \in job.unit : Dated(job.cur[s], s)
      /\ Dates(job.prev, job.unit) /\ \A s \in job.unit \ job.compiled : job.prev[s].hash = job.cur[s]
      /\ job.round \subseteq job.unit
  BY <1>1 DEF Onward, OnJob, RoundSteps
<1>4. PICK W \in SUBSET job.round : out' = Written(job.round, W, src, out, settings)
  BY DEF Javac, Sound
<1>5. \A s \in Sources : out'[s].of \in {out[s].of, src[s], 0}
  BY <1>2, <1>3, <1>4, WrittenMoves
<1>6. PICK unit, cur, prev, compiled :
        unit = job.unit /\ cur = job.cur /\ prev = job.prev /\ compiled = job.compiled
  OBVIOUS
<1>7. /\ \A s \in unit : cur[s] \in Nat /\ cur[s] <= src'[s]
      /\ \A s \in unit : Dated(cur[s], s)'
  BY <1>1, <1>2, <1>3, <1>5, <1>6, CurStays
<1>8. CASE Fails(job.round, src, out)
  <2>1. index' = [settings |-> settings, of |-> Cleared] /\ End("failed")
    BY <1>8 DEF Javac
  <2>2. job'.at = "idle"
    BY <2>1 DEF End, NoJob
  <2>3. PICK entries : entries = index'.of /\ entries = Cleared
    BY <2>1
  <2>4. DOMAIN entries = unit /\ unit \subseteq Sources
    BY <1>2, <1>6, <2>3 DEF Cleared
  <2>5. ASSUME NEW s \in unit
        PROVE  "hash" \in DOMAIN entries[s] /\ entries[s].hash \in {0, cur[s]}
    <3>1. "hash" \in DOMAIN prev[s] /\ (s \notin compiled => prev[s].hash = cur[s])
      BY <1>3, <1>6 DEF Dates
    <3>2. entries[s] = IF s \in compiled THEN [prev[s] EXCEPT !.hash = 0] ELSE prev[s]
      BY <1>6, <2>3 DEF Cleared
    <3> QED BY <3>1, <3>2
  <2>6. ASSUME NEW s \in unit PROVE Dated(entries[s].hash, s)'
    <3>1. PICK hash : hash = entries[s].hash /\ (hash = 0 \/ hash = cur[s])
      BY <2>5
    <3>2. src'[s] \in Nat
      BY <1>1, <1>2, <2>4
    <3>3. Dated(0, s)'
      BY <3>2 DEF Dated
    <3>4. Dated(hash, s)'
      BY <1>7, <3>1, <3>3
    <3> QED BY <3>1, <3>4
  <2>7. \A s \in Sources : out'[s].of \in Nat /\ out'[s].of <= src'[s]
    BY <1>1, <1>2, <1>5, MovesOn
  <2>8. OnDisk'
    <3>1. DOMAIN index'.of = unit
      BY <2>3, <2>4
    <3>2. Dates(index'.of, unit)
      BY <2>3, <2>4, <2>5 DEF Dates
    <3>3. \A s \in unit : Dated(index.of[s].hash, s)'
      BY <2>3, <2>6 DEF Dated
    <3> QED BY <1>1, <1>2, <2>4, <2>7, <3>1, <3>2, <3>3 DEF OnDisk
  <2>9. OnJob'
    BY <2>2 DEF OnJob, At
  <2> QED BY <2>8, <2>9 DEF Onward
<1>9. CASE ~Fails(job.round, src, out)
  <2>1. job' = [job EXCEPT !.at = "record", !.rounds = @ + 1] /\ UNCHANGED index
    BY <1>9 DEF Javac
  <2>2. /\ DOMAIN job' = JobFields /\ job'.at = "record" /\ job'.unit = unit /\ job'.cur = cur
        /\ job'.prev = job.prev /\ job'.round = job.round /\ job'.compiled = job.compiled
    BY <1>2, <1>6, <2>1 DEF JobFields
  <2>3. OnDisk'
    BY <1>1, <1>2, <1>5, <2>1, DiskStays
  <2>4. \A s \in unit : Dated(job.cur[s], s)'
    BY <1>7, <2>2 DEF Dated
  <2>5. OnJob'
    BY <1>2, <1>3, <1>6, <1>7, <2>2, <2>4 DEF OnJob, At, Steps, Cached, RoundSteps
  <2> QED BY <2>3, <2>5 DEF Onward
<1> QED BY <1>8, <1>9

LEMMA RecordOnward ==
  ASSUME Onward, Record
  PROVE  Onward'
<1>1. UNCHANGED <<src, cache, out, index>> /\ job.at = "record" /\ ~At("idle")
  BY DEF Record, At, disk
<1>2. /\ DOMAIN job = JobFields /\ job.unit \subseteq Sources
      /\ \A s \in job.unit : job.cur[s] \in Nat /\ job.cur[s] <= src[s]
      /\ OnDisk /\ src \in [Sources -> Nat] /\ \A s \in Sources : src[s] >= src[s]
  BY <1>1, JobOnward
<1>3. /\ \A s \in job.unit : Dated(job.cur[s], s)
      /\ Dates(job.prev, job.unit) /\ \A s \in job.unit \ job.compiled : job.prev[s].hash = job.cur[s]
      /\ job.round \subseteq job.unit
  BY <1>1 DEF Onward, OnJob, RoundSteps
<1>4. PICK after : after = Recorded(job.unit \ job.round)
  OBVIOUS
<1>5. /\ DOMAIN job' = JobFields /\ job'.at = "reach" /\ job'.unit = job.unit /\ job'.cur = job.cur
      /\ job'.prev = job.prev /\ job'.round = job.round /\ job'.compiled = job.compiled /\ job'.after = after
  BY <1>2, <1>4 DEF Record, JobFields
<1>6. Dates(after, job.unit) /\ \A s \in job.unit : after[s].hash = job.cur[s]
  BY <1>4 DEF Recorded, Entry, Dates
<1>7. OnDisk'
  BY <1>1, <1>2, DiskStays
<1>8. \A s \in job'.unit : Dated(job.cur[s], s)'
  BY <1>1, <1>3, <1>5 DEF Dated
<1>9. OnJob'
  BY <1>1, <1>2, <1>3, <1>5, <1>6, <1>8 DEF OnJob, At, Steps, Cached, RoundSteps
<1> QED BY <1>7, <1>9 DEF Onward

LEMMA ReachOnward ==
  ASSUME Onward, Reach
  PROVE  Onward'
<1>1. UNCHANGED <<src, cache, index>> /\ job.at = "reach" /\ ~At("idle")
  BY DEF Reach, At
<1>2. /\ DOMAIN job = JobFields /\ job.unit \subseteq Sources
      /\ \A s \in job.unit : job.cur[s] \in Nat /\ job.cur[s] <= src[s]
      /\ OnDisk /\ src \in [Sources -> Nat] /\ \A s \in Sources : src[s] >= src[s]
  BY <1>1, JobOnward
<1>3. /\ \A s \in job.unit : Dated(job.cur[s], s)
      /\ Dates(job.prev, job.unit) /\ \A s \in job.unit \ job.compiled : job.prev[s].hash = job.cur[s]
      /\ Dates(job.after, job.unit) /\ \A s \in job.unit : job.after[s].hash = job.cur[s]
  BY <1>1 DEF Onward, OnJob, RoundSteps
<1>4. PICK changes : changes = ChangesOf(job.before, job.after, job.round)
  OBVIOUS
<1>5. PICK next : next = IF job.rounds > Rounds \/ changes.added \cup changes.broken = {} THEN {}
                         ELSE Reached(job.after, changes)
  OBVIOUS
<1>6. next \subseteq job.unit
  BY <1>3, <1>5 DEF Dates, Reached, Dependents, UsersOfAddition, DirectUsers
<1>7. /\ \A s \in Sources : out'[s].of \in {out[s].of, src[s], 0}
      /\ \/ Go("clear") \/ Go("save")
         \/ job' = [job EXCEPT !.at = "javac", !.round = next, !.compiled = @ \cup next,
                       !.rounds = IF GivesUp(changes) THEN Rounds ELSE @]
  <2>1. CASE job.rounds <= Rounds /\ ~SafeToCompare(job.before, job.after, job.round)
    BY <2>1 DEF Reach
  <2>2. CASE ~(job.rounds <= Rounds /\ ~SafeToCompare(job.before, job.after, job.round)) /\ next = {}
    BY <1>4, <1>5, <2>2 DEF Reach
  <2>3. CASE ~(job.rounds <= Rounds /\ ~SafeToCompare(job.before, job.after, job.round)) /\ next # {}
    <3>1. out' = Without(next)
          /\ job' = [job EXCEPT !.at = "javac", !.round = next, !.compiled = @ \cup next,
                       !.rounds = IF GivesUp(changes) THEN Rounds ELSE @]
      BY <1>4, <1>5, <2>3 DEF Reach
    <3> QED BY <3>1, WithoutMoves
  <2> QED BY <2>1, <2>2, <2>3
<1>8. OnDisk'
  BY <1>1, <1>2, <1>7, DiskStays
<1>9. PICK unit, cur : unit = job.unit /\ cur = job.cur
  OBVIOUS
<1>10. /\ \A s \in unit : cur[s] \in Nat /\ cur[s] <= src'[s]
       /\ \A s \in unit : Dated(cur[s], s)'
  BY <1>1, <1>2, <1>3, <1>7, <1>9, CurStays
<1>11. /\ DOMAIN job' = JobFields /\ job'.unit = unit /\ job'.cur = cur /\ job'.prev = job.prev
       /\ job'.after = job.after
       /\ \/ job'.at \in {"clear", "save"} /\ job'.compiled = job.compiled
          \/ job'.at = "javac" /\ job'.round = next /\ job'.compiled = job.compiled \cup next
  <2>1. CASE Go("clear") \/ Go("save")
    <3>1. PICK step \in {"clear", "save"} : Go(step)
      BY <2>1
    <3>2. /\ DOMAIN job' = JobFields /\ job'.at = step /\ job'.unit = job.unit /\ job'.cur = job.cur
          /\ job'.prev = job.prev /\ job'.after = job.after /\ job'.compiled = job.compiled
      BY <1>2, <3>1, Going
    <3> QED BY <1>9, <3>2
  <2>2. CASE job' = [job EXCEPT !.at = "javac", !.round = next, !.compiled = @ \cup next,
                       !.rounds = IF GivesUp(changes) THEN Rounds ELSE @]
    BY <1>2, <1>9, <2>2 DEF JobFields
  <2> QED BY <1>7, <2>1, <2>2
<1>12. \A s \in unit : Dated(job.cur[s], s)'
  BY <1>10, <1>11 DEF Dated
<1>13. /\ Dates(job'.prev, unit) /\ Dates(job'.after, unit) /\ unit \subseteq Sources
       /\ \A s \in unit \ job'.compiled : job'.prev[s].hash = cur[s]
       /\ \A s \in unit : job'.after[s].hash = cur[s]
  BY <1>2, <1>3, <1>9, <1>11
<1>14. CASE job'.at \in {"clear", "save"}
  <2>1. OnJob'
    BY <1>10, <1>11, <1>12, <1>13, <1>14 DEF OnJob, At, Steps, Cached, RoundSteps
  <2> QED BY <1>8, <2>1 DEF Onward
<1>15. CASE job'.at = "javac"
  <2>1. job'.round \subseteq unit
    BY <1>6, <1>9, <1>11, <1>15
  <2>2. OnJob'
    BY <1>10, <1>11, <1>12, <1>13, <1>15, <2>1 DEF OnJob, At, Steps, Cached, RoundSteps
  <2> QED BY <1>8, <2>2 DEF Onward
<1> QED BY <1>11, <1>14, <1>15

LEMMA SaveOnward ==
  ASSUME Onward, Save
  PROVE  Onward'
<1>1. UNCHANGED <<src, cache, out>> /\ job.at = "save" /\ ~At("idle")
      /\ index' = [settings |-> settings, of |-> job.after] /\ Go("stamp")
  BY DEF Save, At
<1>2. /\ DOMAIN job = JobFields /\ job.unit \subseteq Sources
      /\ \A s \in job.unit : job.cur[s] \in Nat /\ job.cur[s] <= src[s]
      /\ OnDisk /\ src \in [Sources -> Nat]
  BY <1>1, JobOnward
<1>3. /\ \A s \in job.unit : Dated(job.cur[s], s)
      /\ Dates(job.after, job.unit) /\ \A s \in job.unit : job.after[s].hash = job.cur[s]
  BY <1>1 DEF Onward, OnJob, RoundSteps
<1>4. DOMAIN job' = JobFields /\ job'.at = "stamp" /\ job'.unit = job.unit /\ job'.cur = job.cur
  BY <1>1, <1>2, Going
<1>5. PICK after, unit : after = job.after /\ unit = job.unit /\ index'.of = after
  BY <1>1
<1>6. \A s \in unit : Dated(index.of[s].hash, s)'
  BY <1>1, <1>3, <1>5 DEF Dated
<1>7. OnDisk'
  BY <1>1, <1>2, <1>3, <1>5, <1>6 DEF OnDisk, Dates
<1>8. \A s \in unit : Dated(job.cur[s], s)'
  BY <1>1, <1>3, <1>4, <1>5 DEF Dated
<1>9. OnJob'
  BY <1>1, <1>2, <1>4, <1>5, <1>8 DEF OnJob, At, Steps, Cached, RoundSteps
<1> QED BY <1>7, <1>9 DEF Onward

LEMMA ClearOnward ==
  ASSUME Onward, Clear
  PROVE  Onward'
<1>1. UNCHANGED <<src, index, cache>> /\ out' = NoClasses /\ job.at = "clear" /\ ~At("idle") /\ Go("create")
  BY DEF Clear, At
<1>2. /\ DOMAIN job = JobFields /\ job.unit \subseteq Sources
      /\ \A s \in job.unit : job.cur[s] \in Nat /\ job.cur[s] <= src[s]
      /\ OnDisk /\ src \in [Sources -> Nat] /\ \A s \in Sources : src[s] >= src[s]
  BY <1>1, JobOnward
<1>3. \A s \in Sources : out'[s].of = 0
  BY <1>1 DEF NoClasses, NoClass
<1>4. OnDisk'
  BY <1>1, <1>2, <1>3, DiskStays
<1>5. DOMAIN job' = JobFields /\ job'.at = "create" /\ job'.unit = job.unit /\ job'.cur = job.cur
  BY <1>1, <1>2, Going
<1>6. \A s \in job'.unit : Dated(job.cur[s], s)'
  BY <1>1, <1>2, <1>3, <1>5 DEF Dated
<1>7. OnJob'
  BY <1>1, <1>2, <1>5, <1>6 DEF OnJob, At, Steps, Cached, RoundSteps
<1> QED BY <1>4, <1>7 DEF Onward

LEMMA CreateOnward ==
  ASSUME Onward, Create
  PROVE  Onward'
<1>1. UNCHANGED <<src, index, cache, out>> /\ job.at = "create" /\ ~At("idle")
  BY DEF Create, At
<1>2. /\ DOMAIN job = JobFields /\ job.unit \subseteq Sources
      /\ \A s \in job.unit : job.cur[s] \in Nat /\ job.cur[s] <= src[s]
      /\ OnDisk /\ src \in [Sources -> Nat] /\ \A s \in Sources : src[s] >= src[s]
  BY <1>1, JobOnward
<1>3. \A s \in job.unit : Dated(job.cur[s], s)
  BY <1>1 DEF Onward, OnJob
<1>4. OnDisk'
  BY <1>1, <1>2, DiskStays
<1>5. DOMAIN job' = JobFields /\ job'.at = "javac all" /\ job'.unit = job.unit /\ job'.cur = job.cur
      /\ job'.round = job.unit
  BY <1>2 DEF Create, JobFields
<1>6. \A s \in job'.unit : Dated(job.cur[s], s)'
  BY <1>1, <1>3, <1>5 DEF Dated
<1>7. OnJob'
  BY <1>1, <1>2, <1>5, <1>6 DEF OnJob, At, Steps, Cached, RoundSteps
<1> QED BY <1>4, <1>7 DEF Onward

LEMMA JavacAllOnward ==
  ASSUME Onward, JavacAll
  PROVE  Onward'
<1>1. UNCHANGED <<src, cache>> /\ job.at = "javac all" /\ ~At("idle")
  BY DEF JavacAll, At
<1>2. /\ DOMAIN job = JobFields /\ job.unit \subseteq Sources
      /\ \A s \in job.unit : job.cur[s] \in Nat /\ job.cur[s] <= src[s]
      /\ OnDisk /\ src \in [Sources -> Nat] /\ \A s \in Sources : src[s] >= src[s]
  BY <1>1, JobOnward
<1>3. \A s \in job.unit : Dated(job.cur[s], s)
  BY <1>1 DEF Onward, OnJob
<1>4. PICK W \in SUBSET job.unit : out' = Written(job.unit, W, src, out, settings)
  BY DEF JavacAll, Sound
<1>5. \A s \in Sources : out'[s].of \in {out[s].of, src[s], 0}
  BY <1>2, <1>4, WrittenMoves
<1>6. PICK unit, cur : unit = job.unit /\ cur = job.cur
  OBVIOUS
<1>7. /\ \A s \in unit : cur[s] \in Nat /\ cur[s] <= src'[s]
      /\ \A s \in unit : Dated(cur[s], s)'
  BY <1>1, <1>2, <1>3, <1>5, <1>6, CurStays
<1>8. CASE Fails(job.unit, src, out)
  <2>1. index' = NoIndex /\ End("failed")
    BY <1>8 DEF JavacAll
  <2>2. job'.at = "idle"
    BY <2>1 DEF End, NoJob
  <2>3. \A s \in Sources : out'[s].of \in Nat /\ out'[s].of <= src'[s]
    BY <1>1, <1>2, <1>5, MovesOn
  <2>4. OnDisk'
    <3>1. index'.of = <<>>
      BY <2>1 DEF NoIndex
    <3>2. DOMAIN index'.of = {}
      BY <3>1
    <3> QED BY <1>1, <1>2, <2>3, <3>2 DEF OnDisk, Dates
  <2>5. OnJob'
    BY <2>2 DEF OnJob, At
  <2> QED BY <2>4, <2>5 DEF Onward
<1>9. CASE ~Fails(job.unit, src, out)
  <2>1. Go("index all") /\ UNCHANGED index
    BY <1>9 DEF JavacAll
  <2>2. DOMAIN job' = JobFields /\ job'.at = "index all" /\ job'.unit = unit /\ job'.cur = cur
    BY <1>2, <1>6, <2>1, Going
  <2>3. OnDisk'
    BY <1>1, <1>2, <1>5, <2>1, DiskStays
  <2>4. \A s \in unit : Dated(job.cur[s], s)'
    BY <1>7, <2>2 DEF Dated
  <2>5. OnJob'
    BY <1>2, <1>6, <1>7, <2>2, <2>4 DEF OnJob, At, Steps, Cached, RoundSteps
  <2> QED BY <2>3, <2>5 DEF Onward
<1> QED BY <1>8, <1>9

LEMMA IndexAllOnward ==
  ASSUME Onward, IndexAll
  PROVE  Onward'
<1>1. UNCHANGED <<src, cache, out>> /\ job.at = "index all" /\ ~At("idle")
      /\ index' = [settings |-> settings, of |-> Recorded({})] /\ Go("stamp")
  BY DEF IndexAll, At
<1>2. /\ DOMAIN job = JobFields /\ job.unit \subseteq Sources
      /\ \A s \in job.unit : job.cur[s] \in Nat /\ job.cur[s] <= src[s]
      /\ OnDisk /\ src \in [Sources -> Nat]
  BY <1>1, JobOnward
<1>3. \A s \in job.unit : Dated(job.cur[s], s)
  BY <1>1 DEF Onward, OnJob
<1>4. DOMAIN job' = JobFields /\ job'.at = "stamp" /\ job'.unit = job.unit /\ job'.cur = job.cur
  BY <1>1, <1>2, Going
<1>5. PICK entries, unit, cur : entries = Recorded({}) /\ unit = job.unit /\ cur = job.cur /\ index'.of = entries
  BY <1>1
<1>6. DOMAIN entries = unit /\ \A s \in unit : "hash" \in DOMAIN entries[s] /\ entries[s].hash = cur[s]
  BY <1>5 DEF Recorded, Entry
<1>7. \A s \in unit : Dated(index.of[s].hash, s)'
  BY <1>1, <1>3, <1>5, <1>6 DEF Dated
<1>8. OnDisk'
  BY <1>1, <1>2, <1>5, <1>6, <1>7 DEF OnDisk, Dates
<1>9. \A s \in unit : Dated(job.cur[s], s)'
  BY <1>1, <1>3, <1>4, <1>5 DEF Dated
<1>10. OnJob'
  BY <1>1, <1>2, <1>4, <1>5, <1>9 DEF OnJob, At, Steps, Cached, RoundSteps
<1> QED BY <1>8, <1>10 DEF Onward

LEMMA StampOnward ==
  ASSUME Onward, Forward(trial), Stamp
  PROVE  Onward'
<1>1. UNCHANGED <<src, index, cache, out>> /\ job'.at = "idle"
  BY DEF Stamp, Forward, End, NoJob
<1> QED BY <1>1, EndsOnward DEF Onward, OnDisk

LEMMA EditOnward ==
  ASSUME Onward, Forward(trial), Edit
  PROVE  Onward'
<1>1. UNCHANGED <<out, index, cache, job>> /\ At("idle")
  BY DEF Edit
<1>2. OnDisk /\ src \in [Sources -> Nat]
  BY DEF Onward, OnDisk
<1>3. src' \in [Sources -> Nat] /\ \A s \in Sources : src'[s] >= src[s]
  <2>1. CASE UNCHANGED src
    BY <1>2, <2>1
  <2>2. CASE \E s \in Sources : \E v \in Versions(s) \cup {0} :
               (trial.reverts \/ v > src[s]) /\ src' = [src EXCEPT ![s] = v]
    <3>1. PICK s \in Sources : \E v \in Versions(s) \cup {0} :
            (trial.reverts \/ v > src[s]) /\ src' = [src EXCEPT ![s] = v]
      BY <2>2
    <3>2. PICK v \in Versions(s) \cup {0} : v > src[s] /\ src' = [src EXCEPT ![s] = v]
      BY <3>1 DEF Forward
    <3>3. v \in Nat
      BY TextAssumption DEF Versions
    <3> QED BY <1>2, <3>2, <3>3
  <2> QED BY <2>1, <2>2 DEF Edit
<1>4. OnDisk'
  <2>1. \A s \in Sources : out'[s].of \in {out[s].of, src[s], 0}
    BY <1>1
  <2> QED BY <1>1, <1>2, <1>3, <2>1, DiskStays
<1>5. OnJob'
  BY <1>1 DEF OnJob, At
<1> QED BY <1>4, <1>5 DEF Onward

LEMMA SaveSourceOnward ==
  ASSUME Onward, Forward(trial), SaveSource
  PROVE  Onward'
<1>1. UNCHANGED <<out, index, cache>> /\ ~At("idle") /\ job' = [job EXCEPT !.saved = TRUE]
  BY DEF SaveSource
<1>2. /\ DOMAIN job = JobFields /\ job.at \in Steps \ Cached /\ job.unit \subseteq Sources
      /\ \A s \in job.unit : job.cur[s] \in Nat /\ job.cur[s] <= src[s]
      /\ OnDisk /\ src \in [Sources -> Nat]
  BY <1>1, JobOnward
<1>3. src' \in [Sources -> Nat] /\ \A s \in Sources : src'[s] >= src[s]
  <2>1. PICK s \in Sources : \E v \in Versions(s) :
          (trial.reverts \/ v > src[s]) /\ src' = [src EXCEPT ![s] = v]
    BY <1>2 DEF SaveSource
  <2>2. PICK v \in Versions(s) : v > src[s] /\ src' = [src EXCEPT ![s] = v]
    BY <2>1 DEF Forward
  <2>3. v \in Nat
    BY TextAssumption DEF Versions
  <2> QED BY <1>2, <2>2, <2>3
<1>4. \A s \in Sources : out'[s].of \in {out[s].of, src[s], 0}
  BY <1>1
<1>5. OnDisk'
  BY <1>1, <1>2, <1>3, <1>4, DiskStays
<1>6. PICK unit, cur : unit = job.unit /\ cur = job.cur
  OBVIOUS
<1>7. /\ \A s \in unit : cur[s] \in Nat /\ cur[s] <= src'[s]
      /\ (\A s \in unit : Dated(cur[s], s)) => \A s \in unit : Dated(cur[s], s)'
  BY <1>2, <1>3, <1>4, <1>6, CurStays
<1>8. /\ DOMAIN job' = JobFields /\ job'.at = job.at /\ job'.unit = unit /\ job'.cur = cur
      /\ job'.prev = job.prev /\ job'.after = job.after
      /\ job'.round = job.round /\ job'.compiled = job.compiled
  BY <1>1, <1>2, <1>6 DEF JobFields
<1>9. job.at \notin {"track", "sweep", "clear"} => \A s \in unit : Dated(job.cur[s], s)'
  <2>1. job.at \notin {"track", "sweep", "clear"} => \A s \in unit : Dated(cur[s], s)
    BY <1>1, <1>6 DEF Onward, OnJob
  <2> QED BY <1>7, <1>8, <2>1 DEF Dated
<1>10. /\ job'.at = "sweep" => job'.prev = <<>> \/ job'.prev = index'.of
       /\ job'.at \in RoundSteps =>
            Dates(job'.prev, job'.unit) /\ \A s \in job'.unit \ job'.compiled : job'.prev[s].hash = job'.cur[s]
       /\ job'.at \in {"javac", "record", "reach", "javac all"} => job'.round \subseteq job'.unit
       /\ job'.at \in {"reach", "save"} =>
            Dates(job'.after, job'.unit) /\ \A s \in job'.unit : job'.after[s].hash = job'.cur[s]
  BY <1>1, <1>6, <1>8 DEF Onward, OnJob
<1>11. OnJob'
  BY <1>2, <1>6, <1>7, <1>8, <1>9, <1>10 DEF OnJob
<1> QED BY <1>5, <1>11 DEF Onward

LEMMA CrashOnward ==
  ASSUME Onward, Crash
  PROVE  Onward'
<1>1. UNCHANGED <<src, index, cache>> /\ job'.at = "idle"
  BY DEF Crash, NoJob
<1>2. \A s \in Sources : out'[s].of \in {out[s].of, src[s], 0}
  <2>1. CASE UNCHANGED <<dir, out>>
    BY <2>1
  <2>2. CASE job.at \in {"javac", "javac all"} /\ \E W \in SUBSET Sound(job.round) :
               out' = Written(job.round, W, src, out, settings)
    <3>1. ~At("idle") /\ job.round \subseteq job.unit
      BY <2>2 DEF Onward, OnJob, At
    <3>2. job.round \in SUBSET Sources
      BY <3>1, JobOnward
    <3>3. PICK W \in SUBSET job.round : out' = Written(job.round, W, src, out, settings)
      BY <2>2 DEF Sound
    <3> QED BY <3>2, <3>3, WrittenMoves
  <2>3. CASE At("extract")
    BY <2>3 DEF Onward, OnJob, At, Cached
  <2> QED BY <2>1, <2>2, <2>3 DEF Crash
<1> QED BY <1>1, <1>2, EndsOnward

LEMMA NextOnward ==
  ASSUME Onward, trial \in TrialType, Forward(trial), [Next]_vars
  PROVE  Onward'
<1>1. CASE Begin
  BY <1>1, BeginOnward
<1>2. CASE LookUp \/ Forget \/ ForgetIndex \/ Extract \/ TakeStock \/ Store
  BY <1>2 DEF LookUp, Forget, ForgetIndex, Extract, TakeStock, Store, Onward, OnJob, At, Cached
<1>3. CASE Track \/ Sweep \/ Javac \/ Record \/ Reach \/ Save
  BY <1>3, TrackOnward, SweepOnward, JavacOnward, RecordOnward, ReachOnward, SaveOnward
<1>4. CASE Clear \/ Create \/ JavacAll \/ IndexAll \/ Stamp
  BY <1>4, ClearOnward, CreateOnward, JavacAllOnward, IndexAllOnward, StampOnward
<1>5. CASE Edit \/ SaveSource \/ Crash
  BY <1>5, EditOnward, SaveSourceOnward, CrashOnward
<1>6. CASE ClearOut
  <2>1. UNCHANGED <<src, index, cache, job>> /\ out' = NoClasses /\ At("idle")
    BY <1>6 DEF ClearOut
  <2>2. \A s \in Sources : out'[s].of \in {out[s].of, src[s], 0}
    BY <2>1 DEF NoClasses, NoClass
  <2> QED BY <2>1, <2>2, EndsOnward DEF At
<1>7. CASE Evict
  BY <1>7 DEF Evict, Onward, OnDisk
<1>8. CASE UNCHANGED vars
  BY <1>8 DEF vars, disk, Onward, OnDisk, OnJob, Dated, At
<1> QED BY <1>1, <1>2, <1>3, <1>4, <1>5, <1>6, <1>7, <1>8 DEF Next, Step
-----------------------------------------------------------------------------
(* The theorems.                                                           *)

\* The invariant holds of every build, and of what is between builds.
LEMMA Invariant ==
  ASSUME KindsOfTrials
  PROVE  Spec => []IInv
<1>1. Init => IInv
  <2> SUFFICES ASSUME Init PROVE IInv
    OBVIOUS
  <2>1. trial \in Trials /\ trial \in TrialType
    BY UnitAssumption DEF Init, TrialType
  <2>2. Undisturbed(trial) \/ Forward(trial)
    BY <2>1 DEF KindsOfTrials
  <2> QED BY <2>1, <2>2, InitRight, InitOnward DEF IInv
<1>2. IInv /\ [Next]_vars => IInv'
  <2> SUFFICES ASSUME IInv, [Next]_vars PROVE IInv'
    OBVIOUS
  <2>1. trial' \in TrialType /\ (Undisturbed(trial) => Undisturbed(trial')) /\ (Forward(trial) => Forward(trial'))
    BY TrialsStay DEF IInv
  <2>2. CASE Undisturbed(trial) /\ Right
    BY <2>1, <2>2, NextRight DEF IInv
  <2>3. CASE Forward(trial) /\ Onward
    BY <2>1, <2>3, NextOnward DEF IInv
  <2> QED BY <2>2, <2>3 DEF IInv
<1> QED BY <1>1, <1>2, PTL DEF Spec

\* However an undisturbed build comes to its end - fresh, restored from the
\* build cache, source by source or whole - what is in the output directory
\* is what compiling every source into an empty one gives.
THEOREM BuildsAreWhole ==
  ASSUME KindsOfTrials
  PROVE  Spec => []AsAWholeBuild
<1>1. IInv => AsAWholeBuild
  BY DEF IInv, Right, EndRight, Forward, AsAWholeBuild, Finished
<1> QED BY <1>1, Invariant, PTL

\* It fails only if the sources as they are do not compile.
THEOREM FailuresAreReal ==
  ASSUME KindsOfTrials
  PROVE  Spec => []GoodBuildsSucceed
<1>1. IInv => GoodBuildsSucceed
  BY DEF IInv, Right, EndRight, Forward, GoodBuildsSucceed
<1> QED BY <1>1, Invariant, PTL

\* Output is taken for current only if it is what a whole build gives.
THEOREM FreshOutputIsWhole ==
  ASSUME KindsOfTrials
  PROVE  Spec => []NeverFalselyFresh
<1>1. IInv => NeverFalselyFresh
  <2> SUFFICES ASSUME IInv, trial.exact, At("idle"), ~IsStale(Present(src))
               PROVE  out = Whole(src, settings)
    BY DEF NeverFalselyFresh
  <2>1. Right
    BY DEF IInv, Forward
  <2> QED BY <2>1, FreshIsWhole DEF Right, At
<1> QED BY <1>1, Invariant, PTL

\* A build-cache entry holds what the settings and sources in its key
\* compile to.
THEOREM EntriesAreOfTheirKey ==
  ASSUME KindsOfTrials
  PROVE  Spec => []EntriesMatchTheirKey
<1>1. IInv => EntriesMatchTheirKey
  <2> SUFFICES ASSUME IInv, NEW key \in DOMAIN cache
               PROVE  cache[key] = Whole(key[2], key[1])
    BY DEF EntriesMatchTheirKey
  <2>1. CASE Right
    <3>1. PICK ver, set : key = <<set, ver>> /\ cache[key] = Whole(ver, set)
      BY <2>1 DEF Right, CacheRight
    <3>2. key[2] = ver /\ key[1] = set
      BY <3>1
    <3> QED BY <3>1, <3>2
  <2>2. CASE Onward
    BY <2>2 DEF Onward, OnDisk
  <2> QED BY <2>1, <2>2 DEF IInv
<1> QED BY <1>1, Invariant, PTL

\* Whatever is saved, killed or deleted while a build runs: no class that the
\* next build takes for current is of another text than its source has.
THEOREM SavesAreSeen ==
  ASSUME KindsOfTrials
  PROVE  Spec => []NothingSavedIsMissed
<1>1. IInv => NothingSavedIsMissed
  <2> SUFFICES ASSUME IInv, At("idle"), ~IsStale(Present(src)), NEW s \in Sources
               PROVE  out[s].of \in {0, src[s]}
    BY DEF NothingSavedIsMissed
  <2>1. CASE Right
    <3>1. out = Whole(src, settings) /\ Known(src)
      BY <2>1, FreshIsWhole DEF Right, At
    <3>2. out[s] = IF src[s] # 0 THEN Compiled(s, src, settings) ELSE NoClass
      BY <3>1, WholeIs
    <3> QED BY <3>1, <3>2, CompiledIsOf DEF IsOf, NoClass
  <2>2. CASE Onward
    <3>1. src[s] \in Nat /\ out[s].of \in Nat /\ out[s].of <= src[s]
      BY <2>2 DEF Onward, OnDisk
    <3>2. CASE s \in Present(src)
      <4>1. s \in DOMAIN index.of /\ index.of[s].hash = src[s] /\ src[s] # 0
        BY <3>2 DEF IsStale, Holds, Present
      <4>2. PICK hash : hash = index.of[s].hash /\ Dated(hash, s)
        BY <2>2, <4>1 DEF Onward, OnDisk
      <4> QED BY <3>1, <4>1, <4>2 DEF Dated
    <3>3. CASE s \notin Present(src)
      <4>1. src[s] = 0
        BY <3>3 DEF Present
      <4> QED BY <3>1, <4>1
    <3> QED BY <3>2, <3>3
  <2> QED BY <2>1, <2>2 DEF IInv
<1> QED BY <1>1, Invariant, PTL

\* An undisturbed build whose changes show in no header and no member
\* compiles the sources that changed and no other.
THEOREM BodiesStayAlone ==
  ASSUME KindsOfTrials
  PROVE  Spec => [](trial.exact => BodiesCompileAlone)
<1>1. IInv => (trial.exact => BodiesCompileAlone)
  <2> SUFFICES ASSUME IInv, trial.exact, At("save"),
                      \A s \in job.compiled : /\ job.prev[s].members = job.after[s].members
                                              /\ Header(s, job.prev[s]) = Header(s, job.after[s])
               PROVE  job.compiled = {s \in job.unit : job.prev[s].hash # job.cur[s]}
    BY DEF BodiesCompileAlone
  <2>1. Right /\ job.at = "save" /\ job.at \in RoundSteps
    BY DEF IInv, Forward, At, RoundSteps
  <2>2. /\ Described(job.prev) /\ DOMAIN job.prev = Present(src) /\ job.cur = src
        /\ First \subseteq job.compiled /\ job.compiled \subseteq Present(src)
    BY <2>1, Same12
  <2>3. ASSUME NEW u \in First PROVE ~Moved(u)
    <3>1. u \in job.compiled /\ u \in Present(src)
      BY <2>2
    <3>2. job.prev[u].members = Shown(u, TextsOf(job.prev))
      BY <2>2, <3>1 DEF Described
    <3>3. job.after[u].members = Shown(u, src) /\ job.after[u].of = src[u]
      BY <2>1, <3>1 DEF Right, AfterRight, Entered
    <3> QED BY <3>1, <3>2, <3>3 DEF Moved, Header
  <2>4. job.compiled = First
    BY <2>1, <2>3 DEF Right, RoundRight
  <2> QED BY <2>2, <2>4 DEF First
<1> QED BY <1>1, Invariant, PTL
-----------------------------------------------------------------------------
(* The --watch loop around a build.  What it promises is of WatchPromise's *)
(* variables; the others of Watch, the files it watches and what may       *)
(* happen in it are named here.                                            *)

CONSTANTS Trees, Manifests, Root, Sessions, MaxWrites
VARIABLES saved, broken, read, before, now, runs, session

Loop == INSTANCE Watch WITH Sources <- Trees, Trials <- Sessions, trial <- session

\* Programs are numbered as they are started; the only one that may run is
\* the last, and 0 stands for none.
Programs ==
  /\ runs \in Nat /\ up \subseteq 1..runs /\ up \subseteq {child}
  /\ at \in {"open", "build", "built"} => up = {}

\* The command is about to be run again for a save; and as long as nothing
\* was saved the picture is of the files as they are, whatever its own tasks
\* wrote before it was taken.
Reasons ==
  /\ readAt \in Nat /\ edits \in Nat /\ readAt <= edits
  /\ at = "open" /\ watched # {} => edits > readAt
  /\ at = "look" /\ edits = readAt => before = Loop!Taken(watched)
  /\ at \in {"settle", "stop", "grace"} => edits > readAt

\* One program runs at a time, and none beside a build.
THEOREM OneProgramRuns == Loop!Spec => []OneProgram
<1>1. Loop!Init => Programs
  BY DEF Loop!Init, Programs
<1>2. Programs /\ [Loop!Next]_Loop!vars => Programs'
  <2> SUFFICES ASSUME Programs, [Loop!Next]_Loop!vars PROVE Programs'
    OBVIOUS
  <2> USE DEF Loop!picture, Loop!program, Loop!editor
  <2>1. CASE Loop!Open \/ Loop!Build \/ Loop!Generate \/ Loop!Picture \/ Loop!Ask \/ Loop!Save \/ UNCHANGED Loop!vars
    BY <2>1 DEF Programs, Loop!Open, Loop!Build, Loop!Generate, Loop!Picture, Loop!Ask, Loop!Save, Loop!vars
  <2>2. CASE Loop!Built
    <3>1. up = {} /\ at' = "picture" /\ runs \in Nat
      BY <2>2 DEF Loop!Built, Programs
    <3>2. CASE UNCHANGED Loop!program
      BY <3>1, <3>2 DEF Programs
    <3>3. CASE runs' = runs + 1 /\ child' = runs' /\ up' = up \cup {runs'}
      <4>1. runs' \in Nat /\ runs' \in 1..runs' /\ up' = {runs'} /\ child' = runs'
        BY <3>1, <3>3
      <4> QED BY <3>1, <4>1 DEF Programs
    <3> QED BY <2>2, <3>2, <3>3 DEF Loop!Built
  <2>3. CASE Loop!Look
    <3>1. /\ at' \in {"settle", "look"} /\ UNCHANGED <<up, runs>>
          /\ child' = IF child \in up THEN child ELSE 0
      BY <2>3 DEF Loop!Look
    <3>2. up \subseteq {child'}
      BY <3>1 DEF Programs
    <3> QED BY <3>1, <3>2 DEF Programs
  <2>4. CASE Loop!Settle
    <3>1. /\ UNCHANGED Loop!program
          /\ at' \in {"settle", "stop"} \/ (at' = "open" /\ child = 0)
      BY <2>4 DEF Loop!Settle
    <3>2. child = 0 => up = {}
      BY DEF Programs
    <3> QED BY <3>1, <3>2 DEF Programs
  <2>5. CASE Loop!Grace
    <3>1. up' = {} /\ runs' = runs
      BY <2>5 DEF Loop!Grace, Programs
    <3> QED BY <3>1 DEF Programs
  <2>6. CASE Loop!Exit
    BY <2>6 DEF Loop!Exit, Programs
  <2> QED BY <2>1, <2>2, <2>3, <2>4, <2>5, <2>6 DEF Loop!Next, Loop!Main
<1>3. Programs => OneProgram
  BY DEF Programs, OneProgram
<1> QED BY <1>1, <1>2, <1>3, PTL DEF Loop!Spec

LEMMA StepReasons == Reasons /\ [Loop!Next]_Loop!vars => Reasons'
<1> SUFFICES ASSUME Reasons, [Loop!Next]_Loop!vars PROVE Reasons'
  OBVIOUS
<1> USE DEF Loop!picture, Loop!program, Loop!editor
<1>1. CASE Loop!Open
  BY <1>1 DEF Loop!Open, Reasons
<1>2. CASE Loop!Build \/ Loop!Generate \/ Loop!Built
  BY <1>2 DEF Loop!Build, Loop!Generate, Loop!Built, Reasons
<1>3. CASE Loop!Picture
  BY <1>3 DEF Loop!Picture, Loop!Before, Loop!Taken, Reasons
<1>4. CASE Loop!Look
  <2>1. /\ at = "look" /\ UNCHANGED <<Loop!editor, readAt, watched, before>>
        /\ at' = IF Loop!Taken(watched) # before THEN "settle" ELSE "look"
    BY <1>4 DEF Loop!Look
  <2>2. at' = "settle" => edits > readAt
    BY <2>1 DEF Reasons
  <2> QED BY <2>1, <2>2 DEF Reasons, Loop!Taken
<1>5. CASE Loop!Settle \/ Loop!Ask \/ Loop!Grace
  BY <1>5 DEF Loop!Settle, Loop!Ask, Loop!Grace, Reasons
<1>6. CASE Loop!Save
  <2>1. edits' = edits + 1 /\ UNCHANGED <<at, readAt, Loop!picture>>
    BY <1>6 DEF Loop!Save
  <2>2. edits' \in Nat /\ edits' > readAt /\ readAt \in Nat
    BY <2>1 DEF Reasons
  <2> QED BY <2>1, <2>2 DEF Reasons
<1>7. CASE Loop!Exit \/ UNCHANGED Loop!vars
  BY <1>7 DEF Loop!Exit, Loop!vars, Reasons, Loop!Taken
<1> QED BY <1>1, <1>2, <1>3, <1>4, <1>5, <1>6, <1>7 DEF Loop!Next, Loop!Main

\* The command is run again only after a save: what its own tasks write, in
\* whatever file and at whatever moment of the run, never starts it.
THEOREM OnlySavesRun == Loop!Spec => RunsAfterSaves
<1>1. Loop!Init => Reasons
  BY DEF Loop!Init, Reasons
<1>2. Reasons => (at = "open" /\ at' # "open" /\ watched # {} => edits > readAt)
  BY DEF Reasons
<1> QED BY <1>1, <1>2, StepReasons, PTL DEF Loop!Spec, RunsAfterSaves
=============================================================================
