---------------------------- MODULE TestRunProofs ----------------------------
(***************************************************************************)
(* A test class that jrs test leaves out would have passed, whatever the   *)
(* classes, the tests and the history of the project.                      *)
(*                                                                         *)
(* The walk of impact.rs is the least set closed under its edges           *)
(* (WalkIsLeast), so that what uses a class is what reaches it             *)
(* (ReachIsUse).  A class left out therefore reaches nothing that changed  *)
(* since the record, and sees the same files now as then (SkippedIsAlike); *)
(* that it passed on those is what the record stands for (RecordInv).      *)
(***************************************************************************)
EXTENDS TestRun, FiniteSetTheorems, WellFoundedInduction, TLAPS

\* Induction over a set of numbers.
LEMMA Induct ==
  ASSUME NEW S \in SUBSET Nat, 0 \in S, \A n \in S : n + 1 \in S
  PROVE  S = Nat
<1>1. SUFFICES ASSUME Nat \ S # {} PROVE FALSE
  OBVIOUS
<1>2. PICK n \in Nat \ S : \A m \in Nat \ S : ~(<<m, n>> \in OpToRel(<, Nat))
  BY <1>1, NatLessThanWellFounded, WFMin
<1>3. n - 1 \in Nat /\ n - 1 \notin S
  <2>1. n \in Nat /\ n # 0
    BY <1>2
  <2>2. n - 1 \in Nat /\ (n - 1) + 1 = n
    BY <2>1
  <2>3. QED BY <1>2, <2>2
<1>4. <<n - 1, n>> \in OpToRel(<, Nat)
  BY <1>2, <1>3 DEF OpToRel
<1>5. QED BY <1>2, <1>3, <1>4

-----------------------------------------------------------------------------
(* walk.                                                                   *)

\* One more step along next.
Further(next, X) == X \cup UNION {next[c] : c \in X}

\* What a path of k steps, some of them idle, comes to.
Paths(next, C, start, k) ==
  {p \in [0..k -> C] : p[0] = start /\ \A i \in 1..k : p[i] = p[i - 1] \/ p[i] \in next[p[i - 1]]}
EndsAt(next, C, start, k) == {p[k] : p \in Paths(next, C, start, k)}

LEMMA EndsOfNone ==
  ASSUME NEW C, NEW next \in [C -> SUBSET C], NEW start \in C
  PROVE  EndsAt(next, C, start, 0) = {start}
<1>1. [i \in 0..0 |-> start] \in Paths(next, C, start, 0)
  BY DEF Paths
<1>2. QED BY <1>1 DEF EndsAt, Paths

LEMMA EndsOfMore ==
  ASSUME NEW C, NEW next \in [C -> SUBSET C], NEW start \in C, NEW k \in Nat \ {0}
  PROVE  EndsAt(next, C, start, k) = Further(next, EndsAt(next, C, start, k - 1))
<1>1. ASSUME NEW p \in Paths(next, C, start, k)
      PROVE  p[k] \in Further(next, EndsAt(next, C, start, k - 1))
  <2>1. PICK q \in [0..(k - 1) -> C] : \A i \in 0..(k - 1) : q[i] = p[i]
    <3>1. \A i \in 0..(k - 1) : p[i] \in C
      BY DEF Paths
    <3>2. [i \in 0..(k - 1) |-> p[i]] \in [0..(k - 1) -> C]
      BY <3>1
    <3>3. QED BY <3>2
  <2>2. q \in Paths(next, C, start, k - 1)
    BY <2>1 DEF Paths
  <2>3. q[k - 1] = p[k - 1] /\ q[k - 1] \in EndsAt(next, C, start, k - 1)
    BY <2>1, <2>2 DEF EndsAt
  <2>4. p[k] = p[k - 1] \/ p[k] \in next[p[k - 1]]
    BY DEF Paths
  <2>5. QED BY <2>3, <2>4 DEF Further
<1>2. ASSUME NEW q \in Paths(next, C, start, k - 1), NEW c \in C,
             c = q[k - 1] \/ c \in next[q[k - 1]]
      PROVE  c \in EndsAt(next, C, start, k)
  <2>1. PICK p \in [0..k -> C] : \A i \in 0..k : p[i] = IF i = k THEN c ELSE q[i]
    <3>1. \A i \in 0..k : (IF i = k THEN c ELSE q[i]) \in C
      BY DEF Paths
    <3>2. [i \in 0..k |-> IF i = k THEN c ELSE q[i]] \in [0..k -> C]
      BY <3>1
    <3>3. QED BY <3>2
  <2>2. p[0] = start
    BY <2>1 DEF Paths
  <2>3. ASSUME NEW i \in 1..k PROVE p[i] = p[i - 1] \/ p[i] \in next[p[i - 1]]
    <3>1. p[i - 1] = q[i - 1]
      BY <2>1
    <3>2. CASE i = k
      BY <1>2, <2>1, <3>1, <3>2
    <3>3. CASE i # k
      BY <2>1, <3>1, <3>3 DEF Paths
    <3>4. QED BY <3>2, <3>3
  <2>4. p \in Paths(next, C, start, k) /\ p[k] = c
    BY <2>1, <2>2, <2>3 DEF Paths
  <2>5. QED BY <2>4 DEF EndsAt
<1>3. \A q \in Paths(next, C, start, k - 1) : q[k - 1] \in C /\ next[q[k - 1]] \subseteq C
  BY DEF Paths
<1>4. QED BY <1>1, <1>2, <1>3 DEF Further, EndsAt

\* The recursive function of Walk exists and is what it says.
LEMMA WalkUnfolds ==
  ASSUME NEW C, NEW next \in [C -> SUBSET C], NEW start \in C
  PROVE  \E f : /\ Walk(next, start) = f[Cardinality(Classes)]
                /\ f[0] = {start}
                /\ \A k \in Nat : f[k + 1] = Further(next, f[k])
<1> DEFINE within[k \in Nat] ==
      IF k = 0 THEN {start} ELSE within[k - 1] \cup UNION {next[c] : c \in within[k - 1]}
<1>1. PICK f : f = [k \in Nat |-> EndsAt(next, C, start, k)]
  OBVIOUS
<1>2. f = [k \in Nat |-> IF k = 0 THEN {start} ELSE Further(next, f[k - 1])]
  <2>1. \A k \in Nat : k # 0 => k - 1 \in Nat
    OBVIOUS
  <2>2. \A k \in Nat : f[k] = IF k = 0 THEN {start} ELSE Further(next, f[k - 1])
    BY <1>1, <2>1, EndsOfNone, EndsOfMore
  <2>3. QED BY <1>1, <2>2
<1>3. Walk(next, start) = within[Cardinality(Classes)]
  BY DEF Walk
<1>4. within = [k \in Nat |-> IF k = 0 THEN {start} ELSE Further(next, within[k - 1])]
  BY <1>2 DEF Further
<1> HIDE DEF within
<1>5. PICK g : g = within
  OBVIOUS
<1>6. g[0] = {start} /\ \A k \in Nat : g[k + 1] = Further(next, g[k])
  <2>1. \A k \in Nat : g[k] = IF k = 0 THEN {start} ELSE Further(next, g[k - 1])
    BY <1>4, <1>5
  <2>2. \A k \in Nat : k + 1 \in Nat /\ k + 1 # 0 /\ (k + 1) - 1 = k
    OBVIOUS
  <2>3. QED BY <2>1, <2>2
<1>7. QED BY <1>3, <1>5, <1>6

\* walk: the least set that holds start and is closed under next.  Each round
\* that is not the last adds a class.
LEMMA WalkIsLeast ==
  ASSUME NEW C \in SUBSET Classes, NEW next \in [C -> SUBSET C], NEW start \in C
  PROVE  /\ start \in Walk(next, start) /\ Walk(next, start) \subseteq C
         /\ \A c \in Walk(next, start) : next[c] \subseteq Walk(next, start)
         /\ \A X \in SUBSET C :
              start \in X /\ (\A c \in X : next[c] \subseteq X) => Walk(next, start) \subseteq X
<1>1. PICK f : /\ Walk(next, start) = f[Cardinality(Classes)]
               /\ f[0] = {start}
               /\ \A k \in Nat : f[k + 1] = Further(next, f[k])
  BY WalkUnfolds
<1>2. IsFiniteSet(Classes) /\ Cardinality(Classes) \in Nat
  BY ImpactAssumption, FS_CardinalityType
<1>3. ASSUME NEW X \in SUBSET C, start \in X, \A c \in X : next[c] \subseteq X
      PROVE  \A k \in Nat : f[k] \subseteq X
  <2> DEFINE S == {k \in Nat : f[k] \subseteq X}
  <2>1. 0 \in S
    BY <1>1, <1>3
  <2>2. ASSUME NEW k \in S PROVE k + 1 \in S
    <3>1. f[k + 1] = Further(next, f[k]) /\ f[k] \subseteq X
      BY <1>1
    <3>2. QED BY <1>3, <3>1 DEF Further
  <2>3. S = Nat
    BY <2>1, <2>2, Induct
  <2>4. QED BY <2>3
<1>4. \A k \in Nat : f[k] \subseteq C
  BY <1>3
<1>5. \A k \in Nat : start \in f[k]
  <2> DEFINE S == {k \in Nat : start \in f[k]}
  <2>1. 0 \in S
    BY <1>1
  <2>2. ASSUME NEW k \in S PROVE k + 1 \in S
    BY <1>1 DEF Further
  <2>3. S = Nat
    BY <2>1, <2>2, Induct
  <2>4. QED BY <2>3
<1>6. \A k \in Nat : IsFiniteSet(f[k]) /\ Cardinality(f[k]) \in Nat
                     /\ Cardinality(f[k]) <= Cardinality(Classes)
  BY <1>2, <1>4, FS_Subset, FS_CardinalityType
<1>7. \A k \in Nat : Further(next, f[k]) = f[k] \/ Cardinality(f[k]) > k
  <2> DEFINE S == {k \in Nat : Further(next, f[k]) = f[k] \/ Cardinality(f[k]) > k}
  <2>1. 0 \in S
    <3>1. Cardinality(f[0]) = 1
      BY <1>1, FS_Singleton
    <3>2. QED BY <3>1
  <2>2. ASSUME NEW k \in S PROVE k + 1 \in S
    <3>1. f[k + 1] = Further(next, f[k]) /\ k + 1 \in Nat
      BY <1>1
    <3>2. CASE Further(next, f[k]) = f[k]
      BY <3>1, <3>2
    <3>3. CASE Further(next, f[k]) # f[k]
      <4>1. f[k] \subseteq f[k + 1] /\ f[k] # f[k + 1]
        BY <3>1, <3>3 DEF Further
      <4>2. Cardinality(f[k]) < Cardinality(f[k + 1])
        BY <1>6, <3>1, <4>1, FS_Subset
      <4>3. Cardinality(f[k]) > k
        BY <3>3
      <4>4. Cardinality(f[k + 1]) > k + 1
        BY <1>6, <3>1, <4>2, <4>3
      <4>5. QED BY <3>1, <4>4
    <3>4. QED BY <3>2, <3>3
  <2>3. S = Nat
    BY <2>1, <2>2, Induct
  <2>4. QED BY <2>3
<1>8. Further(next, f[Cardinality(Classes)]) = f[Cardinality(Classes)]
  BY <1>2, <1>6, <1>7
<1>9. \A c \in f[Cardinality(Classes)] : next[c] \subseteq f[Cardinality(Classes)]
  BY <1>8 DEF Further
<1>10. QED BY <1>1, <1>2, <1>3, <1>4, <1>5, <1>9
-----------------------------------------------------------------------------
(* What a test class reaches, and what reaches a class.                    *)

LEMMA ReachIsLeast ==
  ASSUME NEW files, NEW c \in ClassesIn(files)
  PROVE  /\ c \in ReachOf(files, c) /\ ReachOf(files, c) \subseteq ClassesIn(files)
         /\ \A d \in ReachOf(files, c) : Refers(files, d) \subseteq ReachOf(files, c)
         /\ \A X \in SUBSET ClassesIn(files) :
              c \in X /\ (\A d \in X : Refers(files, d) \subseteq X)
                => ReachOf(files, c) \subseteq X
<1>1. PICK C \in SUBSET Classes : C = ClassesIn(files)
  BY DEF ClassesIn
<1>2. PICK next \in [C -> SUBSET C] : next = [d \in ClassesIn(files) |-> Refers(files, d)]
  BY <1>1 DEF Refers
<1>3. \A d \in C : next[d] = Refers(files, d)
  BY <1>1, <1>2
<1>4. ReachOf(files, c) = Walk(next, c) /\ c \in C
  BY <1>1, <1>2 DEF ReachOf
<1>5. /\ c \in Walk(next, c) /\ Walk(next, c) \subseteq C
      /\ \A d \in Walk(next, c) : next[d] \subseteq Walk(next, c)
      /\ \A X \in SUBSET C :
           c \in X /\ (\A d \in X : next[d] \subseteq X) => Walk(next, c) \subseteq X
  BY <1>4, WalkIsLeast
<1>6. QED BY ONLY <1>1, <1>3, <1>4, <1>5

LEMMA UsersIsLeast ==
  ASSUME NEW files, NEW c \in ClassesIn(files)
  PROVE  /\ c \in UsersOf(files, c) /\ UsersOf(files, c) \subseteq ClassesIn(files)
         /\ \A d \in UsersOf(files, c) : Users(files, d) \subseteq UsersOf(files, c)
         /\ \A X \in SUBSET ClassesIn(files) :
              c \in X /\ (\A d \in X : Users(files, d) \subseteq X)
                => UsersOf(files, c) \subseteq X
<1>1. PICK C \in SUBSET Classes : C = ClassesIn(files)
  BY DEF ClassesIn
<1>2. PICK next \in [C -> SUBSET C] : next = [d \in ClassesIn(files) |-> Users(files, d)]
  BY <1>1 DEF Users
<1>3. \A d \in C : next[d] = Users(files, d)
  BY <1>1, <1>2
<1>4. UsersOf(files, c) = Walk(next, c) /\ c \in C
  BY <1>1, <1>2 DEF UsersOf
<1>5. /\ c \in Walk(next, c) /\ Walk(next, c) \subseteq C
      /\ \A d \in Walk(next, c) : next[d] \subseteq Walk(next, c)
      /\ \A X \in SUBSET C :
           c \in X /\ (\A d \in X : next[d] \subseteq X) => Walk(next, c) \subseteq X
  BY <1>4, WalkIsLeast
<1>6. QED BY ONLY <1>1, <1>3, <1>4, <1>5

\* The two graphs are each other's reverse.
LEMMA ReachIsUse ==
  ASSUME NEW files, NEW t \in ClassesIn(files), NEW c \in ClassesIn(files)
  PROVE  c \in ReachOf(files, t) <=> t \in UsersOf(files, c)
<1>0. \A d, e \in ClassesIn(files) : e \in Refers(files, d) <=> d \in Users(files, e)
  BY DEF Refers, Users
<1>1. ASSUME c \in ReachOf(files, t) PROVE t \in UsersOf(files, c)
  <2> DEFINE X == {d \in ClassesIn(files) : t \in UsersOf(files, d)}
  <2>1. t \in X
    BY UsersIsLeast
  <2>2. ASSUME NEW d \in X, NEW e \in Refers(files, d) PROVE e \in X
    <3>1. e \in ClassesIn(files) /\ d \in ClassesIn(files) /\ t \in UsersOf(files, d)
      BY DEF Refers
    <3>2. Users(files, e) \subseteq UsersOf(files, e)
      BY <3>1, UsersIsLeast
    <3>3. d \in UsersOf(files, e)
      BY <1>0, <3>1, <3>2
    <3>4. UsersOf(files, d) \subseteq UsersOf(files, e)
      BY <3>1, <3>3, UsersIsLeast
    <3>5. QED BY <3>1, <3>4
  <2>3. ReachOf(files, t) \subseteq X
    BY <2>1, <2>2, ReachIsLeast
  <2>4. QED BY <1>1, <2>3
<1>2. ASSUME t \in UsersOf(files, c) PROVE c \in ReachOf(files, t)
  <2> DEFINE X == {d \in ClassesIn(files) : c \in ReachOf(files, d)}
  <2>1. c \in X
    BY ReachIsLeast
  <2>2. ASSUME NEW d \in X, NEW e \in Users(files, d) PROVE e \in X
    <3>1. e \in ClassesIn(files) /\ d \in ClassesIn(files) /\ c \in ReachOf(files, d)
      BY DEF Users
    <3>2. Refers(files, e) \subseteq ReachOf(files, e)
      BY <3>1, ReachIsLeast
    <3>3. d \in ReachOf(files, e)
      BY <1>0, <3>1, <3>2
    <3>4. ReachOf(files, d) \subseteq ReachOf(files, e)
      BY <3>1, <3>3, ReachIsLeast
    <3>5. QED BY <3>1, <3>4
  <2>3. UsersOf(files, c) \subseteq X
    BY <2>1, <2>2, UsersIsLeast
  <2>4. QED BY <1>2, <2>3
<1>3. QED BY <1>1, <1>2

\* What a class reaches on now, unchanged since before, it reached before.
LEMMA ReachUnchanged ==
  ASSUME NEW before, NEW after, NEW t \in ClassesIn(after), ClassesIn(before) = ClassesIn(after),
         \A c \in ReachOf(after, t) : before[c] = after[c]
  PROVE  ReachOf(after, t) \subseteq ReachOf(before, t)
<1> DEFINE X == ReachOf(after, t) \cap ReachOf(before, t)
<1>1. t \in X /\ X \subseteq ClassesIn(after)
  BY ReachIsLeast
<1>2. ASSUME NEW d \in X PROVE Refers(after, d) \subseteq X
  <2>1. Refers(after, d) = Refers(before, d)
    BY DEF Refers
  <2>2. Refers(after, d) \subseteq ReachOf(after, t) /\ Refers(before, d) \subseteq ReachOf(before, t)
    BY ReachIsLeast
  <2>3. QED BY <2>1, <2>2
<1>3. \A Y \in SUBSET ClassesIn(after) :
        t \in Y /\ (\A d \in Y : Refers(after, d) \subseteq Y) => ReachOf(after, t) \subseteq Y
  BY ReachIsLeast
<1>4. ReachOf(after, t) \subseteq X
  BY <1>1, <1>2, <1>3
<1>5. QED BY <1>4

\* compare: a class file that differs and is reached has its test class run.
LEMMA ChangeIsReached ==
  ASSUME NEW before, NEW after, NEW t \in TestsIn(after), NEW c \in ReachOf(after, t),
         Top[t] \notin Reached(before, after)
  PROVE  before[c] = after[c]
<1>1. t \in ClassesIn(after) /\ t \in Scan
  BY DEF TestsIn
<1>2. c \in ClassesIn(after)
  BY <1>1, ReachIsLeast
<1>3. t \in UsersOf(after, c)
  BY <1>1, <1>2, ReachIsUse
<1>4. QED BY <1>1, <1>2, <1>3 DEF Reached, Changed

\* What no test class reaches is unchanged too, or every test class runs.
LEMMA LooseUnchanged ==
  ASSUME NEW before, NEW after, ~Unclear(before, after), NEW c \in Loose(after)
  PROVE  before[c] = after[c]
<1>1. SUFFICES ASSUME before[c] # after[c] PROVE FALSE
  OBVIOUS
<1>2. c \in ClassesIn(after) /\ c \in Changed(before, after)
  BY <1>1 DEF Loose, Changed
<1>3. PICK t \in Scan : t \in UsersOf(after, c)
  BY <1>2 DEF Unclear
<1>4. t \in ClassesIn(after)
  BY <1>2, <1>3, UsersIsLeast
<1>5. c \in ReachOf(after, t) /\ t \in TestsIn(after)
  BY <1>2, <1>3, <1>4, ReachIsUse DEF TestsIn
<1>6. QED BY <1>5 DEF Loose

-----------------------------------------------------------------------------
(* The step of the argument: a class that passed on the files of the       *)
(* record, and that select leaves out, would pass on the files of now.     *)

SkipsAlike(rec, after, top) ==
  \A p, loose :
    Alike(p, rec.files, top, loose) => Alike(p, after, top, loose \cap Loose(after))

LEMMA SkippedIsAlike ==
  ASSUME NEW rec, NEW after, NEW top,
         ~Unclear(rec.files, after), top \notin Only(rec, after)
  PROVE  SkipsAlike(rec, after, top)
<1> DEFINE tests == {u \in TestsIn(after) : Top[u] = top}
           reach == UNION {ReachOf(after, u) : u \in tests}
           was == UNION {ReachOf(rec.files, u) : u \in {v \in TestsIn(rec.files) : Top[v] = top}}
<1>1. ClassesIn(rec.files) = ClassesIn(after) /\ TestsIn(rec.files) = TestsIn(after)
  BY DEF Unclear, TestsIn
<1>2. \A f \in Others : rec.files[f] = after[f]
  BY DEF Unclear
<1>3. \A u \in tests : u \in ClassesIn(after)
  BY DEF TestsIn
<1>4. \A u \in tests : \A c \in ReachOf(after, u) :
        rec.files[c] = after[c] /\ c \in ReachOf(rec.files, u)
  <2>1. SUFFICES ASSUME NEW u \in tests
                 PROVE  \A c \in ReachOf(after, u) :
                          rec.files[c] = after[c] /\ c \in ReachOf(rec.files, u)
    OBVIOUS
  <2>2. Top[u] \notin Reached(rec.files, after)
    BY DEF Only
  <2>3. \A c \in ReachOf(after, u) : rec.files[c] = after[c]
    BY <2>2, ChangeIsReached
  <2>4. QED BY <1>1, <1>3, <2>3, ReachUnchanged
<1>5. reach \subseteq was /\ reach \subseteq ClassesIn(after)
      /\ \A c \in reach : rec.files[c] = after[c]
  <2>1. \A u \in tests : ReachOf(after, u) \subseteq ClassesIn(after)
    BY <1>3, ReachIsLeast
  <2>2. QED BY <1>1, <1>4, <2>1
<1>6. \A c \in reach : ~after[c].groovy
  BY <1>5 DEF Unclear
<1>7. ASSUME NEW c \in reach, after[c].finds
      PROVE  /\ rec.files[c].finds
             /\ \A d \in Classes : rec.files[d] = after[d]
  <2>1. top \in FindingClasses(after)
    BY <1>7 DEF FindingClasses
  <2>2. Changed(rec.files, after) = {}
    BY <2>1 DEF Only
  <2>3. ASSUME NEW d \in Classes PROVE rec.files[d] = after[d]
    <3>1. CASE d \in ClassesIn(after)
      BY <2>2, <3>1 DEF Changed
    <3>2. CASE d \notin ClassesIn(after)
      BY <1>1, <3>2 DEF ClassesIn
    <3>3. QED BY <3>1, <3>2
  <2>4. QED BY <1>5, <1>7, <2>3
<1>8. SUFFICES ASSUME NEW p, NEW loose, Alike(p, rec.files, top, loose),
                      NEW f \in Sees(after, top) \cup (loose \cap Loose(after))
               PROVE  p[f] = after[f]
  BY DEF SkipsAlike, Alike
<1>9. CASE f \in Others
  <2>1. f \in Sees(rec.files, top)
    BY <1>9 DEF Sees
  <2>2. QED BY <1>2, <1>8, <1>9, <2>1 DEF Alike
<1>10. CASE f \in reach
  <2>1. f \in was /\ was \subseteq Classes
    <3>1. \A u \in tests : ReachOf(rec.files, u) \subseteq ClassesIn(rec.files)
      BY <1>1, <1>3, ReachIsLeast
    <3>2. QED BY <1>1, <1>5, <1>10, <3>1 DEF ClassesIn
  <2>2. f \in Sees(rec.files, top)
    BY <2>1 DEF Sees
  <2>3. QED BY <1>5, <1>8, <1>10, <2>2 DEF Alike
<1>11. CASE f \in Classes /\ \E c \in reach : after[c].finds
  <2>1. PICK c \in reach : after[c].finds
    BY <1>11
  <2>2. c \in was /\ rec.files[c].finds /\ rec.files[f] = after[f]
    BY <1>5, <1>7, <1>11, <2>1
  <2>3. f \in Sees(rec.files, top)
    BY <1>11, <2>2 DEF Sees
  <2>4. QED BY <1>8, <2>2, <2>3 DEF Alike
<1>12. CASE f \in loose \cap Loose(after)
  BY <1>8, <1>12, LooseUnchanged DEF Alike
<1>13. QED
  <2>1. Sees(after, top) = Others \cup
          (IF \E c \in reach : after[c].finds \/ after[c].groovy THEN Classes ELSE reach)
    BY DEF Sees
  <2>2. QED BY <1>6, <1>8, <1>9, <1>10, <1>11, <1>12, <2>1

-----------------------------------------------------------------------------
(* The invariant.                                                          *)

Suite == ToSet(Order)
Snapshots == [Files -> UNION {Holds[f] : f \in Files}]

Histories ==
  [start : Snapshots, shard : Nat, shards : Nat \ {0}, forks : Nat \ {0}, crashes : Nat,
   retries : BOOLEAN, failFast : BOOLEAN, kills : Nat, changes : Nat, commands : Nat]

TypeOK ==
  /\ trial \in Histories
  /\ now \in Snapshots
  /\ record \in {NoRecord} \cup [files : Snapshots, pending : SUBSET Suite]
  /\ entries \subseteq [files : Snapshots, mine : SUBSET Suite]
  /\ job \in {NoJob} \cup
       [at : {"selected", "running"}, files : Snapshots, mine : SUBSET Suite,
        selected : SUBSET Suite, all : BOOLEAN, ranAll : BOOLEAN, loose : SUBSET Classes]
  /\ verdict \in {Never} \cup
       [files : Snapshots, ran : SUBSET Suite, mine : SUBSET Suite, result : {"ok", "failed"}]
  /\ passed \in [Suite -> {Never} \cup [files : Snapshots, loose : SUBSET Classes]]

\* What select leaves out is of the suite, and nothing when it runs all.
JobInv ==
  job.at # "idle" =>
    /\ job.selected \subseteq job.mine /\ job.mine = Mine(job.files)
    /\ job.ranAll => job.selected = job.mine

\* What is left out of this run, and of the next by the record, stands.
SkippedInv ==
  job.at # "idle" => \A t \in job.mine \ job.selected : Stands(t, job.files)
RecordInv ==
  record # NoRecord => \A t \in Mine(record.files) \ record.pending : Stands(t, record.files)

\* No test JVM goes down, or it is the only one and takes all classes with it.
NoForkDies == trial.forks = 1 \/ trial.crashes = 0

KeptInv == TypeOK /\ JobInv
IInv == KeptInv /\ NoForkDies /\ SkippedInv /\ RecordInv /\ AsAFullRun

-----------------------------------------------------------------------------
LEMMA MineInSuite == \A files : Mine(files) \subseteq Suite
  BY DEF Mine, Suite, ToSet

\* The trials only run down.
LEMMA SpendType ==
  ASSUME TypeOK, NEW what \in {"kills", "changes", "commands"}, Spend(what)
  PROVE  /\ trial' \in Histories
         /\ trial'.forks = trial.forks /\ trial'.crashes = trial.crashes
         /\ trial'.shard = trial.shard /\ trial'.shards = trial.shards
  BY DEF TypeOK, Spend, Histories

LEMMA CrashType ==
  ASSUME TypeOK, NEW n \in Nat, n <= trial.crashes, trial' = [trial EXCEPT !.crashes = n]
  PROVE  /\ trial' \in Histories
         /\ trial'.forks = trial.forks /\ trial'.crashes <= trial.crashes
         /\ trial'.shard = trial.shard /\ trial'.shards = trial.shards
  BY DEF TypeOK, Histories

\* A command under way is a record of all its fields.
LEMMA JobType ==
  ASSUME TypeOK, job.at # "idle"
  PROVE  job \in [at : {"selected", "running"}, files : Snapshots, mine : SUBSET Suite,
                 selected : SUBSET Suite, all : BOOLEAN, ranAll : BOOLEAN, loose : SUBSET Classes]
  BY DEF TypeOK, NoJob

LEMMA PassedType ==
  ASSUME TypeOK, job.at # "idle"
  PROVE  /\ Passed \in [files : Snapshots, loose : SUBSET Classes] /\ Passed # Never
         /\ Passed.files = job.files
  BY JobType DEF Passed, Never

\* What Conclude does, of a choice of results and of the classes a crash took.
Outcome(results, crashed) ==
  /\ \A t \in crashed : results[t] = "not run"
  /\ crashed # {} => trial.crashes > 0
  /\ StoppedEarly(results, crashed) =>
       trial.failFast /\ Were(results, "fails") # {} /\ Were(results, "flaky") = {}
  /\ record' = Recorded(Snapshot, Pending(results, crashed))
  /\ entries' = IF Keeps(results, crashed)
                  THEN entries \cup {Key(job.files, job.mine)} ELSE entries
  /\ passed' = [t \in DOMAIN passed |->
       IF t \notin job.selected THEN passed[t]
       ELSE IF results[t] = "passes" THEN Passed
       ELSE IF results[t] = "not run" THEN passed[t] ELSE Never]
  /\ Ends(job.files, job.selected \ Were(results, "not run"),
          IF Passes(results, crashed) THEN "ok" ELSE "failed")

LEMMA ConcludeCases ==
  ASSUME TypeOK, Conclude
  PROVE  /\ job.at = "running" /\ UNCHANGED now
         /\ \E results \in [job.selected -> Results], crashed \in Forks \cup {{}} :
              Outcome(results, crashed)
         /\ trial' \in Histories
         /\ trial'.forks = trial.forks /\ trial'.crashes <= trial.crashes
         /\ trial'.shard = trial.shard /\ trial'.shards = trial.shards
<1>1. PICK results \in [job.selected -> Results], crashed \in Forks \cup {{}} :
        /\ Outcome(results, crashed)
        /\ trial' = [trial EXCEPT !.crashes = IF crashed = {} THEN @ ELSE @ - 1]
  BY DEF Conclude, Outcome
<1>2. trial.crashes \in Nat /\ (crashed # {} => trial.crashes > 0)
  BY <1>1 DEF TypeOK, Histories, Outcome
<1>3. PICK n : n = IF crashed = {} THEN trial.crashes ELSE trial.crashes - 1
  OBVIOUS
<1>4. n \in Nat /\ n <= trial.crashes
  BY <1>2, <1>3
<1>5. trial' = [trial EXCEPT !.crashes = n]
  BY <1>1, <1>3
<1>6. QED BY <1>1, <1>4, <1>5, CrashType DEF Conclude, Running

LEMMA TypeInit == Init => TypeOK
<1> SUFFICES ASSUME Init PROVE TypeOK
  OBVIOUS
<1>1. trial \in Histories
  BY TestRunAssumption DEF Init, Histories, Snapshots
<1>2. now \in Snapshots
  BY <1>1 DEF Init, Histories
<1>3. passed \in [Suite -> {Never} \cup [files : Snapshots, loose : SUBSET Classes]]
  BY DEF Init, Suite
<1>4. QED BY <1>1, <1>2, <1>3 DEF Init, TypeOK

LEMMA TypeStep == KeptInv /\ [Next]_vars => TypeOK'
<1> SUFFICES ASSUME TypeOK, JobInv, [Next]_vars PROVE TypeOK'
  BY DEF KeptInv
<1>1. CASE Select
  <2>1. PICK all \in BOOLEAN :
          job' = [at |-> "selected", files |-> now, mine |-> Mine(now),
                  selected |-> Selected(all),
                  all |-> all, ranAll |-> all \/ RunsAll(record, now), loose |-> Loose(now)]
    BY <1>1 DEF Select
  <2>2. Mine(now) \in SUBSET Suite /\ Selected(all) \in SUBSET Suite
    BY MineInSuite DEF Selected
  <2>3. Loose(now) \in SUBSET Classes /\ (all \/ RunsAll(record, now)) \in BOOLEAN
    BY DEF Loose, ClassesIn
  <2>4. job' \in [at : {"selected", "running"}, files : Snapshots, mine : SUBSET Suite,
                  selected : SUBSET Suite, all : BOOLEAN, ranAll : BOOLEAN,
                  loose : SUBSET Classes]
    BY <2>1, <2>2, <2>3 DEF TypeOK
  <2>5. trial' \in Histories
    BY <1>1, SpendType DEF Select
  <2>6. ASSUME NEW t \in Suite
        PROVE  (IF passed[t] = Never THEN Never ELSE [passed[t] EXCEPT !.loose = @ \cap job'.loose])
                 \in {Never} \cup [files : Snapshots, loose : SUBSET Classes]
    BY DEF TypeOK
  <2>7. passed' \in [Suite -> {Never} \cup [files : Snapshots, loose : SUBSET Classes]]
    BY <1>1, <2>6 DEF Select, TypeOK
  <2>8. verdict' = Never /\ UNCHANGED <<now, record, entries>>
    BY <1>1 DEF Select
  <2>9. QED BY <2>4, <2>5, <2>7, <2>8 DEF TypeOK
<1>2. CASE NothingReached
  <2>1. job.at # "idle"
    BY <1>2 DEF NothingReached
  <2>2. QED BY <1>2, <2>1, JobType DEF NothingReached, TypeOK, Recorded, Ends
<1>3. CASE Restore
  <2>1. job.at # "idle"
    BY <1>3 DEF Restore, Goes
  <2>2. passed' \in [Suite -> {Never} \cup [files : Snapshots, loose : SUBSET Classes]]
    BY <1>3, <2>1, PassedType DEF Restore, TypeOK
  <2>3. record' \in [files : Snapshots, pending : SUBSET Suite]
    BY <1>3, <2>1, JobType DEF Restore, Recorded
  <2>4. QED BY <1>3, <2>1, <2>2, <2>3, JobType DEF Restore, TypeOK, Ends
<1>4. CASE Launch
  <2>1. job.at # "idle"
    BY <1>4 DEF Launch, Goes
  <2>2. job' \in [at : {"selected", "running"}, files : Snapshots, mine : SUBSET Suite,
                  selected : SUBSET Suite, all : BOOLEAN, ranAll : BOOLEAN,
                  loose : SUBSET Classes]
    BY <1>4, <2>1, JobType DEF Launch
  <2>3. QED BY <1>4, <2>2 DEF Launch, TypeOK
<1>5. CASE Conclude
  <2>1. PICK results \in [job.selected -> Results], crashed \in Forks \cup {{}} :
          Outcome(results, crashed)
    BY <1>5, ConcludeCases
  <2>2. job.at # "idle" /\ UNCHANGED now /\ trial' \in Histories
    BY <1>5, ConcludeCases
  <2>3. Pending(results, crashed) \in SUBSET Suite
    BY <2>1, <2>2, JobType DEF Pending, Were
  <2>4. record' \in [files : Snapshots, pending : SUBSET Suite]
    BY <2>1, <2>2, <2>3, JobType DEF Outcome, Recorded, Snapshot
  <2>5. Key(job.files, job.mine) \in [files : Snapshots, mine : SUBSET Suite]
    BY <2>2, JobType DEF Key
  <2>6. entries' \subseteq [files : Snapshots, mine : SUBSET Suite]
    BY <2>1, <2>5 DEF Outcome, TypeOK
  <2>7. passed' \in [Suite -> {Never} \cup [files : Snapshots, loose : SUBSET Classes]]
    <3>1. passed' = [t \in DOMAIN passed |->
            IF t \notin job.selected THEN passed[t]
            ELSE IF results[t] = "passes" THEN Passed
            ELSE IF results[t] = "not run" THEN passed[t] ELSE Never]
      BY <2>1 DEF Outcome
    <3>2. QED BY <2>2, <3>1, PassedType DEF TypeOK
  <2>8. verdict' \in [files : Snapshots, ran : SUBSET Suite, mine : SUBSET Suite,
                     result : {"ok", "failed"}] /\ job' = NoJob
    <3>1. Ends(job.files, job.selected \ Were(results, "not run"),
               IF Passes(results, crashed) THEN "ok" ELSE "failed")
      BY <2>1 DEF Outcome
    <3>2. QED BY <2>2, <3>1, JobType DEF Ends
  <2>9. QED BY <2>2, <2>4, <2>6, <2>7, <2>8 DEF TypeOK
<1>6. CASE Broken
  <2>1. job.at # "idle"
    BY <1>6 DEF Broken, Running
  <2>2. QED BY <1>6, <2>1, JobType DEF Broken, TypeOK, Ends
<1>7. CASE Kill
  <2>1. trial' \in Histories
    BY <1>7, SpendType DEF Kill
  <2>2. QED BY <1>7, <2>1 DEF Kill, TypeOK
<1>8. CASE Rebuild
  <2>1. trial' \in Histories
    BY <1>8, SpendType DEF Rebuild
  <2>2. PICK f \in Files, v \in UNION {Holds[g] : g \in Files} : now' = [now EXCEPT ![f] = v]
    BY <1>8 DEF Rebuild
  <2>3. now' \in Snapshots
    BY <2>2 DEF TypeOK, Snapshots
  <2>4. QED BY <1>8, <2>1, <2>3 DEF Rebuild, TypeOK
<1>9. CASE UNCHANGED vars
  BY <1>9 DEF vars, TypeOK
<1>10. QED BY <1>1, <1>2, <1>3, <1>4, <1>5, <1>6, <1>7, <1>8, <1>9 DEF Next

\* The shards do not change.
LEMMA TrialStep ==
  ASSUME TypeOK, [Next]_vars
  PROVE  /\ trial'.forks = trial.forks /\ trial'.crashes <= trial.crashes
         /\ trial'.shard = trial.shard /\ trial'.shards = trial.shards
<1>0. trial.crashes \in Nat
  BY DEF TypeOK, Histories
<1>1. CASE Select
  BY <1>0, <1>1, SpendType DEF Select
<1>2. CASE Conclude
  BY <1>2, ConcludeCases
<1>3. CASE Kill
  BY <1>0, <1>3, SpendType DEF Kill
<1>4. CASE Rebuild
  BY <1>0, <1>4, SpendType DEF Rebuild
<1>5. CASE UNCHANGED trial
  BY <1>0, <1>5
<1>6. QED BY <1>1, <1>2, <1>3, <1>4, <1>5
       DEF Next, NothingReached, Restore, Launch, Broken, vars

LEMMA MineKept ==
  ASSUME TypeOK, [Next]_vars
  PROVE  \A files : Mine(files)' = Mine(files)
  BY TrialStep DEF Mine

LEMMA JobStep == KeptInv /\ [Next]_vars => JobInv'
<1> SUFFICES ASSUME TypeOK, JobInv, [Next]_vars PROVE JobInv'
  BY DEF KeptInv
<1>0. \A files : Mine(files)' = Mine(files)
  BY MineKept
<1>1. CASE Select
  <2>1. PICK all \in BOOLEAN :
          job' = [at |-> "selected", files |-> now, mine |-> Mine(now),
                  selected |-> Selected(all),
                  all |-> all, ranAll |-> all \/ RunsAll(record, now), loose |-> Loose(now)]
    BY <1>1 DEF Select
  <2>2. /\ job'.mine = Mine(now) /\ job'.files = now /\ job'.selected = Selected(all)
        /\ job'.ranAll = (all \/ RunsAll(record, now))
    BY <2>1
  <2>3. /\ Selected(all) \subseteq Mine(now)
        /\ (all \/ RunsAll(record, now)) => Selected(all) = Mine(now)
    BY DEF Selected
  <2>4. PICK files : files = now
    OBVIOUS
  <2>5. Mine(job.files)' = Mine(now)
    BY <1>0, <2>2, <2>4
  <2>6. QED BY <2>2, <2>3, <2>5 DEF JobInv
<1>2. CASE Launch
  <2>1. job.at # "idle"
    BY <1>2 DEF Launch, Goes
  <2>2. /\ job'.mine = job.mine /\ job'.files = job.files /\ job'.selected = job.selected
        /\ job'.ranAll = job.ranAll
    BY <1>2, <2>1, JobType DEF Launch
  <2>3. PICK files : files = job.files
    OBVIOUS
  <2>4. Mine(job.files)' = Mine(job.files)
    BY <1>0, <2>2, <2>3
  <2>5. QED BY <2>1, <2>2, <2>4 DEF JobInv
<1>3. CASE job' = NoJob
  BY <1>3 DEF JobInv, NoJob
<1>4. CASE UNCHANGED job
  <2>1. PICK files : files = job.files
    OBVIOUS
  <2>2. Mine(job.files)' = Mine(job.files)
    BY <1>0, <1>4, <2>1
  <2>3. QED BY <1>4, <2>2 DEF JobInv
<1>5. CASE Conclude
  <2>1. job' = NoJob
    BY <1>5, ConcludeCases DEF Outcome, Ends
  <2>2. QED BY <1>3, <2>1
<1>6. QED BY <1>1, <1>2, <1>3, <1>4, <1>5
       DEF Next, NothingReached, Restore, Broken, Kill, Rebuild, Ends, vars

LEMMA KeptStep == KeptInv /\ [Next]_vars => KeptInv'
  BY TypeStep, JobStep DEF KeptInv

LEMMA KeptAlways == Spec => []KeptInv
<1>1. Init => KeptInv
  BY TypeInit DEF KeptInv, Init, JobInv, NoJob
<1>2. QED BY <1>1, KeptStep, PTL DEF Spec

\* The variables of the test command keep their types.
THEOREM SpecTyped == Spec => []TypeOK
<1>1. KeptInv => TypeOK
  BY DEF KeptInv
<1>2. QED BY <1>1, KeptAlways, PTL

\* What a run stores for the next to restore, store_tests only stores when every
\* class of the suite ran in it and passed at its first attempt, on the files
\* of its key.
THEOREM SpecCachedRunsPassed == Spec => CachedRunsPassed
<1>1. ASSUME KeptInv, [Next]_vars, NEW e \in entries' \ entries
      PROVE  /\ verdict'.ran = e.mine
             /\ \A t \in e.mine : passed'[t] # Never /\ passed'[t].files = e.files
  <2>1. Conclude
    BY <1>1 DEF Next, Select, NothingReached, Restore, Launch, Broken, Kill, Rebuild, vars
  <2>2. PICK results \in [job.selected -> Results], crashed \in Forks \cup {{}} :
          Outcome(results, crashed)
    BY <1>1, <2>1, ConcludeCases DEF KeptInv
  <2>3. job.at # "idle"
    BY <1>1, <2>1, ConcludeCases DEF KeptInv
  <2>4. Keeps(results, crashed) /\ e = Key(job.files, job.mine)
    BY <1>1, <2>2 DEF Outcome
  <2>5. job.selected = job.mine
    BY <1>1, <2>3, <2>4 DEF KeptInv, JobInv, Keeps
  <2>6. /\ Were(results, "flaky") = {} /\ Were(results, "fails") = {}
        /\ Were(results, "not run") \subseteq crashed /\ crashed = {}
    BY <2>4 DEF Keeps, Passes
  <2>7. \A t \in job.selected : results[t] = "passes"
    BY <2>6 DEF Were, Results
  <2>8. verdict'.ran = job.mine
    BY <2>2, <2>5, <2>6 DEF Outcome, Ends
  <2>9. ASSUME NEW t \in job.mine PROVE passed'[t] = Passed
    <3>1. t \in DOMAIN passed
      BY <1>1, <2>3, JobType DEF KeptInv, TypeOK
    <3>2. QED BY <2>2, <2>5, <2>7, <3>1 DEF Outcome
  <2>10. e.files = job.files /\ e.mine = job.mine
    BY <2>4 DEF Key
  <2>11. QED BY <1>1, <2>3, <2>8, <2>9, <2>10, PassedType DEF KeptInv
<1>2. KeptInv /\ [Next]_vars =>
        [\A e \in entries' \ entries :
           /\ verdict'.ran = e.mine
           /\ \A t \in e.mine : passed'[t] # Never /\ passed'[t].files = e.files]_vars
  BY <1>1
<1>3. QED BY <1>2, KeptAlways, PTL DEF Spec, CachedRunsPassed

-----------------------------------------------------------------------------
(* What was left out.                                                      *)

\* A class stands as long as its last pass does.
LEMMA StandsKept ==
  ASSUME NEW t, NEW files, Stands(t, files), passed'[t] = passed[t]
  PROVE  Stands(t, files)'
  BY DEF Stands

\* A class that has just passed stands.
LEMMA StandsAnew ==
  ASSUME TypeOK, job.at # "idle", NEW t, passed'[t] = Passed
  PROVE  \A files : files = job.files => Stands(t, files)'
<1>1. passed'[t].files = job.files /\ passed'[t] # Never
  BY PassedType
<1>2. QED BY <1>1 DEF Stands, Alike

\* A select keeps of the classes no test reached those none reaches now.
LEMMA SelectPassed ==
  ASSUME TypeOK, Select, NEW t \in Suite, passed[t] # Never
  PROVE  /\ passed'[t] # Never /\ passed'[t].files = passed[t].files
         /\ passed'[t].loose = passed[t].loose \cap Loose(now)
<1>1. job'.loose = Loose(now)
  BY DEF Select
<1>2. passed[t] \in [files : Snapshots, loose : SUBSET Classes] /\ t \in DOMAIN passed
  BY DEF TypeOK
<1>3. passed'[t] = [passed[t] EXCEPT !.loose = @ \cap Loose(now)]
  BY <1>1, <1>2 DEF Select
<1>4. PICK p \in [files : Snapshots, loose : SUBSET Classes] : p = passed[t]
  BY <1>2
<1>5. PICK L : L = Loose(now)
  OBVIOUS
<1>6. [p EXCEPT !.loose = @ \cap L] # Never
  BY DEF Never
<1>7. QED BY <1>3, <1>4, <1>5, <1>6

LEMMA StandsAfterSelect ==
  ASSUME TypeOK, Select, NEW t \in Suite
  PROVE  \A files : Stands(t, files) => Stands(t, files)'
  BY SelectPassed DEF Stands, Alike

\* Without a fork that dies alone, a run that is a success leaves nothing out,
\* and what is not pending passed at once.
LEMMA SettledPassed ==
  ASSUME NoForkDies, NEW results \in [job.selected -> Results],
         NEW crashed \in Forks \cup {{}}, Outcome(results, crashed)
  PROVE  /\ Passes(results, crashed) => Were(results, "not run") = {}
         /\ \A t \in job.selected \ Pending(results, crashed) : results[t] = "passes"
<1>1. crashed = {} \/ crashed = job.selected
  <2>1. crashed # {} => trial.crashes > 0
    BY DEF Outcome
  <2>2. CASE trial.crashes > 0
    BY <2>2 DEF NoForkDies, Forks
  <2>3. QED BY <2>1, <2>2
<1>2. \A t \in crashed : results[t] = "not run"
  BY DEF Outcome
<1>3. Passes(results, crashed) => Were(results, "not run") = {} /\ Were(results, "fails") = {}
  <2>1. SUFFICES ASSUME Passes(results, crashed)
                 PROVE  Were(results, "not run") = {} /\ Were(results, "fails") = {}
    OBVIOUS
  <2>2. crashed = {}
    BY <1>1, <1>2, <2>1 DEF Passes, Were
  <2>3. QED BY <2>1, <2>2 DEF Passes
<1>4. ASSUME NEW t \in job.selected \ Pending(results, crashed) PROVE results[t] = "passes"
  <2>1. t \notin Were(results, "fails") \cup Were(results, "flaky")
    BY <1>4 DEF Pending
  <2>2. CASE Passes(results, crashed)
    BY <1>3, <2>1, <2>2 DEF Were, Results
  <2>3. CASE ~Passes(results, crashed)
    <3>1. /\ Were(results, "not run") = crashed
          /\ Were(results, "fails") \cup Were(results, "flaky") # {}
      BY <1>4, <2>3 DEF Pending, StoppedEarly
    <3>2. crashed = {}
      BY <1>1, <1>2, <3>1 DEF Were
    <3>3. QED BY <2>1, <3>1, <3>2 DEF Were, Results
  <2>4. QED BY <2>2, <2>3
<1>5. QED BY <1>3, <1>4

\* So after a run all of the suite stands but what is pending, and all of it
\* when the run is a success.
LEMMA ConcludeStands ==
  ASSUME TypeOK, NoForkDies, JobInv, SkippedInv, job.at # "idle",
         NEW results \in [job.selected -> Results],
         NEW crashed \in Forks \cup {{}}, Outcome(results, crashed)
  PROVE  \A t \in job.mine : \A files : files = job.files =>
           \/ t \in Pending(results, crashed) /\ t \in job.selected
           \/ Stands(t, files)'
<1>1. SUFFICES ASSUME NEW t \in job.mine, NEW files, files = job.files,
                      t \notin job.selected \cap Pending(results, crashed)
               PROVE  Stands(t, files)'
  OBVIOUS
<1>2. t \in DOMAIN passed
  BY JobType DEF TypeOK
<1>3. passed' = [u \in DOMAIN passed |->
         IF u \notin job.selected THEN passed[u]
         ELSE IF results[u] = "passes" THEN Passed
         ELSE IF results[u] = "not run" THEN passed[u] ELSE Never]
  BY DEF Outcome
<1>4. CASE t \in job.selected
  <2>1. passed'[t] = Passed
    BY <1>1, <1>2, <1>3, <1>4, SettledPassed
  <2>2. QED BY <1>1, <2>1, StandsAnew
<1>5. CASE t \notin job.selected
  <2>1. passed'[t] = passed[t] /\ Stands(t, files)
    BY <1>1, <1>2, <1>3, <1>5 DEF SkippedInv
  <2>2. QED BY <2>1, StandsKept
<1>6. QED BY <1>4, <1>5

LEMMA SkippedStep == IInv /\ [Next]_vars => SkippedInv'
<1> SUFFICES ASSUME TypeOK, JobInv, SkippedInv, RecordInv, [Next]_vars PROVE SkippedInv'
  BY DEF IInv, KeptInv
<1>1. CASE Select
  <2>1. PICK all \in BOOLEAN :
          job' = [at |-> "selected", files |-> now, mine |-> Mine(now),
                  selected |-> Selected(all),
                  all |-> all, ranAll |-> all \/ RunsAll(record, now), loose |-> Loose(now)]
    BY <1>1 DEF Select
  <2>2. job'.mine = Mine(now) /\ job'.files = now /\ job'.selected = Selected(all)
    BY <2>1
  <2>3. ASSUME NEW t \in Mine(now) \ Selected(all) PROVE Stands(t, now)' /\ UNCHANGED now
    <3>1. ~RunsAll(record, now) /\ t \notin Only(record, now)
      BY <2>3 DEF Selected
    <3>2. t \in Tops(now) /\ t \in Suite
      BY <2>3, MineInSuite DEF Mine
    <3>3. PICK rec, after : rec = record /\ after = now
      OBVIOUS
    <3>4. SkipsAlike(rec, after, t)
      BY <3>1, <3>2, <3>3, SkippedIsAlike DEF RunsAll
    <3>5. t \in Mine(record.files) /\ t \notin record.pending
      <4>1. Tops(record.files) = Tops(now)
        BY <3>1 DEF RunsAll, Unclear, Tops, TestsIn
      <4>2. Mine(record.files) = Mine(now)
        BY <4>1 DEF Mine
      <4>3. QED BY <2>3, <3>1, <3>2, <4>2 DEF Only
    <3>6. Stands(t, record.files)
      BY <3>1, <3>5 DEF RecordInv, RunsAll
    <3>7. Alike(passed[t].files, record.files, t, passed[t].loose) /\ passed[t] # Never
      BY <3>6 DEF Stands
    <3>8. Alike(passed[t].files, now, t, passed[t].loose \cap Loose(now))
      BY <3>3, <3>4, <3>7 DEF SkipsAlike
    <3>9. Alike(passed[t].files, after, t, passed[t].loose)'
      BY <1>1, <3>2, <3>3, <3>7, <3>8, SelectPassed
    <3>10. QED BY <1>1, <3>2, <3>3, <3>7, <3>9, SelectPassed DEF Stands, Select
  <2>4. QED BY <2>2, <2>3 DEF SkippedInv
<1>2. CASE Launch
  <2>1. job.at # "idle"
    BY <1>2 DEF Launch, Goes
  <2>2. /\ job'.mine = job.mine /\ job'.files = job.files /\ job'.selected = job.selected
        /\ UNCHANGED passed
    BY <1>2, <2>1, JobType DEF Launch
  <2>3. QED BY <2>1, <2>2 DEF SkippedInv, Stands
<1>3. CASE job' = NoJob
  BY <1>3 DEF SkippedInv, NoJob
<1>4. CASE UNCHANGED <<job, passed>>
  BY <1>4 DEF SkippedInv, Stands
<1>5. CASE Conclude
  <2>1. job' = NoJob
    BY <1>5, ConcludeCases DEF Outcome, Ends
  <2>2. QED BY <1>3, <2>1
<1>6. QED BY <1>1, <1>2, <1>3, <1>4, <1>5
       DEF Next, NothingReached, Restore, Broken, Kill, Rebuild, Ends, vars

LEMMA RecordStep == IInv /\ [Next]_vars => RecordInv'
<1> SUFFICES ASSUME TypeOK, JobInv, NoForkDies, SkippedInv, RecordInv, [Next]_vars
             PROVE  RecordInv'
  BY DEF IInv, KeptInv
<1>0. \A files : Mine(files)' = Mine(files)
  BY MineKept
<1>a. ASSUME record' = NoRecord \/ (UNCHANGED record
               /\ \A t \in Suite : \A files : Stands(t, files) => Stands(t, files)')
      PROVE  RecordInv'
  <2>1. CASE record' = NoRecord
    BY <2>1 DEF RecordInv
  <2>2. CASE record' # NoRecord
    <3>1. PICK files : files = record.files
      OBVIOUS
    <3>2. Mine(record.files)' = Mine(files) /\ UNCHANGED record
      BY <1>0, <1>a, <2>2, <3>1
    <3>3. \A t \in Mine(files) \ record.pending : Stands(t, files)'
      BY <1>a, <2>2, <3>1, <3>2, MineInSuite DEF RecordInv
    <3>4. QED BY <3>1, <3>2, <3>3 DEF RecordInv, Stands
  <2>3. QED BY <2>1, <2>2
<1>b. ASSUME NEW pending, job.at # "idle", record' = Recorded(job.files, pending),
             \A t \in job.mine \ pending : \A files : files = job.files => Stands(t, files)'
      PROVE  RecordInv'
  <2>1. PICK files : files = job.files
    OBVIOUS
  <2>2. record'.files = files /\ record'.pending = pending
    BY <1>b, <2>1 DEF Recorded
  <2>3. Mine(record.files)' = job.mine
    BY <1>0, <1>b, <2>1, <2>2 DEF JobInv
  <2>4. \A t \in job.mine \ pending : Stands(t, files)'
    BY <1>b, <2>1
  <2>5. QED BY <2>2, <2>3, <2>4 DEF RecordInv, Stands
<1>c. ASSUME UNCHANGED passed
      PROVE  \A t \in Suite : \A files : Stands(t, files) => Stands(t, files)'
  BY <1>c, StandsKept
<1>1. CASE Select
  <2>1. UNCHANGED record
    BY <1>1 DEF Select
  <2>2. \A t \in Suite : \A files : Stands(t, files) => Stands(t, files)'
    BY <1>1, StandsAfterSelect
  <2>3. QED BY <1>a, <2>1, <2>2
<1>2. CASE NothingReached
  <2>1. /\ job.at # "idle" /\ job.selected = {} /\ record' = Recorded(job.files, {})
        /\ UNCHANGED passed
    BY <1>2 DEF NothingReached
  <2>2. \A t \in job.mine \ {} : \A files : files = job.files => Stands(t, files)'
    BY <1>c, <2>1, JobType DEF SkippedInv
  <2>3. QED BY <1>b, <2>1, <2>2
<1>3. CASE Restore
  <2>1. job.at # "idle" /\ record' = Recorded(job.files, {})
    BY <1>3 DEF Restore, Goes
  <2>2. ASSUME NEW t \in job.mine PROVE \A files : files = job.files => Stands(t, files)'
    <3>1. t \in DOMAIN passed
      BY <2>1, JobType DEF TypeOK
    <3>2. passed'[t] = Passed
      BY <1>3, <3>1 DEF Restore
    <3>3. QED BY <2>1, <3>2, StandsAnew
  <2>3. QED BY <1>b, <2>1, <2>2
<1>4. CASE Launch \/ Rebuild \/ UNCHANGED vars
  <2>1. UNCHANGED <<record, passed>>
    BY <1>4 DEF Launch, Rebuild, vars
  <2>2. QED BY <1>a, <1>c, <2>1
<1>5. CASE Conclude
  <2>1. PICK results \in [job.selected -> Results], crashed \in Forks \cup {{}} :
          Outcome(results, crashed)
    BY <1>5, ConcludeCases
  <2>2. job.at # "idle"
    BY <1>5, ConcludeCases
  <2>3. PICK pending : pending = Pending(results, crashed)
    OBVIOUS
  <2>4. record' = Recorded(job.files, pending)
    BY <2>1, <2>3 DEF Outcome, Snapshot
  <2>5. \A t \in job.mine \ pending : \A files : files = job.files => Stands(t, files)'
    BY <2>1, <2>2, <2>3, ConcludeStands
  <2>6. QED BY <1>b, <2>2, <2>4, <2>5
<1>6. CASE Broken
  BY <1>6, <1>a DEF Broken
<1>7. CASE Kill
  <2>1. record' = NoRecord \/ (UNCHANGED record /\ UNCHANGED passed)
    BY <1>7 DEF Kill
  <2>2. QED BY <1>a, <1>c, <2>1
<1>8. QED BY <1>1, <1>2, <1>3, <1>4, <1>5, <1>6, <1>7 DEF Next

LEMMA FullRunStep == IInv /\ [Next]_vars => AsAFullRun'
<1> SUFFICES ASSUME TypeOK, JobInv, NoForkDies, SkippedInv, AsAFullRun, [Next]_vars
             PROVE  AsAFullRun'
  BY DEF IInv, KeptInv
<1>a. ASSUME NEW ran, NEW result, Ends(job.files, ran, result), result = "ok",
             \A t \in job.mine \ ran : \A files : files = job.files => Stands(t, files)'
      PROVE  AsAFullRun'
  <2>1. PICK files : files = job.files
    OBVIOUS
  <2>2. verdict'.files = files /\ verdict'.mine = job.mine /\ verdict'.ran = ran
    BY <1>a, <2>1 DEF Ends
  <2>3. \A t \in job.mine \ ran : Stands(t, files)'
    BY <1>a, <2>1
  <2>4. QED BY <2>2, <2>3 DEF AsAFullRun, Stands
<1>b. ASSUME NEW ran, NEW result, Ends(job.files, ran, result), result # "ok"
      PROVE  AsAFullRun'
  BY <1>b DEF Ends, AsAFullRun
<1>1. CASE NothingReached
  <2>1. /\ job.at # "idle" /\ job.selected = {} /\ Ends(job.files, {}, "ok")
        /\ UNCHANGED passed
    BY <1>1 DEF NothingReached
  <2>2. \A t \in job.mine \ {} : \A files : files = job.files => Stands(t, files)'
    BY <2>1, JobType, StandsKept DEF SkippedInv
  <2>3. QED BY <1>a, <2>1, <2>2
<1>2. CASE Restore
  <2>1. job.at # "idle" /\ Ends(job.files, {}, "ok")
    BY <1>2 DEF Restore, Goes
  <2>2. ASSUME NEW t \in job.mine PROVE \A files : files = job.files => Stands(t, files)'
    <3>1. t \in DOMAIN passed
      BY <2>1, JobType DEF TypeOK
    <3>2. passed'[t] = Passed
      BY <1>2, <3>1 DEF Restore
    <3>3. QED BY <2>1, <3>2, StandsAnew
  <2>3. QED BY <1>a, <2>1, <2>2
<1>3. CASE Conclude
  <2>1. PICK results \in [job.selected -> Results], crashed \in Forks \cup {{}} :
          Outcome(results, crashed)
    BY <1>3, ConcludeCases
  <2>2. job.at # "idle"
    BY <1>3, ConcludeCases
  <2>3. PICK ran : ran = job.selected \ Were(results, "not run")
    OBVIOUS
  <2>4. CASE Passes(results, crashed)
    <3>1. Ends(job.files, ran, "ok")
      BY <2>1, <2>3, <2>4 DEF Outcome
    <3>2. ran = job.selected
      BY <2>1, <2>3, <2>4, SettledPassed
    <3>3. \A t \in job.mine \ ran : \A files : files = job.files => Stands(t, files)'
      BY <2>1, <2>2, <3>2, ConcludeStands
    <3>4. QED BY <1>a, <3>1, <3>3
  <2>5. CASE ~Passes(results, crashed)
    <3>1. Ends(job.files, ran, "failed")
      BY <2>1, <2>3, <2>5 DEF Outcome
    <3>2. QED BY <1>b, <3>1
  <2>6. QED BY <2>4, <2>5
<1>4. CASE Broken
  <2>1. Ends(job.files, {}, "failed")
    BY <1>4 DEF Broken
  <2>2. QED BY <1>b, <2>1
<1>5. CASE Select \/ Kill \/ Rebuild
  BY <1>5 DEF Select, Kill, Rebuild, AsAFullRun
<1>6. CASE Launch \/ UNCHANGED vars
  BY <1>6 DEF Launch, vars, AsAFullRun, Stands
<1>7. QED BY <1>1, <1>2, <1>3, <1>4, <1>5, <1>6 DEF Next

LEMMA ForkStep == KeptInv /\ NoForkDies /\ [Next]_vars => NoForkDies'
<1> SUFFICES ASSUME TypeOK, NoForkDies, KeptInv, [Next]_vars PROVE NoForkDies'
  BY DEF KeptInv
<1>1. trial.crashes \in Nat /\ trial'.crashes \in Nat
  BY TypeStep DEF TypeOK, Histories
<1>2. QED BY <1>1, TrialStep DEF NoForkDies

\* SPEC 10.2, that skipping tests never gives a wrong result: whatever the
\* classes refer to, however they are built, killed, sharded, restored, flaky or
\* stopped early, when jrs test ends well each test class it left out passed at
\* its last run on files that are the same to it.  One fork that goes down while
\* others go on is left out: that is the finding of the run tests_fork_down.
THEOREM SpecAsAFullRun == Spec /\ NoForkDies => []AsAFullRun
<1>1. Init /\ NoForkDies => IInv
  BY TypeInit DEF Init, IInv, KeptInv, JobInv, SkippedInv, RecordInv, AsAFullRun, NoJob
<1>2. IInv /\ [Next]_vars => IInv'
  BY KeptStep, ForkStep, SkippedStep, RecordStep, FullRunStep DEF IInv, KeptInv
<1>3. IInv => AsAFullRun
  BY DEF IInv
<1>4. QED BY <1>1, <1>2, <1>3, PTL DEF Spec
=============================================================================
