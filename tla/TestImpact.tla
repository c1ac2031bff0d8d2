----------------------------- MODULE TestImpact ------------------------------
(***************************************************************************)
(* Which test classes a change reaches (compile/impact.rs).  The class     *)
(* directories are a function from files to what they hold: a class file   *)
(* says which classes it refers to, whether it refers to something that    *)
(* finds classes by itself (DYNAMIC), and whether it is Groovy's.  The     *)
(* settings of the test JVM, a digest in the code, are a file here.  Hashes *)
(* are the contents.                                                       *)
(***************************************************************************)
EXTENDS Naturals, FiniteSets

CONSTANTS Classes,    \* the class files there may be
          Others,     \* the resources, and the settings
          Scan,       \* those of Classes in the directory of the tests to run
          Top         \* Top[c]: the top-level class of a class in Scan

ASSUME ImpactAssumption == IsFiniteSet(Classes) /\ Scan \subseteq Classes /\ DOMAIN Top = Scan

Absent == <<>>     \* no such file
NoRecord == <<>>

ClassesIn(files) == {c \in Classes : files[c] # Absent}
TestsIn(files) == Scan \cap ClassesIn(files)
Tops(files) == {Top[c] : c \in TestsIn(files)}

Refers(files, c) == files[c].refs \cap ClassesIn(files)
Users(files, c) == {d \in ClassesIn(files) : c \in files[d].refs}

\* walk: every class reachable from start along next, start included.
Walk(next, start) ==
  LET within[k \in Nat] ==
        IF k = 0 THEN {start} ELSE within[k - 1] \cup UNION {next[c] : c \in within[k - 1]}
  IN  within[Cardinality(Classes)]

ReachOf(files, c) == Walk([d \in ClassesIn(files) |-> Refers(files, d)], c)
UsersOf(files, c) == Walk([d \in ClassesIn(files) |-> Users(files, d)], c)

FindingClasses(files) ==
  {Top[t] : t \in {u \in TestsIn(files) : \E c \in ReachOf(files, u) : files[c].finds}}

Changed(before, now) == {c \in ClassesIn(now) : before[c] # now[c]}

\* What a change of a class file does not explain: every test class runs.
Unclear(before, now) ==
  \/ \E f \in Others : before[f] # now[f]
  \/ ClassesIn(before) # ClassesIn(now)
  \/ \E c \in ClassesIn(now) : now[c].groovy
  \/ \E c \in Changed(before, now) : UsersOf(now, c) \cap Scan = {}

Reached(before, now) ==
  {Top[t] : t \in Scan \cap UNION {UsersOf(now, c) : c \in Changed(before, now)}}

\* select, compare: what is not the whole of the tests.
Only(record, now) ==
  Reached(record.files, now)
    \cup (IF Changed(record.files, now) = {} THEN {} ELSE FindingClasses(now))
    \cup (record.pending \cap Tops(now))

RunsAll(record, now) == record = NoRecord \/ Unclear(record.files, now)

-----------------------------------------------------------------------------
(* What the outcome of a test class may depend on: what it reaches, and    *)
(* all there is when that finds classes by itself; and what no test class  *)
(* reaches, which can only be loaded by name.                              *)

Loose(files) == ClassesIn(files) \ UNION {ReachOf(files, t) : t \in TestsIn(files)}

Sees(files, top) ==
  LET reach == UNION {ReachOf(files, t) : t \in {u \in TestsIn(files) : Top[u] = top}}
  IN  Others \cup (IF \E c \in reach : files[c].finds \/ files[c].groovy THEN Classes ELSE reach)

\* What passed on one passes on the other.
Alike(before, now, top, loose) == \A f \in Sees(now, top) \cup loose : before[f] = now[f]
=============================================================================
