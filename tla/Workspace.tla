------------------------------ MODULE Workspace ------------------------------
(***************************************************************************)
(* A workspace's one resolution and what each member gets of it            *)
(* (workspace.rs): the members in build order, their dependencies as one   *)
(* manifest (aggregate), the walk over it (Resolver), and each member's    *)
(* share of the graph (project).  A project of its own is resolved by the  *)
(* same walk, without everyPath, and has the whole graph.                  *)
(***************************************************************************)
EXTENDS BuildOrder, Resolver, FiniteSetsExt, SequencesExt

CONSTANT Workspaces   \* the workspaces and projects to consider

\* A member declares packages in order, those of its tests last, and its
\* modules each on a classpath.  `alone`: a project that is no workspace.
WorkspaceOK(w) ==
  /\ w.modules \in ModuleEdges /\ w.repo \in Poms
  /\ w.on \in [Members -> Seq(Classpath)]
  /\ \A m \in Members : Len(w.on[m]) = Len(w.modules[m])
  /\ w.declared \in [Members -> Seq(Root)]
  /\ DOMAIN w.pins \subseteq Artifacts /\ w.boms \in Seq(Coords)
  /\ w.alone \in BOOLEAN

ASSUME WorkspacesAssumption == \A w \in Workspaces : WorkspaceOK(w)

VARIABLE workspace   \* chosen in Init
workspaceVars == <<workspace, orderVars, resolveVars>>

-----------------------------------------------------------------------------
\* Each keeps what it excludes.
MergedBoth(into, other) ==
  [into EXCEPT !.excludes = @ \cup other.excludes,
               !.classpath = IF @ = other.classpath THEN @ ELSE "compile"]

\* A second member's declaration of an artifact folded into the first's: an
\* exclusion, or being compile-only or runtime-only, holds if both say so.
Merged(into, other) ==
  [into EXCEPT !.excludes = @ \cap other.excludes,
               !.classpath = IF @ = other.classpath THEN @ ELSE "compile"]

\* One more declaration in the aggregate: `main` and `dev` are the two
\* sections so far, each in order.  A main declaration takes the artifact
\* out of the dev section, at the version it was first declared at.
Declare(sections, d) ==
  LET In(section) == {i \in DOMAIN section : section[i].ga = d.ga}
      Fold(section) == [i \in DOMAIN section |->
                          IF i \in In(section) THEN Merged(section[i], d) ELSE section[i]]
      position == CHOOSE i \in In(sections.dev) : \A j \in In(sections.dev) : i <= j
  IN  IF In(sections.main) # {} THEN [sections EXCEPT !.main = Fold(@)]
      ELSE IF d.classpath = "test"
      THEN [sections EXCEPT !.dev = IF In(@) # {} THEN Fold(@) ELSE Append(@, d)]
      ELSE IF In(sections.dev) = {} THEN [sections EXCEPT !.main = Append(@, d)]
      ELSE [main |-> Append(sections.main,
                            Merged([sections.dev[position] EXCEPT !.classpath = d.classpath], d)),
            dev |-> RemoveAt(sections.dev, position)]

\* Every member's declarations as one manifest, members in declaration order.
Aggregate(w) ==
  LET all == FlattenSeq([m \in 1..Cardinality(Members) |-> w.declared[m]])
      sections[n \in 0..Len(all)] ==
        IF n = 0 THEN [main |-> <<>>, dev |-> <<>>] ELSE Declare(sections[n - 1], all[n])
  IN  [roots |-> sections[Len(all)].main \o sections[Len(all)].dev, pins |-> w.pins, boms |-> w.boms,
       everyPath |-> TRUE]

\* What is resolved: the aggregate, or a project's own manifest.
Resolved(w) ==
  IF w.alone THEN [Aggregate(w) EXCEPT !.roots = w.declared[1], !.everyPath = FALSE]
             ELSE Aggregate(w)

-----------------------------------------------------------------------------
\* The modules of m, each with the classpath m declares it on.
ModulesOf(m) == [i \in DOMAIN modules[m] |-> <<modules[m][i], workspace.on[m][i]>>]

\* What a member reached on `via` passes on of its modules.
Passed(u, via) ==
  FlattenSeq([i \in DOMAIN modules[u] |->
                LET on == Carried(via, workspace.on[u][i])
                IN  IF on = "none" THEN <<>> ELSE <<<<modules[u][i], on>>>>])

\* Every member m depends on, with the classpath its classes go on there: a
\* queue, nearest first; one reached again goes on only if it is widened,
\* and then as this path reaches it.
UpstreamOf(m) ==
  LET Reach[s \in [queue : Seq(Members \X Classpath),
                   reached : UNION {[S -> Classpath] : S \in SUBSET Members}]] ==
        IF s.queue = <<>> THEN s.reached
        ELSE LET u == Head(s.queue)[1]
                 c == Head(s.queue)[2]
                 known == u \in DOMAIN s.reached
                 joined == IF known THEN Join(s.reached[u], c) ELSE c
             IN  IF u = m \/ (known /\ joined = s.reached[u])
                 THEN Reach[[s EXCEPT !.queue = Tail(@)]]
                 ELSE Reach[[queue |-> Tail(s.queue) \o Passed(u, c),
                             reached |-> [x \in DOMAIN s.reached \cup {u} |->
                                            IF x = u THEN joined ELSE s.reached[x]]]]
  IN  Reach[[queue |-> ModulesOf(m), reached |-> [x \in {} |-> "none"]]]

\* Where a member's walk of the graph starts: its own declarations, and
\* those of its upstream members that reach it.
ShareRoots(m) ==
  LET up == UpstreamOf(m)
      Own(u) == ToSet(workspace.declared[u])
  IN  {[ga |-> r.ga, excludes |-> r.excludes, classpath |-> r.classpath] : r \in Own(m)}
      \cup UNION {{[ga |-> r.ga, excludes |-> r.excludes,
                    classpath |-> Carried(up[u], r.classpath)] :
                      r \in {r \in Own(u) : Carried(up[u], r.classpath) # "none"}} :
                  u \in DOMAIN up}

\* The packages a root reaches along the resolved graph's edges, past
\* nothing the root excludes.
ReachedFrom(r) ==
  LET Closure[S \in SUBSET Artifacts] ==
        LET T == S \cup {e[2] : e \in {e \in edges : e[1] \in S
                                                     /\ ~Excluded(e[2], r.excludes)}}
        IN  IF T = S THEN S ELSE Closure[T]
  IN  Closure[{r.ga} \cap DOMAIN selected]

\* A member's share: each package on every classpath a root puts it on.
Share(m) ==
  LET roots == ShareRoots(m)
  IN  [a \in UNION {ReachedFrom(r) : r \in roots} |->
         FoldSet(Join, "test", {r.classpath : r \in {r \in roots : a \in ReachedFrom(r)}})]

-----------------------------------------------------------------------------
Init == /\ workspace \in Workspaces
        /\ modules = workspace.modules /\ pom = Effective(workspace.repo)
        /\ OrderInit /\ ResolveInit
        /\ manifest = Resolved(workspace)

\* A workspace that cannot be ordered is refused as it is loaded.
Order == OrderNext /\ UNCHANGED <<workspace, resolveVars>>
Resolve == walk = "ordered" /\ ResolveNext /\ UNCHANGED <<workspace, orderVars>>
Over == /\ walk = "cycle" \/ at \in {"resolved", "failed"}
        /\ UNCHANGED workspaceVars
Next == Order \/ Resolve \/ Over

Spec == Init /\ [][Next]_workspaceVars /\ WF_workspaceVars(Order \/ Resolve)

-----------------------------------------------------------------------------
\* What the walk must come to, said without walking.

\* The requests of a package's POM once its version is settled.
Deps(a) == IF a \in DOMAIN selected /\ <<a, selected[a].version>> \in DOMAIN pom
           THEN pom[<<a, selected[a].version>>].dependencies ELSE <<>>
Path(from, to) ==
  LET Closure[S \in SUBSET Artifacts] ==
        LET T == S \cup {e[2] : e \in {e \in edges : e[1] \in S}}
        IN  IF T = S THEN S ELSE Closure[T]
  IN  to \in Closure[{from}]

\* A package is on the classpath the main sources compile against, or the
\* one the program runs with, exactly if a declaration that is there reaches
\* it: nothing is missing at runtime for having been walked as a test's, and
\* nothing gets there that only tests reach, whatever the order of the loop
\* that widens.
LandsWhereRootsPutIt ==
  at = "resolved" =>
    \A a \in DOMAIN selected :
      LET by == {r \in ToSet(manifest.roots) : Path(r.ga, a)}
      IN  /\ Compiles(selected[a].classpath) = \E r \in by : Compiles(r.classpath)
          /\ Runs(selected[a].classpath) = \E r \in by : Runs(r.classpath)

\* The paths of the graph: which declaration of the manifest, then which of
\* each POM's in turn; the package at the end, and the version it is asked for.
RootPaths == {LET r == manifest.roots[i]
              IN  [steps |-> <<i>>, end |-> r.ga, asks |-> RootVersion(r)] :
                i \in DOMAIN manifest.roots}
Longer(p) ==
  {[steps |-> Append(p.steps, i), end |-> Deps(p.end)[i].ga,
    asks |-> AskedVersion(Deps(p.end)[i])] :
      i \in {i \in DOMAIN Deps(p.end) : Admissible(Deps(p.end)[i], walked[p.end])}}
Paths == LET Upto[n \in 1..Cardinality(Artifacts)] ==
               IF n = 1 THEN RootPaths
               ELSE Upto[n - 1] \cup UNION {Longer(p) : p \in Upto[n - 1]}
         IN  Upto[Cardinality(DOMAIN selected)]

\* Nearer, or as near and declared earlier.
Before(p, q) ==
  \/ Len(p) < Len(q)
  \/ Len(p) = Len(q) /\ \E k \in DOMAIN p : p[k] < q[k] /\ \A j \in 1..(k - 1) : p[j] = q[j]

\* Nearest wins, and the earlier declaration among the nearest: the version
\* of every package is the one its first path asks for.
NearestWins ==
  at = "resolved" /\ ~manifest.everyPath =>
    \A a \in DOMAIN selected :
      \E p \in Paths : /\ p.end = a
                       /\ selected[a].version = p.asks /\ selected[a].depth = Len(p.steps)
                       /\ \A q \in Paths : q.end = a => ~Before(q.steps, p.steps)

\* What a declaration reaches by itself, past what each step of the path
\* excludes, at the versions that were settled.
Kept(r) ==
  LET From(p) == {<<d.ga, p[2] \cup d.excludes \cup ManagedExcludes(d.ga)>> :
                    d \in {d \in ToSet(Deps(p[1])) : Admissible(d, p[2])}}
      Closure[S \in SUBSET (Artifacts \X SUBSET Patterns)] ==
        LET T == S \cup UNION {From(p) : p \in S}
        IN  IF T = S THEN S ELSE Closure[T]
  IN  {p[1] : p \in Closure[{<<r.ga, r.excludes \cup ManagedExcludes(r.ga)>>}]}

\* Every member has on its classpath what its own and its upstream members'
\* declarations reach past their own exclusions: another member's exclusion
\* never takes a jar off it.
ShareKeepsAll ==
  at = "resolved" /\ ~workspace.alone =>
    \A m \in Members :
      \A r \in ShareRoots(m) : \A a \in Kept(r) :
        a \in DOMAIN Share(m) /\ Join(Share(m)[a], r.classpath) = Share(m)[a]

\* A workspace is refused for a cycle among its members, a graph only for
\* what it asks for - a range, a version nothing gives, a POM nobody has - and
\* every other one is resolved: a cycle of POMs ends by itself, walking again
\* with fewer exclusions does not go on for ever, and nor does widening.
ForCause ==
  \/ ~(ToSet(manifest.boms) \subseteq DOMAIN pom)
  \/ \E i \in DOMAIN manifest.roots : Refused(manifest.roots[i])
  \/ \E a \in DOMAIN selected :
       \/ <<a, selected[a].version>> \notin DOMAIN pom
       \/ \E d \in ToSet(Deps(a)) : ~d.skipped /\ AskedVersion(d) = VersionRange
Loads == <>(walk = "cycle" \/ at = "resolved" \/ (at = "failed" /\ ForCause))
=============================================================================
