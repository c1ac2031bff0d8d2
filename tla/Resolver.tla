------------------------------ MODULE Resolver ------------------------------
(***************************************************************************)
(* The walk over the POMs that settles a project's packages:               *)
(* resolve_walking (resolve/mod.rs).  Requests are mediated a level of the *)
(* graph at a time, nearest wins; the POMs of the packages a level admits  *)
(* are read and make the requests of the next.  With everyPath, for a      *)
(* workspace, a package reached again with fewer exclusions is walked      *)
(* again.  At the end classpaths widen along the edges, in any order: the  *)
(* code goes over a hash map.                                              *)
(*                                                                         *)
(* An artifact is a group, name and classifier.                            *)
(***************************************************************************)
EXTENDS EffectivePom, FiniteSets, Classpaths

CONSTANTS Poms,       \* the repositories to consider: see RepositoryOK
          MaxDepth    \* how deep a graph may be (64)

\* What a manifest asks for.
Root == [ga : Artifacts, version : Versions \cup {NoVersion, VersionRange},
         classpath : Classpath, excludes : SUBSET Patterns]
Manifest == [roots : Seq(Root), pins : UNION {[S -> Versions] : S \in SUBSET Artifacts},
             boms : Seq(Coords), everyPath : BOOLEAN]

ASSUME ResolverAssumption ==
  /\ MaxDepth \in Nat \ {0}
  /\ \A r \in Poms : RepositoryOK(r)

VARIABLES
  manifest,  \* what is resolved
  pom,       \* what the POMs of a repository come to (chosen in Init)
  at,        \* "seed", "mediate", "fetch", "widen", "resolved", "failed"
  depth,     \* the level of the graph the walk is at
  level,     \* the requests of this level not mediated yet
  admitted,  \* the packages of this level whose POM is to be read
  rewalk,    \* those to be read again, after them
  upcoming,  \* the requests of the next level
  selected,  \* the packages settled so far
  walked,    \* walked[a]: the exclusions a's children were walked with
  edges      \* <<parent, child>> for every request mediated

resolveVars == <<manifest, pom, at, depth, level, admitted, rewalk, upcoming,
                 selected, walked, edges>>

-----------------------------------------------------------------------------
\* [managed]: its own entries first, then each BOM in order; the first to
\* name an artifact decides its version and brings its exclusions.
Naming(bom, a) == a \in DOMAIN pom[bom].managed /\ pom[bom].managed[a].version \in Versions
IsManaged(a) == a \in DOMAIN manifest.pins
                \/ \E i \in DOMAIN manifest.boms : Naming(manifest.boms[i], a)
FirstBom(a) == LET naming == {i \in DOMAIN manifest.boms : Naming(manifest.boms[i], a)}
               IN  pom[manifest.boms[CHOOSE i \in naming : \A j \in naming : i <= j]].managed[a]
ManagedVersion(a) == IF a \in DOMAIN manifest.pins THEN manifest.pins[a]
                                                   ELSE FirstBom(a).version
ManagedExcludes(a) == IF IsManaged(a) /\ a \notin DOMAIN manifest.pins
                      THEN FirstBom(a).excludes ELSE {}

Excluded(a, patterns) == a \in patterns \/ Star \in patterns

\* A child that is walked at all, and the version it is asked for at.
Admissible(d, exclusions) ==
  /\ ~d.skipped /\ ~Excluded(d.ga, exclusions)
  /\ IsManaged(d.ga) \/ d.version # NoVersion
AskedVersion(d) == IF IsManaged(d.ga) THEN ManagedVersion(d.ga) ELSE d.version

\* The requests a package's POM makes, in the order it declares them.
Request(parent, d) ==
  [ga |-> d.ga, version |-> AskedVersion(d), classpath |-> parent.classpath,
   depth |-> depth + 1, parent |-> {parent.ga},
   excludes |-> parent.excludes \cup d.excludes \cup ManagedExcludes(d.ga)]
Children(parent) ==
  LET deps == pom[<<parent.ga, parent.version>>].dependencies
      first[n \in 0..Len(deps)] ==
        IF n = 0 THEN <<>>
        ELSE IF Admissible(deps[n], parent.excludes)
        THEN Append(first[n - 1], Request(parent, deps[n])) ELSE first[n - 1]
  IN  first[Len(deps)]

\* The manifest's own, the first level of the walk.
RootVersion(r) == IF r.version = NoVersion THEN ManagedVersion(r.ga) ELSE r.version
Seed == [i \in DOMAIN manifest.roots |->
           LET r == manifest.roots[i]
           IN  [ga |-> r.ga, version |-> RootVersion(r), classpath |-> r.classpath,
                depth |-> 1, parent |-> {},
                excludes |-> r.excludes \cup ManagedExcludes(r.ga)]]

\* What the manifest may not ask for.
Refused(r) == r.version = VersionRange \/ (r.version = NoVersion /\ ~IsManaged(r.ga))

ResolveInit ==
  /\ at = "seed"
  /\ depth = 1
  /\ level = <<>> /\ admitted = <<>> /\ rewalk = <<>> /\ upcoming = <<>>
  /\ selected = [a \in {} |-> 0]
  /\ walked = [a \in {} |-> {}]
  /\ edges = {}

-----------------------------------------------------------------------------
Fail == at' = "failed"
          /\ UNCHANGED <<depth, level, admitted, rewalk, upcoming, selected, walked, edges>>

\* The manifest is read: a version range, a BOM that cannot be read, or no
\* version and none managed, is refused before the walk.
Start ==
  /\ at = "seed"
  /\ IF \/ ~(ToSet(manifest.boms) \subseteq DOMAIN pom)
        \/ \E i \in DOMAIN manifest.roots : Refused(manifest.roots[i])
     THEN Fail
     ELSE /\ at' = "mediate" /\ level' = Seed
          /\ UNCHANGED <<depth, admitted, rewalk, upcoming, selected, walked, edges>>
  /\ UNCHANGED <<manifest, pom>>

AddEdge(item) == edges' = edges \cup {<<p, item.ga>> : p \in item.parent}

\* An artifact asked for the first time is settled at this request's version.
Admit(item) ==
  LET package == [version |-> item.version, depth |-> item.depth,
                  classpath |-> item.classpath, direct |-> item.depth = 1,
                  mediated |-> FALSE]
  IN  /\ selected' = [a \in DOMAIN selected \cup {item.ga} |->
                        IF a = item.ga THEN package ELSE selected[a]]
      /\ walked' = [a \in DOMAIN walked \cup {item.ga} |->
                      IF a = item.ga THEN item.excludes ELSE walked[a]]
      /\ admitted' = Append(admitted, item)
      /\ UNCHANGED rewalk

\* The highest version wins.
MetHighest(before, item) ==
  [before EXCEPT !.version = IF item.version > @ THEN item.version ELSE @,
                 !.classpath = Join(@, item.classpath)]

\* One settled before keeps its version, and lands where this path puts it
\* too.  What only the path that reached it first excludes is walked now.
Met(before, item) ==
  [before EXCEPT !.mediated = @ \/ before.version # item.version,
                 !.classpath = Join(@, item.classpath),
                 !.direct = @ \/ item.depth = 1]
KeptOut(item) == walked[item.ga] \cap item.excludes
WalksAgain(item) == manifest.everyPath /\ KeptOut(item) # walked[item.ga]

Meet(item) ==
  LET met == Met(selected[item.ga], item)
  IN  /\ selected' = [selected EXCEPT ![item.ga] = met]
      /\ IF WalksAgain(item)
         THEN /\ walked' = [walked EXCEPT ![item.ga] = KeptOut(item)]
              /\ rewalk' = Append(rewalk, [ga |-> item.ga, version |-> met.version,
                                          classpath |-> met.classpath, depth |-> met.depth,
                                          parent |-> {}, excludes |-> KeptOut(item)])
         ELSE UNCHANGED <<walked, rewalk>>
      /\ UNCHANGED admitted

Mediate ==
  /\ at = "mediate" /\ level # <<>>
  /\ LET item == Head(level)
     IN  /\ IF item.ga \in DOMAIN selected THEN Meet(item) ELSE Admit(item)
         /\ AddEdge(item)
  /\ level' = Tail(level)
  /\ UNCHANGED <<manifest, pom, at, depth, upcoming>>

\* The POMs of the level are read together, and looked at in order: one that
\* is nowhere, or that asks for a range nothing settles, ends the walk.
ReadPoms ==
  /\ at = "mediate" /\ level = <<>>
  /\ at' = "fetch"
  /\ admitted' = admitted \o rewalk /\ rewalk' = <<>>
  /\ UNCHANGED <<manifest, pom, depth, level, upcoming, selected, walked, edges>>

AsksForRange(parent) ==
  \E i \in DOMAIN pom[<<parent.ga, parent.version>>].dependencies :
     LET d == pom[<<parent.ga, parent.version>>].dependencies[i]
     IN  Admissible(d, parent.excludes) /\ AskedVersion(d) = VersionRange

Walk ==
  /\ at = "fetch" /\ admitted # <<>>
  /\ LET parent == Head(admitted)
     IN  IF <<parent.ga, parent.version>> \notin DOMAIN pom \/ AsksForRange(parent)
         THEN Fail
         ELSE /\ upcoming' = upcoming \o Children(parent)
              /\ admitted' = Tail(admitted)
              /\ UNCHANGED <<at, depth, level, rewalk, selected, walked, edges>>
  /\ UNCHANGED <<manifest, pom>>

NextLevel ==
  /\ at = "fetch" /\ admitted = <<>>
  /\ level' = upcoming /\ upcoming' = <<>>
  /\ depth' = depth + 1
  /\ at' = IF depth + 1 > MaxDepth THEN "failed"
           ELSE IF upcoming = <<>> THEN "widen" ELSE "mediate"
  /\ UNCHANGED <<manifest, pom, admitted, rewalk, selected, walked, edges>>

\* A package hands a wider classpath down to one it depends on.
WidenedToParent(e) == selected[e[1]].classpath  \* the parent's, not both
Widened(e) == Join(selected[e[2]].classpath, selected[e[1]].classpath)
Widen(e) ==
  /\ at = "widen" /\ Widened(e) # selected[e[2]].classpath
  /\ selected' = [selected EXCEPT ![e[2]].classpath = Widened(e)]
  /\ UNCHANGED <<manifest, pom, at, depth, level, admitted, rewalk, upcoming, walked, edges>>

Settle ==
  /\ at = "widen" /\ \A e \in edges : Widened(e) = selected[e[2]].classpath
  /\ at' = "resolved"
  /\ UNCHANGED <<manifest, pom, depth, level, admitted, rewalk, upcoming, selected,
                 walked, edges>>

ResolveNext == \/ Start \/ Mediate \/ ReadPoms \/ Walk \/ NextLevel
               \/ \E e \in edges : Widen(e)
               \/ Settle

ResolveSpec == /\ ResolveInit /\ manifest \in Manifest /\ \E r \in Poms : pom = Effective(r)
               /\ [][ResolveNext]_resolveVars /\ WF_resolveVars(ResolveNext)
=============================================================================
