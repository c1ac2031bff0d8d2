---------------------------- MODULE EffectivePom ----------------------------
(***************************************************************************)
(* From the POMs as they are published to what they come to (resolve/      *)
(* pom.rs, build_effective): a POM's line of parents, the properties and   *)
(* managed versions it inherits, the BOMs it imports, and its dependencies *)
(* with all that filled in.  A repository is a function from coordinates   *)
(* to POMs.                                                                *)
(*                                                                         *)
(* Only versions hold placeholders here, one each; the code replaces them  *)
(* in names and scopes as well.                                            *)
(***************************************************************************)
EXTENDS Naturals, Sequences, SequencesExt

CONSTANTS Artifacts,  \* what dependencies may name
          Versions,   \* the exact versions, numbers
          NoVersion, VersionRange,  \* a version left out, and one that is a range
          Placeholders,  \* the properties a version may stand for
          OwnVersion,    \* the one among them that is ${project.version}
          Star,       \* the pattern of an exclusion of everything
          MaxParents, MaxImports, MaxChained  \* how far each is followed (32, 8, 8)

Patterns == Artifacts \cup {Star}
Coords == Artifacts \X Versions
Scopes == {"none", "compile", "test", "import"}
Written == Versions \cup {NoVersion, VersionRange} \cup Placeholders
Entry == [ga : Artifacts, version : Written, scope : Scopes, excludes : SUBSET Patterns]

Requirement == [ga : Artifacts, version : Written, scope : Scopes, excludes : SUBSET Patterns,
                optional : BOOLEAN]

\* A POM: its parent, if any, its properties, what it manages, what it
\* depends on, and where its Gradle module says that its JVM classes are.
PomOK(p) ==
  /\ Len(p.parent) <= 1 /\ p.parent \in Seq(Coords)
  /\ DOMAIN p.properties \subseteq Placeholders
  /\ \A n \in DOMAIN p.properties : p.properties[n] \in Written
  /\ p.managed \in Seq(Entry) /\ p.dependencies \in Seq(Requirement)
  /\ Len(p.jvm) <= 1 /\ p.jvm \in Seq(Coords)
RepositoryOK(r) ==
  /\ DOMAIN r \subseteq Coords
  /\ \A c \in DOMAIN r : PomOK(r[c]) /\ (r[c].jvm = <<>> \/ r[c].jvm[1][1] # c[1])

ASSUME EffectivePomAssumption ==
  /\ IsFiniteSet(Artifacts)
  /\ Star \notin Artifacts
  /\ Versions \subseteq Nat /\ OwnVersion \in Placeholders
  /\ {NoVersion, VersionRange} \cap (Versions \cup Placeholders) = {} /\ NoVersion # VersionRange
  /\ Versions \cap Placeholders = {}
  /\ MaxParents \in Nat \ {0} /\ MaxImports \in Nat /\ MaxChained \in Nat

-----------------------------------------------------------------------------
\* The coordinates of a POM and its ancestors, nearest first.  A circle of
\* parents is cut where it closes.
Line(repo, c) ==
  LET Up[line \in Seq(Coords)] ==
        LET last == line[Len(line)]
            parent == IF last \in DOMAIN repo THEN repo[last].parent ELSE <<>>
        IN  IF \/ parent = <<>> \/ Len(line) = MaxParents
               \/ parent[1] \in ToSet(line)
            THEN line ELSE Up[line \o parent]
  IN  Up[<<c>>]

Readable(repo, c) == ToSet(Line(repo, c)) \subseteq DOMAIN repo

\* A property is the nearest POM's that defines it, but for the POM's own
\* version, which none overrides.
Properties(repo, c) ==
  LET line == Line(repo, c)
      Defining(n) == {i \in DOMAIN line : n \in DOMAIN repo[line[i]].properties}
      Nearest(n) == CHOOSE i \in Defining(n) : \A j \in Defining(n) : i <= j
  IN  [n \in {OwnVersion} \cup {n \in Placeholders : Defining(n) # {}} |->
         IF n = OwnVersion THEN c[2] ELSE repo[line[Nearest(n)]].properties[n]]

\* A placeholder may stand for another; one that nothing defines stays.
Interpolated(v, properties) ==
  FoldLeft(LAMBDA w, i : IF w \in DOMAIN properties THEN properties[w] ELSE w,
           v, [i \in 1..MaxChained |-> i])

\* What the line manages, the furthest ancestor's first.
Management(repo, c) ==
  LET properties == Properties(repo, c)
      furthestFirst == Reverse(Line(repo, c))
      entries == FlattenSeq([i \in DOMAIN furthestFirst |-> repo[furthestFirst[i]].managed])
  IN  [i \in DOMAIN entries |-> [entries[i] EXCEPT !.version = Interpolated(@, properties)]]

\* Directly, the last to say so decides.
Directly(entries) ==
  LET Saying(a) == {i \in DOMAIN entries : entries[i].ga = a /\ entries[i].scope # "import"}
      Decides(a) == CHOOSE i \in Saying(a) : \A j \in Saying(a) : j <= i
  IN  [a \in {a \in Artifacts : Saying(a) # {}} |-> entries[Decides(a)]]

\* An entry that imports a BOM.  One without a version is none.
Imports(entry) == entry.scope = "import" /\ entry.version # NoVersion

\* What an imported BOM adds: nothing is overridden.
Absorbed(managed, bom) ==
  [a \in DOMAIN managed \cup DOMAIN bom |-> IF a \in DOMAIN managed THEN managed[a] ELSE bom[a]]

\* What a POM manages, its BOMs', those a BOM imports and so on.  A BOM that
\* cannot be read is left out.
Managed(repo, c) ==
  LET readable == {b \in DOMAIN repo : Readable(repo, b)}
      Reading[d \in 0..MaxImports] ==
        [of \in readable |->
           LET entries == Management(repo, of)
               Bom(i) == <<entries[i].ga, entries[i].version>>
               with[i \in 0..Len(entries)] ==
                 IF i = 0 THEN Directly(entries)
                 ELSE IF d < MaxImports /\ Imports(entries[i]) /\ Bom(i) \in readable
                 THEN Absorbed(with[i - 1], Reading[d + 1][Bom(i)]) ELSE with[i - 1]
           IN  with[Len(entries)]]
  IN  Reading[0][c]

\* A dependency with what it leaves out filled in, and whether the walk
\* skips it for its scope or for being optional.
Filled(d, managed) ==
  LET by == IF d.ga \in DOMAIN managed THEN managed[d.ga]
            ELSE [version |-> NoVersion, scope |-> "none", excludes |-> {}]
      version == IF d.version = NoVersion THEN by.version ELSE d.version
      scope == IF d.scope = "none" THEN by.scope ELSE d.scope
  IN  [ga |-> d.ga, version |-> IF version \in Placeholders THEN NoVersion ELSE version,
       excludes |-> d.excludes \cup by.excludes,
       skipped |-> d.optional \/ scope \notin {"none", "compile"}]

\* A Multiplatform root depends on its JVM artifact, and on nothing else.
\* A POM's own dependencies are all it has: those of its parents are theirs.
Dependencies(repo, c) ==
  LET own == IF repo[c].jvm = <<>> THEN repo[c].dependencies
             ELSE <<[ga |-> repo[c].jvm[1][1], version |-> repo[c].jvm[1][2],
                     scope |-> "none", optional |-> FALSE, excludes |-> {}]>>
      properties == Properties(repo, c)
      managed == Managed(repo, c)
  IN  [i \in DOMAIN own |->
         Filled([own[i] EXCEPT !.version = Interpolated(@, properties)], managed)]

\* What a repository's POMs come to, those that can be read.
Effective(repo) ==
  [c \in {c \in DOMAIN repo : Readable(repo, c)} |->
     [managed |-> Managed(repo, c), dependencies |-> Dependencies(repo, c)]]
=============================================================================
