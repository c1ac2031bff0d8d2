----------------------------- MODULE MCWorkspace -----------------------------
(* Four kinds of input: every graph over three members, with nothing to      *)
(* resolve; projects whose POMs hold diamonds, cycles, exclusions and two    *)
(* versions of most artifacts, under two declarations on any classpaths;     *)
(* projects whose POMs inherit, manage, import and interpolate; and          *)
(* workspaces whose members reach the same packages with different           *)
(* exclusions, directly and through each other.                              *)
EXTENDS Workspace
V == INSTANCE VersionOrder

MCThree == 1..3

D(a, v) == [ga |-> a, version |-> v, scope |-> "none", excludes |-> {}, optional |-> FALSE]
Ex(d, e) == [d EXCEPT !.excludes = e]
R(a, v, c, e) == [ga |-> a, version |-> v, classpath |-> c, excludes |-> e]
M(a, v) == [ga |-> a, version |-> v, scope |-> "none", excludes |-> {}]
Bom(v) == [M("q", v) EXCEPT !.scope = "import"]
None == [n \in {} |-> 0]
P(deps) == [parent |-> <<>>, properties |-> None, managed |-> <<>>, dependencies |-> deps,
            jvm |-> <<>>]
Managing(entries) == [P(<<>>) EXCEPT !.managed = entries]

NoModules == [m \in Members |-> <<>>]
Base == [modules |-> NoModules, on |-> NoModules, declared |-> NoModules,
         pins |-> None, boms |-> <<>>, alone |-> FALSE,
         repo |-> [c \in {} |-> P(<<>>)]]

\* A member may list its modules in any order.
Listings(m) == UNION {{s \in [1..Cardinality(S) -> S] : \A i, j \in DOMAIN s : i # j => s[i] # s[j]} :
                        S \in SUBSET (MCThree \ {m})}
OnCompile(modulesOf) == [m \in DOMAIN modulesOf |-> [i \in DOMAIN modulesOf[m] |-> "compile"]]
OrderWorkspaces ==
  {[Base EXCEPT !.modules = g, !.on = OnCompile(g)] :
     g \in {g \in [MCThree -> UNION {Listings(m) : m \in MCThree}] :
              \A m \in MCThree : g[m] \in Listings(m)}}

Pom(a1, b1, c1, d1) ==
  <<"a", 1>> :> P(a1) @@ <<"b", 1>> :> P(b1) @@ <<"b", 2>> :> P(<<D("c", 2)>>)
  @@ <<"c", 1>> :> P(c1) @@ <<"c", 2>> :> P(<<D("d", 2)>>)
  @@ <<"d", 1>> :> P(d1) @@ <<"d", 2>> :> P(<<>>)
Graphs ==
  {Pom(a1, b1, c1, d1) :
     a1 \in {<<D("b", 1), D("c", 2)>>, <<Ex(D("c", 1), {"d"}), D("b", 1)>>},
     b1 \in {<<D("c", 1)>>, <<D("d", 1), D("c", 1)>>},
     c1 \in {<<D("d", 1)>>, <<D("a", 1), Ex(D("d", 2), {"b"})>>},
     d1 \in {<<>>, <<D("b", 2)>>}}

Alone(p, roots) == [Base EXCEPT !.alone = TRUE, !.repo = p,
                                !.declared = [m \in Members |-> IF m = 1 THEN roots ELSE <<>>]]
Projects ==
  {Alone(p, <<R("a", 1, c, e), r>>) :
     p \in Graphs, c \in Classpath, e \in {{}, {"c"}, {Star}},
     r \in {R(a, 1, k, {}) : a \in {"b", "c", "d"}, k \in Classpath}}

\* Versions that are managed, and graphs that are refused.
OneGraph == Pom(<<D("b", VersionRange), D("c", NoVersion)>>, <<D("d", 1)>>, <<D("b", 2)>>, <<>>)
            @@ <<"q", 1>> :> Managing(<<[M("c", 1) EXCEPT !.excludes = {"b"}]>>)
            @@ <<"q", 2>> :> Managing(<<M("b", 1), M("c", 2), M("a", 1)>>)
Odd == {[Alone(p, <<R("a", v, "compile", {}), R("d", w, "test", {})>>)
           EXCEPT !.pins = pins, !.boms = boms] :
          p \in {OneGraph, [c \in DOMAIN OneGraph \ {<<"b", 1>>} |-> OneGraph[c]]},
          v \in {1, VersionRange, NoVersion}, w \in {1, NoVersion},
          pins \in {None, "b" :> 1, "b" :> 2 @@ "d" :> 2},
          boms \in {<<>>, <<<<"q", 1>>, <<"q", 2>>>>, <<<<"q", 1>>, <<"p", 1>>>>}}

\* A POM with a parent, which has one too, and BOMs that import each other.
\* The parents may go round in a circle, and the far one may be missing.
Own == {[P(deps) EXCEPT !.parent = parent, !.properties = props, !.managed = managed] :
          deps \in {<<D("b", NoVersion), D("c", 102)>>,
                   <<[D("d", 101) EXCEPT !.optional = TRUE], Ex(D("b", NoVersion), {"d"})>>},
          parent \in {<<>>, <<<<"p", 1>>>>}, props \in {None, 102 :> 2},
          managed \in {<<>>, <<M("c", 2), M("b", 2)>>, <<Bom(2)>>}}
       \cup {[P(<<D("b", 1)>>) EXCEPT !.jvm = <<<<"c", 1>>>>],
             P(<<[D("b", 2) EXCEPT !.scope = "test"], D("b", 1), D("c", 2)>>)}
Parents == {[Managing(managed) EXCEPT !.parent = parent, !.properties = props] :
              parent \in {<<>>, <<<<"p", 2>>>>}, props \in {102 :> 101, 102 :> 1 @@ 101 :> 2},
              managed \in {<<M("b", 102)>>, <<M("b", 1), [M("b", 2) EXCEPT !.scope = "test"], Bom(2)>>}}
Far == {[Managing(<<Bom(1), M("d", NoVersion)>>) EXCEPT !.parent = parent] : parent \in {<<>>, <<<<"p", 1>>>>}}
Boms == <<"q", 1>> :> Managing(<<[M("b", 1) EXCEPT !.excludes = {"c"}], M("d", 2)>>)
        @@ <<"q", 2>> :> Managing(<<M("b", VersionRange), Bom(2), Bom(1), Bom(NoVersion), Bom(VersionRange)>>)
Inheriting ==
  {<<"a", 1>> :> own @@ <<"p", 1>> :> parent @@ far @@ Boms @@ Pom(<<>>, <<>>, <<>>, <<>>) :
     own \in Own, parent \in Parents, far \in {None} \cup {<<"p", 2>> :> p : p \in Far}}
Inherited == {[Alone(p, <<R("a", 1, "compile", {}), R("d", by[1], "test", {})>>) EXCEPT !.boms = by[2]] :
                p \in Inheriting, by \in {<<1, <<>>>>, <<NoVersion, <<<<"p", 1>>>>>>}}

Chain == <<(<<>>), (<<1>>), (<<1, 2>>)>>
Shared ==
  {[Base EXCEPT !.repo = p, !.modules = Chain, !.on = <<(<<>>), <<k>>, <<"compile", "test">>>>,
                !.declared = <<(<<R("a", 1, "compile", e)>>), <<R("a", 1, c, f), R("b", 2, "runtime", {"c"})>>,
                               <<R(x, 1, "test", g)>>>>] :
     p \in Graphs, k \in {"compile", "test"}, c \in {"provided", "runtime"}, e \in {{}, {"c"}, {"b", "d"}},
     f \in {{}, {"d"}, {Star}}, x \in {"b", "c"}, g \in {{}, {"d"}}}

\* Among what a line of POMs says of an artifact, the nearest POM decides,
\* with what it says last, and no BOM changes that.
NearestManages(repo, c) ==
  LET line == Line(repo, c)
      Says(i, j, a) == repo[line[i]].managed[j].ga = a /\ repo[line[i]].managed[j].scope # "import"
  IN  \A i \in DOMAIN line : \A j \in DOMAIN repo[line[i]].managed :
        LET e == repo[line[i]].managed[j]
        IN  \/ ~Says(i, j, e.ga)
            \/ \E k \in (j + 1)..Len(repo[line[i]].managed) : Says(i, k, e.ga)
            \/ \E n \in 1..(i - 1) : \E k \in DOMAIN repo[line[n]].managed : Says(n, k, e.ga)
            \/ Managed(repo, c)[e.ga] = [e EXCEPT !.version = Interpolated(@, Properties(repo, c))]
ASSUME \A r \in Inheriting : \A c \in {c \in DOMAIN r : Readable(r, c)} : NearestManages(r, c)

\* Of plain releases, 1 to 3 numbers long, the highest is picked and the
\* lowest, in whatever order they are listed.
PlainVersions == UNION {[1..n -> [kind : {"number"}, of : 0..1]] : n \in 1..3}
ASSUME \A u, v, w \in PlainVersions :
         \A x \in {u, v, w} : /\ V!CompareVersions(V!Highest(<<u, v, w>>), x) >= 0
                              /\ V!CompareVersions(V!Lowest(<<u, v, w>>), x) <= 0

MCWorkspaces == OrderWorkspaces \cup Projects \cup Odd \cup Inherited \cup Shared

MCModuleEdges == {w.modules : w \in MCWorkspaces}
MCPoms == {w.repo : w \in MCWorkspaces}
=============================================================================
