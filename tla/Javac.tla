------------------------------- MODULE Javac --------------------------------
(***************************************************************************)
(* What javac makes of a unit's sources, as far as compiling some of them  *)
(* again depends on it.  External: javac is the JDK's; this is what        *)
(* compile/incremental.rs and compile/abi.rs rely on of it.                *)
(*                                                                         *)
(* A source holds one top-level class, named as the source.  Its text at   *)
(* version v is the record Content[s][v]:                                  *)
(*   header     flags, signature, annotations                              *)
(*   members    what others can see: [name, sig, plain, bridge], plain for *)
(*              a method with a body                                       *)
(*   consts     its compile-time constants                                 *)
(*   supers     the unit's classes it extends or implements                *)
(*   refs       the other classes of the unit it names                     *)
(*   calls      the names of the methods it calls on those                 *)
(*   overrides  the names it overrides, with a bridge per inherited method *)
(*   inlines    the classes whose constants it reads, which leaves no      *)
(*              reference behind                                           *)
(*   tops       other top-level classes it declares                        *)
(*   simple     simple names that mean another class when the unit         *)
(*              declares one                                               *)
(* Version 0 is no source, and no class.                                   *)
(***************************************************************************)
EXTENDS Naturals, FiniteSets

CONSTANTS Sources, Content

\* A text names other classes of the unit, and has no bridges of its own; its
\* supertypes are part of its header, as they are in the class file.
ASSUME TextAssumption ==
  /\ IsFiniteSet(Sources)
  /\ \A s \in Sources :
       /\ 1 \in DOMAIN Content[s] /\ DOMAIN Content[s] \subseteq Nat \ {0}
       /\ \A v \in DOMAIN Content[s] :
            LET text == Content[s][v] IN
            /\ text.supers \cup text.refs \subseteq Sources \ {s} /\ text.inlines \subseteq Sources
            /\ s \notin text.tops
            /\ \A m \in text.members : "bridge" \in DOMAIN m /\ ~m.bridge
            /\ \A w \in DOMAIN Content[s] :
                 Content[s][w].header = text.header => Content[s][w].supers = text.supers

\* What a class file is made of: the version it was compiled from, the
\* members it has, the settings, and what javac took its names to mean.
NoClass == [of |-> 0, members |-> {}, set |-> 0, saw |-> {}, inlined |-> {}, named |-> {}]
NoClasses == [s \in Sources |-> NoClass]

\* What javac finds for each class: the text of the sources X it is given,
\* the class files `out` of the others, whose bridges nobody can name.
World(X, src, out) ==
  [s \in Sources |-> IF s \in X
                     THEN [of |-> src[s], members |-> Content[s][src[s]].members]
                     ELSE [of |-> out[s].of, members |-> {m \in out[s].members : ~m.bridge}]]

Supers(s, of) == IF of = 0 THEN {} ELSE Content[s][of].supers

\* X and what comes of it, step by step along next, in as many steps as there
\* are sources.
Closure(X, next) ==
  LET reach[n \in Nat] ==
        IF n = 0 THEN X ELSE LET Y == reach[n - 1] IN Y \cup UNION {next[y] : y \in Y}
  IN reach[Cardinality(Sources)]

\* s and its supertypes, at any depth.
Lineage(s, w) == Closure({s}, [u \in Sources |-> Supers(u, w[u].of)])

Inherited(s, w) == UNION {w[u].members : u \in Lineage(s, w)}

\* One bridge method for each inherited method overridden.
Bridges(s, w) ==
  {[m EXCEPT !.bridge = TRUE] :
     m \in {i \in UNION {w[u].members : u \in Lineage(s, w) \ {s}} :
              i.plain /\ i.name \in Content[s][w[s].of].overrides}}

\* What source s, a text of version w[s].of, sees of class u: all of it for
\* a supertype; of another class its methods by the names it calls, and
\* everything a source can feel without a name.
Sees(s, u, w) ==
  LET text == Content[s][w[s].of] IN
  [class |-> u,
   headers |-> {<<x, IF w[x].of = 0 THEN 0 ELSE Content[x][w[x].of].header>> : x \in Lineage(u, w)},
   members |-> {m \in Inherited(u, w) : u \in text.supers \/ ~m.plain \/ m.name \in text.calls}]

Declared(w) == UNION {Content[u][w[u].of].tops : u \in {x \in Sources : w[x].of # 0}}

ClassOf(s, w, settings) ==
  LET text == Content[s][w[s].of] IN
  [of |-> w[s].of, set |-> settings,
   members |-> text.members \cup Bridges(s, w),
   saw |-> {Sees(s, u, w) : u \in text.supers \cup text.refs},
   inlined |-> {<<u, IF w[u].of = 0 THEN 0 ELSE Content[u][w[u].of].consts>> : u \in text.inlines},
   named |-> text.simple \cap Declared(w)]

\* A source that names a class, or calls a method, nobody has.
Rejects(s, w) ==
  LET text == Content[s][w[s].of]
      used == text.supers \cup text.refs IN
  \/ \E u \in used \cup text.inlines : w[u].of = 0
  \/ \E name \in text.calls : \A m \in UNION {Inherited(u, w) : u \in used} : m.name # name

Fails(X, src, out) == LET w == World(X, src, out) IN \E s \in X : Rejects(s, w)

\* The class files once javac has written those of W, of the sources X.
Written(X, W, src, out, settings) ==
  LET w == World(X, src, out) IN
  [s \in Sources |-> IF s \in W THEN ClassOf(s, w, settings) ELSE out[s]]

\* What compiling the whole unit into an empty directory gives.
Present(src) == {s \in Sources : src[s] # 0}
Whole(src, settings) == Written(Present(src), Present(src), src, NoClasses, settings)
=============================================================================
