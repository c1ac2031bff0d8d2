----------------------------- MODULE Classpaths -----------------------------
(***************************************************************************)
(* The four classpaths a package may be put on (resolve/mod.rs) and how a  *)
(* member's own declarations reach those who depend on it (workspace.rs).  *)
(***************************************************************************)

\* "none" is no classpath: a declaration that does not reach a dependent.
Classpath == {"compile", "provided", "runtime", "test"}

JoinToFirst(c, d) == IF c = "test" THEN d ELSE c  \* the first that is not a test's

\* The classpath of a package reached on both: wherever either puts it.
Join(c, d) == IF c = d \/ d = "test" THEN c ELSE IF c = "test" THEN d ELSE "compile"

\* On the classpath the main sources compile against.
Compiles(c) == c \in {"compile", "provided"}

\* On the classpath the program runs with, and so packaged.
Runs(c) == c \in {"compile", "runtime"}

\* How what a module declares on `declared` reaches a dependent that sees
\* the module on `via`.
Carried(via, declared) ==
  IF declared \in {"provided", "test"} THEN "none"
  ELSE IF declared = "runtime" /\ via = "compile" THEN "runtime"
  ELSE via
=============================================================================
