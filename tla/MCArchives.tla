------------------------------ MODULE MCArchives -------------------------------
(* Two commands at a time: builds, of one JDK or the other, with a javac     *)
(* that fails, a command that is killed and a run that takes long; and test  *)
(* runs with two sets of dependencies, one of which can have no AOT cache.   *)
EXTENDS Archives

CONSTANTS c1, c2, javac, plain, mocked

MCCommands == {c1, c2}
MCPids == 1..3
MCDeps == {plain, mocked}

Quiet == [kinds |-> {"test"}, deps |-> mocked, aot |-> TRUE, vain |-> {mocked},
          faults |-> 0, kills |-> 0, slow |-> 0, changes |-> 0]
Builds == [Quiet EXCEPT !.kinds = {"edit", "whole", "fetch"}]

MCTrials ==
  {[Builds EXCEPT !.faults = 1, !.kills = 1],
   [Builds EXCEPT !.aot = FALSE, !.faults = 1, !.kills = 1],
   [Builds EXCEPT !.slow = 1],
   [Builds EXCEPT !.aot = FALSE, !.slow = 1],
   [Quiet EXCEPT !.changes = 2],
   [Quiet EXCEPT !.changes = 1, !.faults = 1],
   [Quiet EXCEPT !.changes = 1, !.kills = 1, !.slow = 1],
   [Quiet EXCEPT !.aot = FALSE, !.changes = 2, !.faults = 1]}
=============================================================================
