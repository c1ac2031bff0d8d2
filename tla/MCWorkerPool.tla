---------------------------- MODULE MCWorkerPool ----------------------------
(* Two members compiling at once with workers that serve one or two         *)
(* compiles: enough for a worker to go idle, be taken by the other member,  *)
(* go stale and be replaced.                                                *)
EXTENDS WorkerPool

CONSTANTS a, b, jdk17, jdk21
MCThreads == {a, b}
MCKeys == {jdk17, jdk21}

\* A build whose members share a JDK; a watch session whose members do not,
\* and whose workers serve one compile.
MCCommands ==
  {[once |-> TRUE, restartAfter |-> 2, prestarted |-> 2, jdks |-> {jdk21}, jvms |-> 5],
   [once |-> FALSE, restartAfter |-> 1, prestarted |-> 1, jdks |-> {jdk17, jdk21}, jvms |-> 3]}
=============================================================================
