------------------------------ MODULE MCTestRun ------------------------------
(* Two main classes, one of which only a name refers to at first; three test *)
(* classes, one of them with a nested class and one that finds classes       *)
(* through a helper.                                                         *)
EXTENDS TestRun, TLC

MCClasses == {"Main", "Other", "Finder", "ATest", "ATest$In", "BTest", "CTest"}
MCScan == {"ATest", "ATest$In", "BTest", "CTest"}
MCTop == [c \in MCScan |-> IF c = "ATest$In" THEN "ATest" ELSE c]
MCOrder == <<"ATest", "BTest", "CTest">>

Class(n, refs) == [n |-> n, refs |-> refs, finds |-> FALSE, groovy |-> FALSE]

MCStart ==
  ("Main" :> Class(1, {})) @@ ("Other" :> Class(1, {})) @@
  ("Finder" :> [Class(1, {}) EXCEPT !.finds = TRUE]) @@
  ("ATest" :> Class(1, {})) @@ ("ATest$In" :> Class(1, {"Main", "ATest"})) @@
  ("BTest" :> Class(1, {})) @@ ("CTest" :> Class(1, {"Finder"})) @@
  ("jvm-args" :> [n |-> 1])

\* A method body, a class that comes and goes, a new reference, a new test, an argument.
MCHolds ==
  [f \in DOMAIN MCStart |->
     {MCStart[f]} \cup
     CASE f = "Main" -> {Class(2, {})}
       [] f = "Other" -> {Class(2, {"Main"}), Absent}
       [] f = "BTest" -> {Class(2, {"Other"}), Absent}
       [] f = "ATest" -> {[Class(2, {}) EXCEPT !.groovy = TRUE]}
       [] f = "jvm-args" -> {[n |-> 2]}
       [] OTHER -> {}]

Whole == [start |-> MCStart, shard |-> 1, shards |-> 1, forks |-> 1, crashes |-> 1,
          retries |-> TRUE, failFast |-> TRUE, kills |-> 1, changes |-> 2, commands |-> 3]
\* All that may happen; a shard of two; and a class a test stops referring to.
MCTrials ==
  {Whole, [Whole EXCEPT !.shards = 2, !.crashes = 0],
   [Whole EXCEPT !.start["BTest"] = Class(2, {"Other"}), !.crashes = 0, !.kills = 0,
                 !.retries = FALSE, !.failFast = FALSE]}

\* Nothing but a JVM of two that goes down.
MCCrashTrials ==
  {[Whole EXCEPT !.forks = 2, !.kills = 0, !.changes = 1, !.commands = 3,
                 !.failFast = FALSE, !.retries = FALSE]}
=============================================================================
