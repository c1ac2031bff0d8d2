--------------------------- MODULE MCDependencies ---------------------------
(* Two projects over three jars: one to compile against, one only to run    *)
(* with, and a snapshot.  Central serves the releases; the snapshot's group *)
(* is claimed by an internal repository, though Central has something of    *)
(* that name too, and the internal one perhaps nothing yet.                 *)
EXTENDS Dependencies, TLC

CONSTANTS one, two, lib, run, snap
MCClients == {one, two}
MCJars == {lib, run, snap}
MCSnapshots == {snap}
MCGroup == [j \in MCJars |-> IF j = snap THEN "inner" ELSE "open"]
\* An internal repository, then Central.
MCClaims == <<{"inner"}, {}>>
MCGraph == <<{lib, snap}, {lib, run}, {lib}, {snap}>>
MCCompiles == {lib}
MCServing == {<<[j \in MCJars |-> IF j = snap THEN n ELSE 0], [j \in MCJars |-> 1]>> : n \in 0..1}

All == {"build", "build offline", "fetch", "update"}
Nothing == [what \in {"failures", "kills", "edits", "checkouts", "publishes",
                      "days", "prunes"} |-> 0]
Both(m, n) == (one :> m) @@ (two :> n)

\* A lock that is kept, lost and written anew; a snapshot that is published
\* anew; a cache that is pruned; two builds and a prune at once.
MCTrials ==
  {[together |-> FALSE, projects |-> {one}, of |-> Both(2, 2), kinds |-> All,
    commands |-> 3, failures |-> 1, kills |-> 1, edits |-> 1] @@ Nothing,
   [together |-> FALSE, projects |-> {one}, of |-> Both(1, 1),
    kinds |-> {"fetch", "update"}, commands |-> 3, kills |-> 1, publishes |-> 1,
    days |-> 1] @@ Nothing,
   [together |-> FALSE, projects |-> {one, two}, of |-> Both(4, 3), kinds |-> {"fetch"},
    commands |-> 3, checkouts |-> 2, prunes |-> 2] @@ Nothing,
   [together |-> TRUE, projects |-> {one, two}, of |-> Both(3, 3), kinds |-> {"build"},
    commands |-> 2, prunes |-> 1] @@ Nothing,
   [together |-> TRUE, projects |-> {one, two}, of |-> Both(4, 4), kinds |-> {"build"},
    commands |-> 2, publishes |-> 1] @@ Nothing}
=============================================================================
