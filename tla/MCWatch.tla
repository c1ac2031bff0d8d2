------------------------------- MODULE MCWatch --------------------------------
(* A source tree, and two manifests, of a workspace and of a member of it;  *)
(* both commands, with tasks that write into the tree and manifests that    *)
(* do not parse.                                                            *)
EXTENDS Watch

CONSTANTS src, root, member
MCSources == {src}
MCManifests == {root, member}

MCTrials ==
  {[restarts |-> r, breaks |-> b, edits |-> 3, rewrites |-> 1] :
     r \in BOOLEAN, b \in {{}, {root, member}}}
=============================================================================
