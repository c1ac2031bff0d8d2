------------------------------ MODULE MCMembers ------------------------------
(* Two jobs, so that a member waits for a thread, and few enough members    *)
(* that every order of their lines and results is explored.                 *)
EXTENDS Members

Graph(g) == [k \in Todo |-> IF k \in DOMAIN g THEN g[k] ELSE {}]

\* Four members where the first in build order is not the first to start:
\* the longest paths begin at the second, so that a failure leaves the head
\* unstarted with members behind it finished.
LateHead == {Graph(<<{}, {}, {}, {2, 3}>>),
             Graph(<<{}, {}, {2}, {2}>>),
             Graph(<<{}, {}, {2}, {3}>>)}

\* Four leaves, a fork with a chain, and a leaf beside a chain.
MCGraphs == LateHead \cup {Graph(<<{}, {}, {}, {}>>),
                           Graph(<<{}, {1}, {1}, {2}>>),
                           Graph(<<{}, {1}, {2}, {1}>>)}

\* A member that says one line however it ends, and one whose JDK is
\* installed as it is set up.
MCWorks == [setup : {0}, lines : {1}, ending : Endings]
             \cup [setup : {1}, lines : {1}, ending : {"ok"}]
=============================================================================
