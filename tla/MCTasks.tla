------------------------------ MODULE MCTasks -------------------------------
(* A generator that is cached, in the source tree; a task that reads what   *)
(* it wrote, in target-dir; and one without inputs that runs every time.    *)
EXTENDS Tasks

CONSTANTS gen, use, lint
MCTasks == {gen, use, lint}
MCInputs == (gen :> {"src"}) @@ (use :> {gen}) @@ (lint :> {})

NoHooks == [h \in Hooks |-> <<>>]
NoDeps == [t \in MCTasks |-> <<>>]
\* What is generated is read by another, before the build compiles either.
Chained == [depends |-> [NoDeps EXCEPT ![use] = <<gen>>],
            hooks |-> [NoHooks EXCEPT !["pre-compile"] = <<use>>]]
\* A task two hooks reach; one that builds first; and hooks in a cycle.
Twice == [depends |-> [NoDeps EXCEPT ![use] = <<lint, gen>>, ![lint] = <<"build">>],
          hooks |-> [NoHooks EXCEPT !["pre-compile"] = <<gen>>, !["pre-test"] = <<use>>,
                                    !["post-test"] = <<lint, use>>]]
Round == [depends |-> [NoDeps EXCEPT ![lint] = <<"build">>, ![use] = <<gen>>],
          hooks |-> [NoHooks EXCEPT !["pre-compile"] = <<gen, lint>>]]
Ring == [depends |-> [NoDeps EXCEPT ![use] = <<gen>>, ![gen] = <<use>>], hooks |-> NoHooks]

Ask(node) == [run |-> node, extra |-> FALSE]
With(node) == [run |-> node, extra |-> TRUE]
None == [what \in {"commands", "failures", "kills", "saves", "races", "changes", "edits",
                   "cleans"} |-> 0]

\* Changes and failures with nothing killed behind; then the user at work in
\* the outputs, with kills; then the orders of several graphs.
MCTrials ==
  {[sound |-> TRUE, graph |-> Chained, asks |-> {Ask("build"), With(gen)}, commands |-> 4,
    failures |-> 1, saves |-> 1, changes |-> 2, cleans |-> 1] @@ None,
   [sound |-> FALSE, graph |-> Chained, asks |-> {Ask("build"), With(gen)}, commands |-> 3,
    kills |-> 1, changes |-> 2, edits |-> 2, races |-> 1] @@ None}
  \cup
  {[sound |-> TRUE, graph |-> g, asks |-> {Ask("test"), Ask(use), Ask("build")},
    commands |-> 2, saves |-> 1, failures |-> 1] @@ None : g \in {Twice, Round, Ring}}

\* Nothing but the user's file, and jrs.toml changed and changed back.
MCUserTrials ==
  {[sound |-> FALSE, graph |-> Chained, asks |-> {Ask("build")}, commands |-> 4,
    changes |-> 3, edits |-> 1] @@ None}
=============================================================================
