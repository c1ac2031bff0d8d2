----------------------------- MODULE WatchPromise ------------------------------
(***************************************************************************)
(* What --watch promises (SPEC 7.5 and 7.6), of as much of its state as it *)
(* takes to say so: when the command runs again, and beside which program. *)
(* Watch is how the loop keeps it.                                         *)
(***************************************************************************)
EXTENDS Naturals

VARIABLES
  at,       \* what the command is doing; "open" begins a run of it
  watched,  \* the files it waits for a change of: none before the first run
  up,       \* the programs that run
  child,    \* the one started last: 0 for none, or once it is waited for
  edits,    \* how often the editor saved
  readAt    \* edits, when the last run began

\* SPEC 7.5, "On a change it stops the program, then builds and starts it
\* again": no build runs beside a program, nor a program that the command
\* does not know of, whenever a program exits by itself or will not.
OneProgram == up \subseteq {child} /\ (at \in {"open", "build", "built"} => up = {})

\* SPEC 7.6, "watch mode must not retrigger on a generator's output": the
\* command is run again only after a save since it last began to, even when
\* its tasks write into the watched trees.
RunsAfterSaves ==
  [][at = "open" /\ at' # "open" /\ watched # {} => edits > readAt]_<<at, watched, edits, readAt>>
=============================================================================
