-------------------------------- MODULE Watch ---------------------------------
(***************************************************************************)
(* --watch (cli/watch.rs, and Driver::watch and run_watch of               *)
(* cli/members.rs): a command is run, then again whenever a watched file   *)
(* changes.  jrs run --watch also starts the program, and stops it         *)
(* (toolchain::stop) before it runs the next one.                          *)
(*                                                                         *)
(* A file is the number of times it was written, which is what a size and  *)
(* mtime tell apart.  An editor saves files, and the manifests it saves    *)
(* may not parse; a build's tasks write some of them too.                  *)
(***************************************************************************)
EXTENDS WatchPromise

CONSTANTS Sources,    \* the source trees, the resources, the tasks' inputs
          Manifests,  \* of the members, the root's included
          Root,       \* the manifest the command was given
          Trials,     \* bounds: the command, and what may happen how often
          MaxWrites   \* bound: how often a file may come to be written

Files == Sources \cup Manifests

ASSUME WatchAssumption ==
  /\ Root \in Manifests /\ Manifests \cap Sources = {}
  /\ \A t \in Trials : /\ t.restarts \in BOOLEAN /\ t.breaks \subseteq Manifests
                      /\ t.edits + t.rewrites <= MaxWrites

VARIABLES  \* and those of WatchPromise
  saved,    \* saved[f]: how often f was written
  broken,   \* the manifests that do not parse as they are
  read,     \* read[f]: f as the last run that read it found it
  before,   \* before[f]: the picture it compares with
  now,      \* the picture that differed
  runs,     \* how many programs were started
  trial     \* what may still happen (chosen in Init)

picture == <<watched, before, now>>
program == <<up, child, runs>>
editor == <<saved, broken, edits>>
vars == <<editor, at, read, readAt, picture, program, trial>>

Init ==
  /\ trial \in Trials
  /\ saved = [f \in Files |-> 0] /\ broken = {} /\ edits = 0
  /\ at = "open"
  /\ read = saved /\ readAt = 0
  /\ watched = {} /\ before = [f \in {} |-> 0] /\ now = before
  /\ up = {} /\ child = 0 /\ runs = 0

Spend(what) == trial[what] > 0 /\ trial' = [trial EXCEPT ![what] = @ - 1]
Taken(files) == [f \in files |-> saved[f]]

-----------------------------------------------------------------------------
(* The loop of watch and run_watch.                                        *)

\* Mutant of ReadManifests: the manifests of the first run are kept.
ReadManifestsOnce == [f \in Files |-> IF f \in Manifests /\ watched = {} THEN saved[f] ELSE read[f]]
ReadManifests == [f \in Files |-> IF f \in Manifests THEN saved[f] ELSE read[f]]

\* The manifests are read.  When one does not parse there is no session, and
\* the manifest the command was given is all that is watched.
Open ==
  /\ at = "open"
  /\ readAt' = edits
  /\ IF broken # {}
     THEN at' = "picture" /\ watched' = {Root} /\ UNCHANGED read
     ELSE /\ at' = "build" /\ watched' = Files
          /\ read' = ReadManifests
  /\ UNCHANGED <<editor, before, now, program, trial>>

\* The build reads the sources; tasks write theirs before it or after.
Build ==
  /\ at = "build" /\ at' = "built"
  /\ read' = [f \in Files |-> IF f \in Sources THEN saved[f] ELSE read[f]]
  /\ UNCHANGED <<editor, readAt, picture, program, trial>>

Generate ==
  /\ at \in {"build", "built"} /\ Spend("rewrites")
  /\ \E f \in Sources : saved' = [saved EXCEPT ![f] = @ + 1]
  /\ UNCHANGED <<broken, edits, at, read, readAt, picture, program>>

\* It fails or not; jrs run then starts the program, or cannot.
Built ==
  /\ at = "built" /\ at' = "picture"
  /\ \/ UNCHANGED program
     \/ /\ trial.restarts
        /\ runs' = runs + 1 /\ child' = runs' /\ up' = up \cup {runs'}
  /\ UNCHANGED <<editor, read, readAt, picture, trial>>

\* Mutant of Before: the picture of what the build read.
BeforeAsRead == [f \in watched |-> read[f]]
Before == Taken(watched)

\* wait_for_change takes its picture once the command is over.
Picture ==
  /\ at = "picture" /\ at' = "look"
  /\ before' = Before
  /\ UNCHANGED <<editor, read, readAt, watched, now, program, trial>>

\* A look: a program that exited is waited for, and the files are compared.
Look ==
  /\ at = "look"
  /\ child' = IF child \in up THEN child ELSE 0
  /\ now' = Taken(watched)
  /\ at' = IF now' # before THEN "settle" ELSE "look"
  /\ UNCHANGED <<editor, read, readAt, watched, before, up, runs, trial>>

\* Files are let settle; then the program is stopped, unless it was waited
\* for, and all of it done again.
Settle ==
  /\ at = "settle"
  /\ now' = Taken(watched)
  /\ at' = IF now' # now THEN "settle" ELSE IF child # 0 THEN "stop" ELSE "open"
  /\ UNCHANGED <<editor, read, readAt, watched, before, program, trial>>

-----------------------------------------------------------------------------
(* toolchain::stop.                                                        *)

\* The program is asked to exit; it may take its time, or not listen.
Ask ==
  /\ at = "stop" /\ at' = "grace"
  /\ UNCHANGED <<editor, read, readAt, picture, program, trial>>

\* Mutant of Grace: whatever the program does, the time is up.
GraceOver ==
  /\ at = "grace" /\ at' = "open"
  /\ child' = 0
  /\ UNCHANGED <<editor, read, readAt, picture, up, runs, trial>>

\* It exits and is waited for, or its time is up and it is killed.
Grace ==
  /\ at = "grace" /\ at' = "open"
  /\ up' = up \ {child} /\ child' = 0
  /\ UNCHANGED <<editor, read, readAt, picture, runs, trial>>

Main == \/ Open \/ Build \/ Generate \/ Built \/ Picture \/ Look \/ Settle \/ Ask \/ Grace

-----------------------------------------------------------------------------
(* Around it.                                                              *)

\* A program exits by itself, or because it was asked to.
Exit ==
  /\ \E p \in up : up' = up \ {p}
  /\ UNCHANGED <<editor, at, read, readAt, picture, child, runs, trial>>

\* An editor saves a file, or several one after the other.
Save ==
  /\ Spend("edits") /\ edits' = edits + 1
  /\ \E f \in Files :
       /\ saved' = [saved EXCEPT ![f] = @ + 1]
       /\ broken' \in {broken \ {f}} \cup (IF f \in trial.breaks THEN {broken \cup {f}} ELSE {})
  /\ UNCHANGED <<at, read, readAt, picture, program>>

Next == Main \/ Exit \/ Save

\* The command runs until it is interrupted, which is never here; its builds
\* and tasks come to an end.
Spec == Init /\ [][Next]_vars /\ WF_vars(Main)

-----------------------------------------------------------------------------
(* Correctness.                                                            *)

\* watch.rs:20, "again every time a watched file changes", of what was saved
\* since the picture was taken, as long as every manifest parses: a run to
\* come reads it.  (A file saved behind the build that read it and before
\* the picture is in the picture, and starts none.)
NoticedIsRun ==
  \A f \in Files, n \in 1..MaxWrites :
    (at = "look" /\ f \in watched /\ saved[f] = n /\ before[f] < n)
      ~> (read[f] >= n \/ broken # {})
=============================================================================
