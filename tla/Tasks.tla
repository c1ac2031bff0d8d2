------------------------------- MODULE Tasks --------------------------------
(***************************************************************************)
(* The tasks of jrs.toml (cli/tasks.rs, task.rs): a command runs the tasks *)
(* its hooks and depends-on lists name; a task is skipped when its         *)
(* fingerprint says so, restored from the build cache when it is a cached  *)
(* one, and run otherwise.                                                 *)
(*                                                                         *)
(* A task reads the sources and other tasks' outputs, and writes one file, *)
(* "own", into its output directory, where the user may write as well.     *)
(* What it writes is made of its argument and of what it read.             *)
(***************************************************************************)
EXTENDS TaskPlan

CONSTANTS Inputs,     \* Inputs[t]: "src", and tasks, for those whose outputs t reads
          Cached,     \* the tasks that say cache = true
          InTarget,   \* those whose outputs are under target-dir
          Trials      \* bounds: the task graph, and what may happen how often

\* A trial in which no run is killed, and nothing is changed behind one: no
\* source while it goes on, and no output by hand.  A task that reads what
\* another wrote says that it depends on it.
Sound(chosen) ==
  /\ chosen.kills = 0 /\ chosen.races = 0 /\ chosen.edits = 0
  /\ \A t \in Tasks : Inputs[t] \cap Tasks \subseteq ToSet(chosen.graph.depends[t])

ASSUME TasksAssumption ==
  /\ Cached \subseteq Tasks /\ InTarget \subseteq Tasks
  /\ \A t \in Tasks : Inputs[t] \subseteq Tasks \cup {"src"}
  /\ \A t \in Cached : Inputs[t] # {}
  /\ "src" \notin Tasks
  /\ \A chosen \in Trials :
       /\ {"graph", "asks", "sound", "kills", "races", "edits"} \subseteq DOMAIN chosen
       /\ chosen.graph.depends \in [Tasks -> Seq(Nodes)]
       /\ chosen.graph.hooks \in [Hooks -> Seq(Nodes)]
       /\ \A ask \in chosen.asks : ask.run \in Nodes
       /\ chosen.sound => Sound(chosen)

VARIABLES
  src,      \* the sources: what they say, and when they were saved
  arg,      \* what jrs.toml passes every task
  out,      \* out[t]: the files in t's output directory
  prints,   \* prints[t]: target/.jrs/tasks/<t>.fingerprint
  record,   \* record[t]: target/.jrs/tasks/<t>.outputs, what t's files held
  entries,  \* the build cache: the files of each key
  clock,    \* for the modification times
  job,      \* the command that runs
  ended,    \* how the last one ended, if nothing was touched since
  edits,    \* edits[t]: the files the user wrote in out[t] since t last ran
  mine,     \* the tasks beside whose outputs the user put a file
  trial     \* the graph, and what may still happen (chosen in Init)

user == <<edits, mine>>
tree == <<src, arg>>
files == <<out, prints, record, entries>>
vars == <<tree, files, clock, job, ended, user, trial>>

Nothing == <<>>          \* no file: no fingerprint, no record, an empty directory
NoJob == [at |-> "idle"]
NoEnd == [result |-> "none"]
Half == <<"half">>       \* what a run leaves that did not get to its end

Put(map, f, what) == [g \in DOMAIN map \cup {f} |-> IF g = f THEN what ELSE map[g]]

Checked(t) == Inputs[t] # {}   \* a task with inputs and outputs can be skipped
Graph == trial.graph

Init ==
  /\ src = [is |-> 1, time |-> 0] /\ arg = 1 /\ clock = 0
  /\ out = [t \in Tasks |-> Nothing] /\ prints = out /\ record = out
  /\ entries = Nothing
  /\ job = NoJob /\ ended = NoEnd
  /\ edits = [t \in Tasks |-> {}] /\ mine = {}
  /\ trial \in Trials

Spend(what) == trial[what] > 0 /\ trial' = [trial EXCEPT ![what] = @ - 1]
Idle == job.at = "idle"
At(step) == job.at = step
Goes(step) == job' = [job EXCEPT !.at = step]
T == job.task

End(result) ==
  /\ job' = NoJob
  /\ ended' = [result |-> result, over |-> job.over, extra |-> job.extra]

-----------------------------------------------------------------------------
(* What the next step of a command is.                                     *)

Steps(nodes) == [i \in DOMAIN nodes |-> <<"step", nodes[i]>>]

\* A command's own work, its hooks around it.  Every command builds first,
\* once.
Work(builtin) ==
  IF builtin = "build" THEN <<<<"built", "build">>>>
  ELSE <<<<"built", "build">>, <<"hook", "pre-test">>, <<"hook", "post-test">>,
         <<"over", "test">>>>

Building == <<<<"hook", "pre-compile">>, <<"hook", "post-compile">>, <<"over", "build">>>>

\* jrs build, jrs test, jrs task, and jrs task with arguments after --.  A
\* graph with a cycle is refused as the manifest is read.
Command ==
  /\ Idle /\ ~Cyclic(Graph) /\ Spend("commands")
  /\ \E ask \in trial.asks :
       job' = [at |-> "step", extra |-> ask.extra, named |-> ask.run, ran |-> {}, done |-> {},
               todo |-> IF ask.run \in Tasks THEN Steps(Plan(Graph, <<ask.run>>))
                        ELSE Work(ask.run),
               over |-> <<>>, task |-> ask.run, print |-> Nothing, key |-> Nothing,
               read |-> Nothing, entry |-> Nothing, rest |-> Nothing]
  /\ ended' = NoEnd
  /\ UNCHANGED <<tree, files, clock, user>>

Todo(kind) == At("step") /\ job.todo # <<>> /\ Head(job.todo)[1] = kind
Item == Head(job.todo)[2]
Pop == Tail(job.todo)

\* Session::step, builtin: whatever ran is not run again.
Step ==
  /\ Todo("step")
  /\ job' = IF Item \in job.ran \cup job.done THEN [job EXCEPT !.todo = Pop]
            ELSE IF Item \in Tasks
            THEN [job EXCEPT !.ran = @ \cup {Item}, !.task = Item, !.at = "prepare",
                             !.todo = Pop]
            ELSE [job EXCEPT !.done = @ \cup {Item}, !.todo = Work(Item) \o Pop]
  /\ UNCHANGED <<tree, files, clock, ended, user, trial>>

\* Session::build, and Session::hook.
Open ==
  /\ \/ /\ Todo("built")
        /\ job' = [job EXCEPT !.todo = IF "build" \in ToSet(job.over) THEN Pop
                                       ELSE Building \o Pop]
     \/ /\ Todo("hook")
        /\ job' = [job EXCEPT !.todo = Steps(Plan(Graph, Graph.hooks[Item])) \o Pop]
     \/ /\ Todo("over")
        /\ job' = [job EXCEPT !.todo = Pop, !.over = Append(@, Item)]
  /\ UNCHANGED <<tree, files, clock, ended, user, trial>>

Finish ==
  /\ At("step") /\ job.todo = <<>>
  /\ End("ok")
  /\ UNCHANGED <<tree, files, clock, user, trial>>

-----------------------------------------------------------------------------
(* One task.                                                               *)

Contents(t) ==
  [i \in Inputs[t] |-> IF i = "src" THEN src.is ELSE [f \in DOMAIN out[i] |-> out[i][f].is]]
Times(t) ==
  [i \in Inputs[t] |-> IF i = "src" THEN src.time ELSE [f \in DOMAIN out[i] |-> out[i][f].time]]

Extra == job.extra /\ T = job.named

\* fingerprint: the action with its arguments, and the inputs by their times.
Fingerprint == IF Checked(T) THEN <<arg, Extra, Times(T)>> ELSE Nothing

IsFresh == Checked(T) /\ prints[T] = Fingerprint /\ out[T] # Nothing

Ended(j) == [j EXCEPT !.at = "step", !.over = Append(@, T)]

\* prepare, and whether the task would do anything.
Prepare ==
  /\ At("prepare")
  /\ job' = IF IsFresh THEN Ended(job)
            ELSE [job EXCEPT !.print = Fingerprint, !.key = Nothing, !.rest = <<"print">>,
                             !.at = IF T \in Cached /\ ~Extra THEN "key" ELSE "run"]
  /\ UNCHANGED <<tree, files, clock, ended, user, trial>>

\* Mutant of Ours: a file is the task's when the record names it.
OursByName(f) == f \in DOMAIN record[T]
Ours(f) == f \in DOMAIN record[T] /\ record[T][f] = out[T][f].is

\* user_file: outside target-dir, a file the task did not leave as it is.
UserFile == T \notin InTarget /\ \E f \in DOMAIN out[T] : ~Ours(f)

\* task_key, and whether restore_task may go on.
Key ==
  /\ At("key")
  /\ LET key == <<T, arg, Contents(T)>>
         hit == key \in DOMAIN entries /\ ~UserFile IN
     job' = [job EXCEPT !.key = key,
                        !.at = IF hit THEN "unsay" ELSE "run",
                        !.entry = IF hit THEN entries[key] ELSE Nothing,
                        !.rest = IF hit THEN <<"outs", "print">> ELSE <<"print", "outs", "save">>]
  /\ UNCHANGED <<tree, files, clock, ended, user, trial>>

Forget ==
  /\ prints' = [prints EXCEPT ![T] = Nothing] /\ record' = [record EXCEPT ![T] = Nothing]

\* Until the outputs are in place nothing may say they are current.
Unsay ==
  /\ At("unsay") /\ Forget /\ Goes("remove")
  /\ UNCHANGED <<tree, out, entries, clock, ended, user, trial>>

\* restore_outputs removes each output, then writes the entry's files.
ClearOut ==
  /\ At("remove") /\ Goes("write")
  /\ out' = [out EXCEPT ![T] = Nothing]
  /\ UNCHANGED <<tree, prints, record, entries, clock, ended, user, trial>>

PutBack ==
  /\ At("write") /\ Goes("book")
  /\ clock' = clock + 1
  /\ out' = [out EXCEPT ![T] = [f \in DOMAIN job.entry |-> [is |-> job.entry[f], time |-> clock']]]
  /\ UNCHANGED <<tree, prints, record, entries, ended, user, trial>>

\* The task's process starts and reads,
Run ==
  /\ At("run")
  /\ job' = [job EXCEPT !.at = "running", !.read = Contents(T)]
  /\ UNCHANGED <<tree, files, clock, ended, user, trial>>

Writes(what) ==
  /\ clock' = clock + 1
  /\ out' = [out EXCEPT ![T] = Put(@, "own", [is |-> what, time |-> clock'])]
  /\ edits' = [edits EXCEPT ![T] = {}]
  /\ UNCHANGED mine

\* and ends well,
Ran ==
  /\ At("running") /\ Goes("book")
  /\ Writes(<<"made", arg, Extra, job.read>>)
  /\ UNCHANGED <<tree, prints, record, entries, ended, trial>>

\* Mutant of Fail: a failure leaves what the last success said.
FailUnsaid ==
  /\ At("running") /\ Spend("failures")
  /\ Writes(Half)
  /\ End("failed")
  /\ UNCHANGED <<tree, prints, record, entries>>

\* or fails half-way, and nothing is said of its outputs.
Fail ==
  /\ At("running") /\ Spend("failures")
  /\ Writes(Half)
  /\ Forget
  /\ End("failed")
  /\ UNCHANGED <<tree, entries>>

\* The books are kept one file after the other: the fingerprint, the record
\* of the outputs as they are now, and their entry.
Books(what) == /\ At("book") /\ job.rest # <<>> /\ Head(job.rest) = what
               /\ UNCHANGED <<tree, out, clock, ended, user, trial>>
OneLess == [job EXCEPT !.rest = Tail(@)]

Imprint ==
  /\ Books("print") /\ job' = OneLess
  /\ prints' = [prints EXCEPT ![T] = job.print]
  /\ UNCHANGED <<record, entries>>

\* collect_outputs, record_outputs.
Outs ==
  /\ Books("outs")
  /\ LET now == [f \in DOMAIN out[T] |-> out[T][f].is] IN
       /\ record' = [record EXCEPT ![T] = now]
       /\ job' = [OneLess EXCEPT !.entry = now]
  /\ UNCHANGED <<prints, entries>>

SaveEntry ==
  /\ Books("save") /\ job' = OneLess
  /\ entries' = Put(entries, job.key, job.entry)
  /\ UNCHANGED <<prints, record>>

Booked ==
  /\ At("book") /\ job.rest = <<>>
  /\ job' = Ended(job)
  /\ UNCHANGED <<tree, files, clock, ended, user, trial>>

-----------------------------------------------------------------------------
(* Around the commands.                                                    *)

Kill ==
  /\ ~Idle /\ Spend("kills")
  /\ End("killed")
  /\ \/ UNCHANGED <<out, clock, user>>
     \/ At("running") /\ Writes(Half)
  /\ UNCHANGED <<tree, prints, record, entries>>

\* A source is saved; with a command at work, its text may be of either time.
Save ==
  /\ Spend(IF Idle THEN "saves" ELSE "races")
  /\ clock' = clock + 1
  /\ src' = [is |-> 3 - src.is, time |-> clock']
  /\ ended' = NoEnd
  /\ UNCHANGED <<arg, files, job, user>>

EditManifest ==
  /\ Idle /\ Spend("changes")
  /\ arg' = 3 - arg
  /\ ended' = NoEnd
  /\ UNCHANGED <<src, files, clock, job, user>>

\* The user writes into an output directory outside target-dir.
Edit ==
  /\ Idle /\ Spend("edits")
  /\ clock' = clock + 1
  /\ \E t \in Tasks \ InTarget, f \in {"own", "mine"} :
       /\ out' = [out EXCEPT ![t] = Put(@, f, [is |-> <<"user", clock'>>, time |-> clock'])]
       /\ edits' = [edits EXCEPT ![t] = @ \cup {f}]
       /\ mine' = IF f = "mine" THEN mine \cup {t} ELSE mine
  /\ ended' = NoEnd
  /\ UNCHANGED <<tree, prints, record, entries, job>>

\* jrs clean removes target-dir, what jrs knows of the tasks with it.
Clean ==
  /\ Idle /\ Spend("cleans")
  /\ out' = [t \in Tasks |-> IF t \in InTarget THEN Nothing ELSE out[t]]
  /\ prints' = [t \in Tasks |-> Nothing] /\ record' = prints'
  /\ ended' = NoEnd
  /\ UNCHANGED <<tree, entries, clock, job, user>>

Next ==
  \/ Command \/ Step \/ Open \/ Finish \/ Prepare \/ Key \/ Unsay \/ ClearOut \/ PutBack
  \/ Run \/ Ran \/ Fail \/ Imprint \/ Outs \/ SaveEntry \/ Booked
  \/ Kill \/ Save \/ EditManifest \/ Edit \/ Clean

Spec == Init /\ [][Next]_vars

-----------------------------------------------------------------------------
(* Correctness.                                                            *)

\* What a task would write, had it and all it reads run just now.
Made ==
  LET made[t \in Tasks] ==
        <<"made", arg, FALSE,
          [i \in Inputs[t] |-> IF i = "src" THEN src.is ELSE [f \in {"own"} |-> made[i]]]>>
  IN  made

\* SPEC 7.6, Up-to-date checks and Cached tasks: a command that ended well
\* leaves the outputs a run of all its tasks would write, whichever of them
\* it found fresh or restored, after failures, changes undone and cleans, as
\* long as no run was killed and nothing saved behind one.
AsIfRun ==
  ended.result = "ok" /\ ~ended.extra /\ trial.sound =>
    \A t \in ToSet(ended.over) \cap Tasks : Checked(t) =>
      "own" \in DOMAIN out[t] /\ out[t]["own"].is = Made[t]

\* TASK_OUTPUT_CACHE.md 2: "Restoring an output must not delete a user's
\* file": no restore removes what the user wrote since the task last ran,
\* whatever was killed, failed or cleaned in between.
RestoreSparesEdits ==
  At("remove") => T \in InTarget \/ edits[T] \cap DOMAIN out[T] = {}

\* SPEC 7.6 Ordering: each task runs "at most once per invocation", and after
\* all it depends on, built-in commands with their hooks included.
OnceInOrder ==
  At("prepare") => /\ T \notin ToSet(job.over)
                   /\ ToSet(Graph.depends[T]) \subseteq ToSet(job.over)

\* TASK_OUTPUT_CACHE.md 2, "Never touch what jrs did not write": a file the
\* user put beside a task's outputs stays.
UsersFileStays == Idle => \A t \in mine : "mine" \in DOMAIN out[t]
=============================================================================
