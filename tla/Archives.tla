------------------------------- MODULE Archives -------------------------------
(***************************************************************************)
(* The archives JVMs are started from (compile/share.rs): class-data       *)
(* archives ("jsa"), or AOT caches ("aot") on a JDK that has them, which   *)
(* the commands of a user share in <cache>/cds.  javac has one; the tests  *)
(* of a project have one for the dependencies they run with.               *)
(*                                                                         *)
(* A JVM writes into a temporary file when it exits, and jrs renames it    *)
(* into place; an AOT cache is assembled from that first, by a second JVM, *)
(* on a thread the command joins.  Commands run beside each other, are     *)
(* killed and leave files, and sweep those of others.  The workers' own    *)
(* archives go the same way once WorkerPool's recorder has exited.         *)
(***************************************************************************)
EXTENDS Naturals, FiniteSets

CONSTANTS Commands,  \* bound: what runs at a time
          Pids,      \* bound: process ids
          Javac,     \* what javac's archive is of
          Deps,      \* what a tests' archive is of: a classpath and its flags
          Trials     \* bounds: what runs, and what may happen how often

Kinds == {"edit", "whole", "fetch", "test"}
Archives == [of : {Javac} \cup Deps, kind : {"aot", "jsa"}]
Threads == Commands \X {"main", "aside"}

ASSUME ArchivesAssumption ==
  /\ Javac \notin Deps /\ 0 \notin Pids /\ Cardinality(Pids) > Cardinality(Commands)
  /\ \A t \in Trials : t.kinds \subseteq Kinds /\ t.deps \in Deps /\ t.aot \in BOOLEAN /\ t.vain \subseteq Deps

VARIABLES
  archives,    \* archives[a]: "none", or how it was written
  temps,       \* the temporary files, by name, and how far each is written
  seen,        \* who left the marker beside where javac's goes, or 0
  unassembled, \* whose AOT cache could not be assembled
  deps,        \* what the project's tests run with
  command,     \* what each command is, and whether it claimed javac's
  thread,      \* what a thread of a command does, and with which archive
  cut,         \* a command was killed before it removed what it replaced
  trial        \* what may still happen (chosen in Init)

markers == <<seen, unassembled>>
vars == <<archives, temps, markers, deps, command, thread, cut, trial>>

JavacArchive == [of |-> Javac, kind |-> IF trial.aot THEN "aot" ELSE "jsa"]
InPlace(a) == archives[a] # "none"
None == [pid |-> 0, kind |-> "edit", claimed |-> FALSE]
Off == [at |-> "off", archive |-> JavacArchive, ok |-> FALSE, old |-> {}]

Init ==
  /\ trial \in Trials
  /\ archives = [a \in Archives |-> "none"] /\ temps = [n \in {} |-> "empty"]
  /\ seen = 0 /\ unassembled = {} /\ deps = trial.deps /\ cut = FALSE
  /\ command = [c \in Commands |-> None]
  /\ thread = [t \in Threads |-> Off]

Spend(what) == trial[what] > 0 /\ trial' = [trial EXCEPT ![what] = @ - 1]
Goes(t, at) == thread' = [thread EXCEPT ![t].at = at]

-----------------------------------------------------------------------------
(* Temporary files.                                                        *)

\* Mutant of TempName: it does not name the process.
TempNameAlike(c, a, what) == <<a, 0, what>>
TempName(c, a, what) == <<a, command[c].pid, what>>
Dump(t) == TempName(t[1], thread[t].archive, "dump")
Cache(t) == TempName(t[1], thread[t].archive, "cache")
FilesOf(t) == CASE thread[t].at \in {"jvm", "exit", "ended", "assemble"} -> {Dump(t)}
                [] thread[t].at \in {"create", "made"} -> {Dump(t), Cache(t)}
                [] OTHER -> {}
BeingWritten == {Dump(t) : t \in {u \in Threads : thread[u].at = "exit"}}
           \cup {Cache(t) : t \in {u \in Threads : thread[u].at = "create"}}

Written(n) == n \in DOMAIN temps /\ temps[n] # "empty"
Put(n, how) == [m \in DOMAIN temps \cup {n} |-> IF m = n THEN how ELSE temps[m]]
Drop(names) == [m \in DOMAIN temps \ names |-> temps[m]]

\* temporary(): what is a minute old is swept, of runs that were killed or,
\* when it takes that long, of one still going on; then a file is made.
Temporary(n) ==
  \E old \in SUBSET {m \in DOMAIN temps : m[1] = n[1] /\ m \notin BeingWritten} :
    /\ IF old \cap UNION {FilesOf(t) : t \in Threads} # {} THEN Spend("slow") ELSE UNCHANGED trial
    /\ temps' = [m \in (DOMAIN temps \ old) \cup {n} |-> IF m = n THEN "empty" ELSE temps[m]]

-----------------------------------------------------------------------------
(* Which run maps an archive, and which records one.                       *)

\* A process id no command has, and is not used again while a marker names it.
Begin(c) ==
  /\ \A t \in {c} \X {"main", "aside"} : thread[t].at = "off"
  /\ LET free == Pids \ ({seen} \cup {command[d].pid : d \in Commands}) IN
     \E kind \in trial.kinds, p \in free :
       /\ \A q \in free : p <= q     \* which one makes no difference
       /\ command' = [command EXCEPT ![c] = [pid |-> p, kind |-> kind, claimed |-> FALSE]]
       /\ Goes(<<c, "main">>, IF kind = "test" THEN "tests" ELSE "train")
  /\ UNCHANGED <<archives, temps, markers, deps, cut, trial>>

\* train_javac: by the first command that looks, or by jrs fetch, on a thread
\* of its own; for_javac: by a compile of a whole unit in a later one.  Each
\* command records it once (claim).
MayTrain(c, looked) == (~looked \/ command[c].kind = "fetch") /\ ~command[c].claimed
MayRecord(c, looked) == looked /\ command[c].kind = "whole" /\ ~command[c].claimed

AfterTraining(c) == IF command[c].kind = "fetch" THEN "done" ELSE "look"

Record(c) ==
  /\ command' = [command EXCEPT ![c].claimed = TRUE]
  /\ Temporary(TempName(c, JavacArchive, "dump"))

Train(c, looked) ==
  IF MayTrain(c, looked)
  THEN /\ Record(c)
       /\ thread' = [thread EXCEPT ![<<c, "main">>].at = AfterTraining(c),
                                   ![<<c, "aside">>].at = "jvm", ![<<c, "aside">>].archive = JavacArchive]
  ELSE Goes(<<c, "main">>, AfterTraining(c)) /\ UNCHANGED <<command, temps, trial>>

ForJavac(c, looked) ==
  IF MayRecord(c, looked)
  THEN /\ Record(c)
       /\ thread' = [thread EXCEPT ![<<c, "main">>].at = "jvm", ![<<c, "main">>].archive = JavacArchive]
  ELSE Goes(<<c, "main">>, "done") /\ UNCHANGED <<command, temps, trial>>

\* Either of them, of an archive that is not there: another command's marker
\* says that one looked before (seen_before).
LookFor(c) ==
  LET t == <<c, "main">> IN
  /\ thread[t].at \in {"train", "look"}
  /\ IF InPlace(JavacArchive)
     THEN /\ Goes(t, IF thread[t].at = "train" THEN AfterTraining(c) ELSE "done")
          /\ UNCHANGED <<command, temps, trial>>
     ELSE IF seen = 0
     THEN /\ Goes(t, IF thread[t].at = "train" THEN "markTrain" ELSE "markLook")
          /\ UNCHANGED <<command, temps, trial>>
     ELSE IF thread[t].at = "train" THEN Train(c, seen # command[c].pid)
                                    ELSE ForJavac(c, seen # command[c].pid)
  /\ UNCHANGED <<archives, markers, deps, cut>>

\* There was no marker: this command leaves one.
Mark(c) ==
  /\ seen' = command[c].pid
  /\ \/ thread[<<c, "main">>].at = "markTrain" /\ Train(c, FALSE)
     \/ thread[<<c, "main">>].at = "markLook" /\ ForJavac(c, FALSE)
  /\ UNCHANGED <<archives, unassembled, deps, cut>>

\* for_tests: the AOT cache, unless it could not be assembled before; then
\* the archive that stands in for it.
TestsArchive ==
  LET cache == [of |-> deps, kind |-> "aot"]
  IN  IF trial.aot /\ (InPlace(cache) \/ deps \notin unassembled)
      THEN cache ELSE [of |-> deps, kind |-> "jsa"]

ForTests(c) ==
  LET t == <<c, "main">> IN
  /\ thread[t].at = "tests"
  /\ IF InPlace(TestsArchive)
     THEN Goes(t, "done") /\ UNCHANGED <<temps, trial>>
     ELSE /\ thread' = [thread EXCEPT ![t].at = "jvm", ![t].archive = TestsArchive]
          /\ Temporary(TempName(c, TestsArchive, "dump"))
  /\ UNCHANGED <<archives, markers, deps, command, cut>>

-----------------------------------------------------------------------------
(* The run that records, and what becomes of what it wrote.                *)

\* The JVM did its work and writes; or it fails, or was never started.
Exit(t) ==
  /\ thread[t].at = "jvm"
  /\ \/ /\ Goes(t, "exit") /\ temps' = Put(Dump(t), "torn") /\ UNCHANGED trial
     \/ /\ Spend("faults") /\ UNCHANGED temps
        /\ thread' = [thread EXCEPT ![t].at = "ended", ![t].ok = FALSE]
  /\ UNCHANGED <<archives, markers, deps, command, cut>>

\* It wrote all of it, and its compile ended well or not; or it died writing.
\* A test run counts that got as far as its tests.
Ended(t) ==
  /\ thread[t].at = "exit"
  /\ \/ /\ temps' = Put(Dump(t), "whole")
        /\ thread' = [thread EXCEPT ![t].at = "ended", ![t].ok = TRUE]
        /\ UNCHANGED trial
     \/ /\ Spend("faults")
        /\ temps' \in {temps, Put(Dump(t), "whole")}
        /\ thread' = [thread EXCEPT ![t].at = "ended", ![t].ok = thread[t].archive.of # Javac]
  /\ UNCHANGED <<archives, markers, deps, command, cut>>

Keeps(t) == thread[t].ok /\ Written(Dump(t))

\* finish and settle: a class-data archive is renamed into place, an AOT
\* cache left to a thread beside; the rest is dropped.
Settle(t) ==
  /\ thread[t].at = "ended"
  /\ IF ~Keeps(t)
     THEN Goes(t, "done") /\ temps' = Drop({Dump(t)}) /\ UNCHANGED archives
     ELSE IF thread[t].archive.kind = "jsa"
     THEN /\ archives' = [archives EXCEPT ![thread[t].archive] = temps[Dump(t)]]
          /\ temps' = Drop({Dump(t)}) /\ Goes(t, "placed")
     ELSE /\ thread' = [thread EXCEPT ![t] = [Off EXCEPT !.at = "done"],
                                      ![<<t[1], "aside">>] = [thread[t] EXCEPT !.at = "assemble"]]
          /\ UNCHANGED <<archives, temps>>
  /\ UNCHANGED <<markers, deps, command, cut, trial>>

\* Assemble::run, unless what was recorded was swept meanwhile.
Assemble(t) ==
  /\ thread[t].at = "assemble"
  /\ IF Written(Dump(t))
     THEN Temporary(Cache(t)) /\ Goes(t, "create")
     ELSE Goes(t, "done") /\ UNCHANGED <<temps, trial>>
  /\ UNCHANGED <<archives, markers, deps, command, cut>>

\* The JVM that makes it ends well, given all that was recorded and jars it
\* can be made for; or not.
Created(t) ==
  /\ thread[t].at = "create"
  /\ \/ /\ Dump(t) \in DOMAIN temps /\ temps[Dump(t)] = "whole"
        /\ thread[t].archive.of \notin trial.vain
        /\ temps' = Put(Cache(t), "whole")
        /\ thread' = [thread EXCEPT ![t].at = "made", ![t].ok = TRUE]
        /\ UNCHANGED trial
     \/ /\ IF /\ Dump(t) \in DOMAIN temps /\ temps[Dump(t)] = "whole"
              /\ thread[t].archive.of \notin trial.vain
           THEN Spend("faults") ELSE UNCHANGED trial
        /\ temps' = Put(Cache(t), "torn")
        /\ thread' = [thread EXCEPT ![t].at = "made", ![t].ok = FALSE]
  /\ UNCHANGED <<archives, markers, deps, command, cut>>

\* It is renamed into place; or a marker says that it cannot be assembled.
\* Mutant of Marked: it is not left.
MarkedNever(t) == unassembled
Marked(t) == unassembled \cup ({thread[t].archive.of} \ {Javac})

Made(t) ==
  /\ thread[t].at = "made"
  /\ temps' = Drop({Dump(t), Cache(t)})
  /\ IF thread[t].ok /\ Cache(t) \in DOMAIN temps
     THEN /\ archives' = [archives EXCEPT ![thread[t].archive] = temps[Cache(t)]]
          /\ Goes(t, "placed") /\ UNCHANGED unassembled
     ELSE Goes(t, "done") /\ unassembled' = Marked(t) /\ UNCHANGED archives
  /\ UNCHANGED <<seen, deps, command, cut, trial>>

\* What it replaces is looked for: the project's other archives, and, behind
\* an AOT cache, that others could not be assembled.
\* Mutant of Replaced: those of its own kind.
ReplacedAlike(a) == {b \in Archives : InPlace(b) /\ b.of \in Deps /\ b # a /\ b.kind = a.kind}
Replaced(a) == {b \in Archives : InPlace(b) /\ b.of \in Deps /\ b # a}

Placed(t) ==
  LET a == thread[t].archive IN
  /\ thread[t].at = "placed"
  /\ IF a.of = Javac
     THEN /\ seen' = 0 /\ Goes(t, "done") /\ UNCHANGED <<unassembled, cut>>
     ELSE /\ thread' = [thread EXCEPT ![t].at = "remove", ![t].old = Replaced(a)]
          /\ unassembled' = IF a.kind = "aot" THEN {} ELSE unassembled
          /\ cut' = FALSE /\ UNCHANGED seen
  /\ UNCHANGED <<archives, temps, deps, command, trial>>

Remove(t) ==
  /\ thread[t].at = "remove"
  /\ IF thread[t].old = {}
     THEN Goes(t, "done") /\ UNCHANGED archives
     ELSE \E b \in thread[t].old :
            /\ archives' = [archives EXCEPT ![b] = "none"]
            /\ thread' = [thread EXCEPT ![t].old = @ \ {b}]
  /\ UNCHANGED <<temps, markers, deps, command, cut, trial>>

Run(t) == \/ Exit(t) \/ Ended(t) \/ Settle(t) \/ Assemble(t) \/ Created(t)
          \/ Made(t) \/ Placed(t) \/ Remove(t)

Over(c) ==
  /\ thread' = [t \in Threads |-> IF t[1] = c THEN Off ELSE thread[t]]
  /\ command' = [command EXCEPT ![c] = None]

\* join_background, then the command ends.
Join(c) ==
  /\ thread[<<c, "main">>].at = "done" /\ thread[<<c, "aside">>].at \in {"off", "done"}
  /\ Over(c)
  /\ UNCHANGED <<archives, temps, markers, deps, cut, trial>>

Command(c) == \/ LookFor(c) \/ Mark(c) \/ ForTests(c) \/ Join(c)
              \/ \E w \in {"main", "aside"} : Run(<<c, w>>)

-----------------------------------------------------------------------------
(* Around them.                                                            *)

\* A command is killed, its JVMs with it.
Kill(c) ==
  /\ thread[<<c, "main">>].at # "off" /\ Spend("kills")
  /\ cut' = (cut \/ \E w \in {"main", "aside"} : thread[<<c, w>>].at \in {"placed", "remove"})
  /\ Over(c)
  /\ UNCHANGED <<archives, temps, markers, deps>>

\* Another branch, or an edit of the manifest.
Change ==
  /\ Spend("changes") /\ deps' \in Deps \ {deps}
  /\ UNCHANGED <<archives, temps, markers, command, thread, cut>>

Next == Change \/ \E c \in Commands : Begin(c) \/ Command(c) \/ Kill(c)

\* A command that was begun runs on, and its JVMs end.
Spec == Init /\ [][Next]_vars /\ \A c \in Commands : WF_vars(Command(c))

-----------------------------------------------------------------------------
(* Correctness.                                                            *)

\* share.rs, "jrs renames it into place once that run succeeded, so no run
\* maps a half-written archive": however recorders meet, are swept and die.
\* The tests' dynamic archive is promised less: their run counts as one that
\* succeeded once it ran tests, also when its JVM then died writing.
WholeArchives ==
  \A a \in Archives : archives[a] = "torn" => a.of # Javac /\ a.kind = "jsa"

\* share.rs, "one per project and suite ... writing a new one deletes the
\* older ones": two commands at once, with other dependencies or one archive
\* standing in for the other, leave no second one to stay.
OnePerProject ==
  (\A t \in Threads : thread[t].at \notin {"placed", "remove"}) /\ ~cut =>
    Cardinality({a \in Archives : InPlace(a) /\ a.of \in Deps}) <= 1

\* As long as whole units are compiled, or tests run, the archive they map is
\* there in the end: past runs that came to nothing or were killed, trainings
\* that are not tried again, and AOT caches that cannot be assembled.
MappedInTheEnd ==
  /\ ([]<>\E c \in Commands : command[c].kind = "whole" /\ thread[<<c, "main">>].at = "look")
       => <>[]InPlace(JavacArchive)
  /\ ([]<>\E c \in Commands : thread[<<c, "main">>].at = "tests") => <>[]InPlace(TestsArchive)
=============================================================================
