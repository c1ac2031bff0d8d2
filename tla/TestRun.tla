------------------------------- MODULE TestRun -------------------------------
(***************************************************************************)
(* jrs test (cli/testing.rs: Session::test): what runs, what is recorded   *)
(* for the next run, and when a cached run stands for this one.  The class *)
(* directories may be rebuilt by another jrs while the tests run.          *)
(***************************************************************************)
EXTENDS TestImpact, Sequences, SequencesExt

CONSTANTS Holds,     \* Holds[f]: what file f can hold
          Order,     \* the top-level test classes, in name order
          Trials     \* bounds: the settings of a history, and what may happen how often

VARIABLES
  now,       \* the class directories, and the settings
  record,    \* target/.jrs/test.tested: the files, and the classes pending
  entries,   \* the build cache: the runs that passed
  job,       \* the command that runs
  verdict,   \* how the last one ended, if nothing was touched since
  passed,    \* passed[t]: the files t last ran on, if it passed at once, and the
             \* classes no test reached then nor at any command since
  trial      \* what may still happen (chosen in Init)

vars == <<now, record, entries, job, verdict, passed, trial>>

Files == Classes \cup Others

ASSUME TestRunAssumption ==
  Trials \subseteq [start : [Files -> UNION {Holds[f] : f \in Files}],
                   shard : Nat, shards : Nat \ {0}, forks : Nat \ {0}, crashes : Nat,
                   retries : BOOLEAN, failFast : BOOLEAN,
                   kills : Nat, changes : Nat, commands : Nat]

NoJob == [at |-> "idle"]
Never == <<>>

Init ==
  /\ trial \in Trials
  /\ now = trial.start
  /\ record = NoRecord /\ entries = {}
  /\ job = NoJob /\ verdict = Never
  /\ passed = [t \in ToSet(Order) |-> Never]

Spend(what) == trial[what] > 0 /\ trial' = [trial EXCEPT ![what] = @ - 1]
Idle == job.at = "idle"
Running == job.at = "running"

\* Shard::select: every n-th of the classes, in name order.
Mine(files) ==
  LET present == {i \in DOMAIN Order : Order[i] \in Tops(files)}
      dealt == {i \in present :
                  Cardinality(present \cap 1..i) % trial.shards = trial.shard % trial.shards}
  IN  {Order[i] : i \in dealt}

Passed == [files |-> job.files, loose |-> job.loose]
Recorded(files, pending) == [files |-> files, pending |-> pending]

-----------------------------------------------------------------------------
(* The command: select, restore, run.                                      *)

\* A change can reach a class another shard runs.
Selected(all) ==
  IF all \/ RunsAll(record, now) THEN Mine(now) ELSE Only(record, now) \cap Mine(now)

Ends(files, ran, result) ==
  /\ job' = NoJob
  /\ verdict' = [files |-> files, ran |-> ran, mine |-> job.mine, result |-> result]

\* The snapshot is taken before the tests run.  --all runs every class.
Select ==
  /\ Idle /\ Mine(now) # {} /\ Spend("commands")
  /\ \E all \in BOOLEAN :
       job' = [at |-> "selected", files |-> now, mine |-> Mine(now),
               selected |-> Selected(all),
               all |-> all, ranAll |-> all \/ RunsAll(record, now), loose |-> Loose(now)]
  /\ verdict' = Never
  /\ passed' = [t \in DOMAIN passed |->
       IF passed[t] = Never THEN Never ELSE [passed[t] EXCEPT !.loose = @ \cap job'.loose]]
  /\ UNCHANGED <<now, record, entries>>

NothingReached ==
  /\ job.at = "selected" /\ ~job.ranAll /\ job.selected = {}
  /\ record' = Recorded(job.files, {})
  /\ Ends(job.files, {}, "ok")
  /\ UNCHANGED <<now, entries, passed, trial>>

Key(files, mine) == [files |-> files, mine |-> mine]
Hit == ~job.all /\ Key(job.files, job.mine) \in entries
Goes == job.at = "selected" /\ (job.ranAll \/ job.selected # {})

\* A passing run of these very files stands for this one.
Restore ==
  /\ Goes /\ Hit
  /\ record' = Recorded(job.files, {})
  /\ passed' = [t \in DOMAIN passed |-> IF t \in job.mine THEN Passed ELSE passed[t]]
  /\ Ends(job.files, {}, "ok")
  /\ UNCHANGED <<now, entries, trial>>

Launch ==
  /\ Goes /\ ~Hit
  /\ job' = [job EXCEPT !.at = "running"]
  /\ UNCHANGED <<now, record, entries, verdict, passed, trial>>

-----------------------------------------------------------------------------
(* What the JVMs make of it, and what is recorded.                         *)

Results == {"passes", "flaky", "fails", "not run"}
Were(results, what) == {t \in DOMAIN results : results[t] = what}

\* The classes a crash takes with it, their reports too: those of a fork, or
\* all there are in a JVM of their own.
Forks == IF trial.forks = 1 THEN {job.selected} ELSE SUBSET job.selected \ {{}}

\* What fails is run again, and a run whose failures then pass is a success.
Passes(results, crashed) ==
  /\ Were(results, "fails") = {} /\ Were(results, "not run") \ crashed = {}
  /\ crashed = {} \/ Were(results, "flaky") # {}

\* --fail-fast, in one JVM and without retries, leaves what comes after the
\* first failure.
StoppedEarly(results, crashed) == Were(results, "not run") # crashed

\* What failed or passed only on a retry, by the reports; and otherwise all
\* that was to run.
Pending(results, crashed) ==
  LET unsettled == Were(results, "fails") \cup Were(results, "flaky")
      unknown == StoppedEarly(results, crashed) \/ unsettled = {}
  IN  IF ~Passes(results, crashed) /\ unknown THEN job.selected ELSE unsettled

\* Mutant of Keeps: a run that passed on a retry is kept.
KeepsFlaky(results, crashed) == Passes(results, crashed) /\ job.ranAll /\ ~job.all

\* store_tests: a whole run that passed at once.
Keeps(results, crashed) ==
  Passes(results, crashed) /\ job.ranAll /\ ~job.all /\ Were(results, "flaky") = {}

\* Mutant of Snapshot: the files as they are when the run is over.
SnapshotLate == now

Snapshot == job.files

Conclude ==
  /\ Running
  /\ \E results \in [job.selected -> Results], crashed \in Forks \cup {{}} :
       /\ \A t \in crashed : results[t] = "not run"
       /\ crashed # {} => trial.crashes > 0
       /\ Were(results, "flaky") # {} => trial.retries
       /\ StoppedEarly(results, crashed) =>
            trial.failFast /\ Were(results, "fails") # {} /\ Were(results, "flaky") = {}
       /\ trial' = [trial EXCEPT !.crashes = IF crashed = {} THEN @ ELSE @ - 1]
       /\ record' = Recorded(Snapshot, Pending(results, crashed))
       /\ entries' = IF Keeps(results, crashed)
                       THEN entries \cup {Key(job.files, job.mine)} ELSE entries
       /\ passed' = [t \in DOMAIN passed |->
            IF t \notin job.selected THEN passed[t]
            ELSE IF results[t] = "passes" THEN Passed
            ELSE IF results[t] = "not run" THEN passed[t] ELSE Never]
       /\ Ends(job.files, job.selected \ Were(results, "not run"),
               IF Passes(results, crashed) THEN "ok" ELSE "failed")
  /\ UNCHANGED now

\* The launcher does not start: every test runs next time.
Broken ==
  /\ Running
  /\ record' = NoRecord
  /\ Ends(job.files, {}, "failed")
  /\ UNCHANGED <<now, entries, passed, trial>>

-----------------------------------------------------------------------------
(* What happens around it.                                                 *)

\* A command that is killed records nothing, or half of it: what select
\* cannot parse is no record.
Kill ==
  /\ ~Idle /\ Spend("kills")
  /\ record' \in {record, NoRecord}
  /\ job' = NoJob /\ verdict' = Never
  /\ UNCHANGED <<now, entries, passed>>

\* A source, a resource or jrs.toml is changed and built, by this jrs or, while
\* the tests run, by another.
Rebuild ==
  /\ Spend("changes")
  /\ \E f \in Files : \E v \in Holds[f] \ {now[f]} : now' = [now EXCEPT ![f] = v]
  /\ verdict' = Never
  /\ UNCHANGED <<record, entries, job, passed>>

Next ==
  \/ Select \/ NothingReached \/ Restore \/ Launch \/ Conclude \/ Broken
  \/ Kill \/ Rebuild

Spec == Init /\ [][Next]_vars

-----------------------------------------------------------------------------
(* Correctness.                                                            *)

\* What t passed on is the same to it as files.
Stands(t, files) == passed[t] # Never /\ Alike(passed[t].files, files, t, passed[t].loose)

\* SPEC 10.2, "a skipped test that would have failed is a wrong result": when
\* jrs test ends well, every test class of the suite ran in it, or passed at
\* its last run on files that are the same to it, whatever was changed,
\* killed, flaky or stopped early before.
AsAFullRun ==
  verdict # Never /\ verdict.result = "ok" =>
    \A t \in verdict.mine \ verdict.ran : Stands(t, verdict.files)

\* SPEC 7.8, "Test entries": what is stored passed, every class of it at its
\* first attempt.  Checked as it is stored.
CachedRunsPassed ==
  [][\A e \in entries' \ entries :
       /\ verdict'.ran = e.mine
       /\ \A t \in e.mine : passed'[t] # Never /\ passed'[t].files = e.files]_vars
=============================================================================
