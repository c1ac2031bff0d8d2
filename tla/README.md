# Verification of jrs

jrs is a build tool for JVM projects written in Rust: it resolves and
downloads Maven dependencies, compiles Java, Kotlin and other JVM sources,
tests, packages and publishes, for one module or a workspace of many.  This
directory holds TLA+ models of the parts of it whose correctness depends on
order, concurrency, failure or persisted state, the TLC configurations that
check them, and TLAPS proofs of what matters most.

Paths below are relative to the repository root; the Rust code is under
`src/`.

## The system

| component | code | state it keeps | operations | what is hard |
|---|---|---|---|---|
| workspace driver | `src/cli/members.rs`, `src/workspace.rs` | sessions per member, gates, results | build order, upstream, shared resolution, members at once | threads finish in any order, output and errors must not |
| terminal | `src/ui/` | the renderer, the live region, a gate per member | permanent lines, hold, release, live scopes, suspend | a background thread draws while lines are printed |
| session | `src/cli/session.rs` | memoised steps of a command, a pending download thread | gather, two download waves, join, lockfile write, build steps | a background wave whose failure must surface, lockfile only when all is there |
| resolver | `src/resolve/mod.rs`, `pom.rs`, `coord.rs` | the walk's queue, chosen versions, exclusions | effective POMs, nearest-wins mediation, scopes, managed versions, ranges, the order of versions | determinism, cycles, fixpoint |
| repositories and cache | `src/resolve/repo.rs`, `cache.rs` | the artifact cache on disk, negative answers | fetch, retry, verify, store, prune | several processes, crash between steps, retry budget |
| lockfile | `src/lockfile.rs` | `jrs.lock` | read, check against the manifest, write | stale pins |
| compile unit | `src/compile/mod.rs` | classes, fingerprint file, build cache entry | stale check, clean, compile, stamp | crash between compile and stamp |
| incremental compile | `src/compile/incremental.rs`, `abi.rs` | an index of sources, classes, API hashes | rounds until nothing new is affected | missing a dependent |
| compiler workers | `src/compile/worker.rs` | pools of JVMs per kind | take, compile, put back, prime, recycle, retire | timeouts, late answers, stale workers, fallback |
| JVM archives | `src/compile/share.rs` | archives and claims on disk | claim, record, finish, use | one recorder, half-written archives |
| build cache | `src/build_cache.rs` | entries on disk and remote | key, load, save, prune | torn entries, verify mode |
| tasks | `src/task.rs`, `src/cli/tasks.rs` | freshness fingerprints, declared outputs | plan, run once, skip, restore from cache | staleness, clobbering files |
| tests | `src/test.rs`, `src/cli/testing.rs`, `src/compile/impact.rs` | recorded impact, results, retries | fork, shard, select, retry, fail fast | skipping a test that should run, killing forks |
| packaging | `src/package.rs`, `relocate.rs`, `dist.rs`, `image.rs`, `obfuscate.rs`, `native_image.rs` | archives in `target/` | merge, relocate, write | order of merged entries |
| publishing | `src/install.rs`, `sbom.rs` | the local repository | install, metadata update | read-modify-write of metadata |
| toolchain and processes | `src/toolchain.rs`, `src/runner.rs` | child processes | run, stop, kill after a grace | children left behind |
| watch | `src/cli/watch.rs`, `run --watch` | snapshot of files, the running program | poll, rebuild, restart | edits during a build |
| JDKs and self-update | `src/jdk.rs`, `src/selfupdate.rs`, `src/wrapper.rs` | installed JDKs, the binary itself | download, verify, unpack, swap | crash between steps |
| manifest, config, edit | `src/manifest/`, `src/config.rs`, `src/edit.rs` | `jrs.toml` | parse, validate, edit | text only |
| migrate | `src/migrate/` | none | read Maven, Gradle, sbt, Ant builds | pattern extraction |
| other commands | `src/audit.rs`, `tree`, `metadata`, completions, ... | none | report | formatting |

The components meet in the session: the driver opens one session per member,
a session resolves through the resolver (which fetches through the
repositories and the cache), joins the download waves before it compiles,
compiles through units that ask the build cache, the incremental compiler and
the workers in turn, and says what it does through the terminal.

What makes each part correct, in a line: members start behind what they need
and speak in build order; the build order is one, or the workspace is refused
for a circle it has; the resolved graph is the nearest requests', whatever the
walk did on its way; the cache holds only bytes that may be trusted and the
lock pins what was fetched; the classes are the ones a whole build would
write; a compile gets its own answer; a test or a task is skipped only when
running it would change nothing; an archive is whole before anything maps it;
and nothing waits for ever.

## Modules

| module | models | uses |
|---|---|---|
| `BuildLog` | what the terminal shows when one member is built after the other (`--jobs 1`, a plain loop): the abstract specification | |
| `Members` | `Driver::at_once_until`, `remaining_paths`, and the gates of `Ui::deferred` | `BuildLog` (refinement) |
| `MembersProofs` | theorems about `Members`: while the members run, what is shown and reported at the end, and that it implements `BuildLog` but for fairness | `Members` |
| `BuildOrder` | the depth-first walk that orders a workspace's members, or refuses it | |
| `Classpaths` | the classpaths, how two of them join, and what one carries on: pure operators | |
| `EffectivePom` | what published POMs come to: parents, properties, management, BOMs, dependencies: pure operators | |
| `Resolver` | the walk over POMs: mediation a level at a time, managed versions, exclusions, widening | `EffectivePom`, `Classpaths` |
| `Workspace` | one resolution for all members, and each member's share of it | `BuildOrder`, `Resolver` |
| `WorkspaceProofs` | theorems about the build order, which discharge what `Members` assumes of its graphs; about where the resolution puts packages; and about the comparison of versions | `Workspace`, `VersionOrder` |
| `VersionOrder` | how versions compare and what is picked by it: pure operators | |
| `Fetcher` | one artifact: which repository, look up, download, verify, store, snapshot records | |
| `Dependencies`, `DependenciesProofs` | a command's two waves of downloads, `jrs.lock`, the projects' record, `jrs cache prune`; and theorems about them | `Fetcher` |
| `Javac` | what the JDK's compiler makes of some sources against class files; external | |
| `Incremental` | what a round of a file-by-file compile changed, and whom it reaches: pure operators | `Javac` |
| `CompileUnit` | one Java unit: stale check, build cache, rounds, whole compile, fingerprint and index on disk | `Incremental` |
| `BuildProofs` | theorems about `CompileUnit`, from those about closures and javac they rest on; and about the `Watch` loop that repeats builds | `CompileUnit`, `Watch` (an instance) |
| `WorkerPool`, `WorkerPoolProofs` | the warm compilers of one command, who records a JVM archive, and the background threads a command waits for | |
| `Archives`, `ArchivesProofs` | the archives on disk that several commands record, assemble, put in place and replace | |
| `TaskPlan` | which tasks a command runs and in which order: pure operators | |
| `Tasks`, `TasksProofs` | running, skipping, restoring and storing tasks | `TaskPlan` |
| `TestImpact` | which test classes a change reaches: pure operators | |
| `TestRun`, `TestRunProofs` | selecting, restoring, running and recording a test run; and theorems about it | `TestImpact` |
| `WatchPromise` | what `--watch` promises, of the state that shows it | |
| `Watch` | the `--watch` loop, its pictures of the files, and stopping the program | `WatchPromise` |
| `MC...` | the instances TLC explores, one per specification with a run | |

No module declares a `RECURSIVE` operator; recursion is by recursive
functions, so that any of them can be proved about.  Most modules choose a
`trial` in `Init`: what a behaviour may do (which commands, whether the cache
is on) and how often each odd event may still happen in it.  One run then
covers several situations without multiplying them.

### Members

The main thread is `pc`: it closes the gates (`Hold`), prepares a session per
member and finds its JDK (`SetUp`; what that prints goes through the member's
own gate), then goes round its loop: start what is ready (`Start`), wait for a
result (`Settle`, `Receive`), move the head of the build order on and release
the gate it comes to (`Advance`).  After the loop it releases what finished
(`Flush`) and looks at the results in build order (`Collect`).  A member's
thread says its lines in two steps each, `TakeGate` and `WriteLine`, with the
gate's lock held between the two, and then sends its result.  What a member
will say and how its work ends is chosen in `Init`, so that no schedule can
depend on it.

`Release` in the code takes the gate's lock and then the renderer's;
`permanent` does the same in the same order, so that one lock in the model
stands for both.  The error path of `new_session` inside the loop is not
modelled: the graph it asks for is memoised by then and cannot fail.  One job
is not modelled either: the code then takes the sequential loop, which is
`BuildLog`.  A panic of a member's thread is outside the model.

### BuildOrder, Classpaths, EffectivePom, Resolver, Workspace

`BuildOrder` is `build_order`.  A depth-first walk looks for a cycle:
`VisitRoot` starts from the next declared member, `VisitModule` looks at a
module of the member on top of the stack and enters it or, if it is open,
stops with the cycle, `Leave` is done with a member, `NoCycle` ends the walk.
`Take` then takes the earliest declared member whose upstream members are all
taken (Kahn's algorithm) until none is left.

`EffectivePom` is `build_effective` and `pom::effective`.  A repository is a
function from coordinates to POMs as they are written, and `Effective` what
each readable one comes to: its `Line` of parents, cut where it closes; its
`Properties`, placeholders followed a few times (`Interpolated`); what it
manages itself (`Directly`) and what BOMs add (`Managed`); its dependencies
with that filled in (`Filled`), or the JVM artifact a Multiplatform root
stands for.  Placeholders are modelled in versions only.

`Resolver` goes through `at`: the manifest's own requests (`seed`), then level
by level the requests in their order (`mediate`), the POMs of what the level
admitted (`fetch`), which make the next level's requests; a package reached
again with fewer exclusions is walked again when the manifest is a
workspace's; at the end classpaths widen along the edges until nothing
changes, in any order, since the code goes over a hash map.  It reads what
`Effective` makes of the repository.  A version is a number there: the walk
asks only whether two are the same.  Kinds of artifact, classifiers and
snapshots are left out.

`VersionOrder` is `compare_versions`, with a version as the items `tokenize`
splits it into, and the picks made by it: the highest of a list (a JDK, a
JDK's build, an upgrade), the lowest one past the current in which an advisory
is fixed.

`Workspace` folds the members' declarations into one manifest (`Aggregate`),
resolves it, and projects it back (`UpstreamOf`, `ShareRoots`, `Share`).  The
properties say what the walk must come to without walking: `NearestWins` by
the order of all paths from the manifest, `LandsWhereRootsPutIt` by reachability,
`ShareKeepsAll` by what each member's own exclusions leave.

### Fetcher, Dependencies

A jar's bytes are the number of the build they are of, or `Junk`; so is its
checksum.  Each step of a fetch that touches the cache or asks a repository is
an action: `Look`, `Ask` (a snapshot's metadata), `Get`, `Check` (verify,
which evicts on a mismatch, then the pin), `Store`, `Note` (the snapshot's
record), `Sum`.  Retries of one request end in one outcome.  A repository is
its place in the order they are declared in: a fetch asks the least of those
that may answer (`Asked`), then the least of those after it (`Left`).

`Dependencies` runs commands of two projects on it: `Load` the lock (one that
does not parse ends the command), `Resolve`, `Locate` (what goes in which
wave), `FirstIn`, `Truncate` and `Fill` (the lock is written in place),
`Register` and `Record` (a read and a write of the projects' record),
`Compile`, `Join`, `Finish`.  `PruneStart`, `PruneKeep`, `PruneRemove`,
`PruneUnused` are `jrs cache prune`; around them commands are killed,
manifests edited, branches checked out with their locks, builds published, and
a day passes.

### Javac, Incremental, CompileUnit

A source is one version out of the texts `Content` gives it, and a content
hash is that version.  A text is what `compile/abi.rs` tells apart: header,
members (plain methods, bridges, others), constants, and what the text refers
to, calls, overrides and inlines.  `Javac` says which class file comes out, of
which versions of the other classes it is made, and which sources are
rejected; a failing run may have written the classes of any of the sources
that are sound.  What `Javac` assumes of the texts (`TextAssumption`): there are
finitely many sources, a text names other sources of the unit and not itself,
its bridges are not written in it but come out of compiling it, and two texts
of a source with the same header name the same supertypes, since a class file's
header carries them.

Each step of a build that reads or writes something on disk is an action, in
the order of the code: `Begin` (list, `is_stale`), `LookUp`, `Forget`,
`ForgetIndex`, `Extract`, `TakeStock` (restore), `Track`, `Sweep`, `Javac`,
`Record`, `Reach`, `Save` (recompile), `Clear`, `Create`, `JavacAll`,
`IndexAll` (whole compile), `Stamp`, `Store`.  Between any two of them a
source may be saved (`SaveSource`) and the build may be killed (`Crash`),
within the bounds; between builds come edits, deletions of class files and
evictions.

`Incremental` holds what the code computes between the steps: which classes
gained members or changed otherwise (`ChangesOf`), whether the comparison is
enough (`SafeToCompare`), who inherits, and who is reached.

Abstractions: one top-level class per source, plus the names of others it
declares; the unit's own classes only, so that the class directories of
upstream members, tracked by the same index, are left out; resources are left
out; a file's stat moves when its contents do (the code compares stats first
and hashes when they differ); sources are not added or deleted while a build
runs; class files of sources outside the round count as kept whenever they are
there.  Units the incremental compiler does not take (other languages,
annotation processors) and units without an index and `--verify-cache` are not
modelled.

### WorkerPool

Threads of members that compile (`pc[t]`) take the warmest idle worker of
their JDK, stopping the stale ones first, drain the answer to its prime, send
a numbered request and read an answer; anything wrong kills the worker and
forks the compile.  JVMs are processes of their own, with a queue of requests
and one of answers.  `Fail` makes one die, answer garbage or take too long; a
JVM that takes too long may still answer later.  A JVM started where no
archive is recorded claims the recording; it is stopped after its first
compile in a command that is not `--watch`, and its archive is put in place
only if it exited by itself.  `Retire`, `Drop` and `Join` are the end of the
command.

The kotlinc pool runs the same code on its own pool, and is not a second
instance.  `train` and `train_beside` (one worker each, nobody else near it)
and the building of the worker program are left out.  A worker's clock is
left out: whenever an answer is not there the wait may have been too long,
but only of a JVM that `Fail` has made hang.

### Archives

`Archives` is what `WorkerPool` leaves out of `compile/share.rs`: the files.
An archive is `"none"`, or how what was renamed there had been written, whole
or torn; a temporary file carries its archive, the process id and whether it
is a dump or a cache.  A command's main thread looks for what its kind of work
maps (`LookFor`, `Mark`: javac's archive and the `seen` marker; `ForTests`);
the JVM that records goes through `Exit`, `Ended`, `Settle`, an AOT cache on
a second thread through `Assemble`, `Created`, `Made`; `Placed` and `Remove`
take what it replaces away.  `Temporary` sweeps what is a minute old, which a
killed run left or, when `slow` allows it, one that goes on.  Commands begin,
are killed and reuse process ids, and the project's dependencies change.  What
goes into a key, and whether a JDK can have archives, are not modelled.

### TaskPlan, Tasks

`Plan` is `task::plan` over tasks and built-in commands; a graph with a cycle
starts no command.  A command keeps a list of what is still to do (`todo`):
`Step` takes the next task, `Open` unfolds a built-in command into its hooks.
One task is `Prepare` (fingerprint and freshness), `Key`, then either
`Unsay`, `ClearOut`, `PutBack` (a restore: nothing may say the outputs are
current until they are) or `Run`, `Ran` or `Fail`; then the books one file
after the other, `Imprint`, `Outs`, `SaveEntry`.  A task writes one file, made
of its argument and of what it read as it started; the user writes into the
same directories and beside.

### TestImpact, TestRun

The class directories are a function from class files to what they refer to.
`TestImpact` is `compile/impact.rs`: what a change reaches (`Only`), and what
it does not explain (`Unclear`).  Beside it stands what the outcome of a test
may depend on (`Sees`), which the property uses and the code never computes.

`TestRun` is `Select` (snapshot first), `NothingReached`, `Restore`, `Launch`,
`Conclude` (every outcome of every class, a crashed fork among them),
`Broken`; `Rebuild` may come between any two of them, `Kill` too.  A test's record keeps
the files it reached and the `loose` classes, those no test reached; of a
class that some test reaches the property says nothing for a test that loads
it by name as well, since the code runs only the tests that reach it.

### Watch

`Open` reads the manifests, `Build` the sources, `Generate` is a task writing
into a watched tree, `Built` may start the program, `Picture` is the first
look of `wait_for_change`, `Look` and `Settle` the later ones, `Ask` and
`Grace` are `toolchain::stop`.  A file is the number of times it was written.

## What is checked

| run | question | states |
|---|---|---|
| `members` | six graphs of four members, two jobs, every ending: order, gates, the error reported, termination, and that it implements `BuildLog` when all ends well | 206 thousand |
| `workspace` | every graph over three members; projects with diamonds, cycles, exclusions, managed and missing versions; parents, properties and BOMs; workspaces whose members exclude differently | 171 thousand |
| `dependencies` | one or two projects, three jars, two repositories: what is cached, pinned, repeatable offline, kept by a prune | 2.6 million |
| `compile_unit` | three sources, edits and reverts, cache, restores killed half-way; and saves under a build killed at any step | 1.2 million |
| `worker_pool` | two members, two compiles each, two kinds of command, one fault | 947 thousand |
| `archives` | two commands at a time, javac's archive and two sets of dependencies, failures, kills, slow runs | 1.1 million |
| `tasks` | three tasks in four graphs: fresh, restored or run, failed, killed, cleaned, edited | 1.3 million |
| `tests` | three test classes and what they reach: selection, retries, fail-fast, shards, forks, the cache of runs | 399 thousand |
| `watch` | one source tree, two manifests, both commands | 140 thousand |
| `compile_unit_killed`, `tasks_users_file`, `tests_fork_down` | expect a violation: see below | |

Every property of a passing run is also shown to fail when a definition is
changed as a plausible bug would change it; the changed forms stand beside
the definitions, each with a comment that says what is wrong with it.  The
`workspace` run also evaluates two assumptions over bounded inputs: of what a
line of POMs says of an artifact the nearest POM decides, whatever BOMs add;
and of plain releases the highest and the lowest are picked in whatever order
they are listed.

### Bounds, and why they are enough

* Members: two jobs make a member wait for a thread and for another member.
  Of the six graphs three have a head of the build order that is not the first
  to start, which takes four members; the others are leaves, a fork with a
  chain, and a leaf beside a chain.  A member says one line, enough for a
  release to fall between a look at the gate and the write; one may have a JDK
  line of its own.
* Workspace: three members list their modules in any order, which gives the
  walk every shape of cycle and diamond.  Four artifacts in up to two versions
  are enough for a version to be replaced by a nearer one after its children
  were walked, and for those children to exclude each other.  The sample of
  POMs is chosen by hand, crossed with declarations on every classpath.  For
  inheritance there are a parent and one above it, present, missing, or making
  a circle, and two BOMs one of which imports itself, the other, and one that
  nobody has; `MaxParents`, `MaxImports` and `MaxChained` are 3, 2 and 2
  where the code says 32, 8 and 8: a circle reaches each of them.
* Dependencies: a jar to compile against, one only to run with and a snapshot
  are the three the waves tell apart; an internal repository that claims a
  group and Central.  Five trials: a lock kept, lost and rewritten; a snapshot
  published anew; two projects, branches and prunes; two builds and a prune at
  once; two builds of a snapshot at once.
* CompileUnit: a supertype, a subtype and a user of both, whose texts differ
  in each way the comparison tells apart: a body, a new overload, a changed
  method, a constant, a field, another type in the file, a method gone.
  `Rounds` is two where the code says four: with three sources two rounds
  can leave a third still to reach, which is what the last round is for.
  Three edits allow a change, one back, and one more.  One trial is exact: it
  kills builds only while they restore, because a kill between rounds breaks
  the property (`compile_unit_killed`).  The other kills them at every step of
  a compile and saves sources under them, without cache and reverts, and is
  asked something weaker, for the reasons given below.
* WorkerPool: a JVM serves two compiles in a build and one in a watch session,
  so that it can go idle, be taken by the other thread, go stale and be
  replaced.  `MaxFaults` is one: any one failure at any point.  `MaxJvms` is
  enough for most compiles of a run to need a JVM of their own; past it a
  start fails, which the code handles as any failed start.
* Archives: two commands, and one process id more, so that a marker may name a
  command that is gone.  Each trial allows at most two odd events, on JDKs
  with and without AOT caches; of the two sets of dependencies one can never
  be assembled.
* Tasks: a cached generator in the source tree, a task that reads what it
  wrote, and one without inputs; chained, reached by two hooks, behind a build
  of its own, and in a cycle.
* TestRun: a main class a test reaches, one only a name refers to, a helper
  that finds classes; tests with a nested class and by the helper; one JVM,
  two, and two shards.  Three trials: whole runs, the first of two shards, and a
  test that refers to a helper from the start.
* Watch: three saves and one write of a task, manifests that may not parse.

### Fairness

Safety needs none.  `Members` assumes weak fairness of the main thread and of
every member's thread: each is an operating-system thread that waits only for
a lock held for the length of a write, or for a result.  `WorkerPool` assumes
it of the command's threads and of the background threads, of the exit of a
JVM whose input is closed, and of the answers of a JVM that does not hang; a
hung one never has to answer, since the code counts on its patience and not on
the JVM.  `Workspace` assumes that the one thread that loads and resolves goes
on.  `Watch` assumes it of the loop alone: its builds and tasks end; no file
has to be saved and no program has to exit.  `Archives` assumes that a command
that was begun runs on and its JVMs end; nobody has to begin one, so
`MappedInTheEnd` speaks of sessions in which such runs keep coming.
`CompileUnit`, `Dependencies`, `Tasks` and `TestRun` have no liveness property
and no fairness: each is a straight line of one command.

### Where the code and its words differ

Three runs expect a violation, each of one sentence in the repository:

* `compile_unit_killed`: a build killed in its second round has removed
  classes the index still speaks of; the next build ends well without them
  (`SPEC.md` 7.2, "the ones a whole build would write").  With another edit in
  between, that build fails although the sources compile.
* `tests_fork_down`: of several test JVMs one goes down without a report while
  another reports a failure; only the failure is pending, and a next run that
  selects it alone ends well (`src/cli/testing.rs:356`; `SPEC.md` 10.2).  With
  `test.retries` the run itself ends well (`:1021`).
* `tasks_users_file`: a file the user put beside a cached task's outputs is
  recorded as the task's by its next run, and a later restore of another entry
  removes it (`src/task.rs:876`; `specs/TASK_OUTPUT_CACHE.md` 2).

Met while modelling, without a run of their own.  Of `CompileUnit`, whose
`compile_unit` run is bounded, and `KindsOfTrials` supposes, so that they stay out:

* a source saved after the cache key was worked out and before javac read it
  is stored under the key of its earlier text (`compile/mod.rs:409`);
* the last round's run is compared with nothing, so a source saved before it
  is later compared with itself, and its users stay as they were
  (`incremental.rs:785`);
* an output directory emptied by hand, index in place: the build finds no
  source changed, ends well, and the directory stays empty
  (`incremental.rs:702`);
* a whole build killed while javac writes, and its edit undone: the earlier
  fingerprint and index match again and stand beside classes of the edit
  (`compile/mod.rs:550`);
* a source saved between the lookup in the cache and `Tracker::new`
  (`compile/mod.rs:383`): the new hash beside the restored, older class;
* a source saved during a build and set back before the next: the class of one
  text under the hash of the other.

Of the others:

* After a failure the JDK lines of a member that never started come out behind
  the lines of later members (`cli/members.rs:694` against the comment at
  `:511`).  `RanInBuildOrder` is of the members that ran.
* Where a member is reached both plainly and compile-only, what it passes on
  depends on which way comes first: its runtime-only modules are also compiled
  against if the compile-only way does, and are not otherwise
  (`workspace.rs:426`; `specs/WORKSPACES.md` 4.2 speaks of one way).
* Versions are not totally ordered: a number outranks a word and a missing item
  is a zero beside one and a release beside the other, so that
  1-sp1 > 1 = 1.0 > 1-sp1 (`WordsGoRound`; `resolve/coord.rs:614` tests that the
  order is total, over versions that do not show it).  The comment at `:449`
  has `1.0.0` and `1.0-ga` equal; the number makes the first newer.  What
  `max_by` picks of such a list depends on how it is listed.
* "Managed versions from nearer POMs win" (`resolve/pom.rs:424`) holds of what
  POMs manage themselves, not of what they import: imports are collected from
  the furthest ancestor inwards and the first to name an artifact keeps it, so
  that an ancestor's BOM beats the POM's own (`pom.rs:472`,
  `resolve/mod.rs:982`).  A POM's dependencies are its own only: those its
  parents declare are not inherited (`pom.rs:492`).
* A torn `jrs.lock` ends every command, `jrs update` too
  (`cli/session.rs:926`), which the message names as the way out
  (`lockfile.rs:216`).
* A fetch that finds a mismatch evicts the cached file, which may be another
  command's good one by then (`resolve/repo.rs:676`; the comment at `:648` says
  that it "deletes nothing").  The next fetch brings it back.  Of a snapshot
  that is due for a check it is the very copy `artifact` falls back on when the
  check fails (`:296`, "using the cached copy"): bytes damaged on their way
  end the command well with a jar on its classpath that is gone.
  `RepeatsOffline` speaks of the jars this cannot happen to (`Steady`: the
  releases, and the undamaged snapshots of repositories that name their builds).
* A task killed half-way leaves the fingerprint of its last success beside
  outputs of two runs (`task.rs:622`), and a task is stored under the key of
  its inputs before it ran (`cli/tasks.rs:239`); `AsIfRun` is asked of
  commands with nothing killed or saved behind one.
* A restored test run, and one that reached nothing, record nothing pending: a
  class that failed or was flaky in a `--all` run, which is not stored, is
  dropped by a later cached pass (`SPEC.md:2303`).  `AsAFullRun` holds, since
  the stored run passed on the same files.
* A class rebuilt while its test runs and put back before the next keeps the
  record of the earlier one; helper classes in the tests' directory count as
  tests, so a change of one selects it by itself.
* `--watch` takes its picture once the run is over (`cli/watch.rs:115`): a file
  saved behind the build that read it is in the picture and starts no run,
  against `watch.rs:20` and `SPEC.md:362`; the test of it waits half a second
  (`tests/build.rs:2048`).  The same choice keeps a generator from starting
  runs for ever (`RunsAfterSaves`), so that a repair has to give both.
* A workspace session with a member's manifest broken watches only the root
  manifest (`cli/members.rs:1224`, `:1265`), so that repairing the member's
  starts nothing (`SPEC.md:1114`).
* A test JVM that dies while it writes its dynamic archive, after its tests
  ran, has it put in place as it is (`compile/share.rs:13` against
  `cli/testing.rs:842`); `WholeArchives` leaves these out.  A torn recording of an AOT cache leaves
  the marker that it cannot be assembled, until the dependencies change.
* Two commands that place archives of different dependencies of one project at
  once may each remove the other's: `OnePerProject` is "at most one".

## What is proved

`MembersProofs` proves, for every number of members, of jobs, every graph in
build order and every course of the work:

| theorem | property |
|---|---|
| `TypeCorrect` | `TypeOK` |
| `UpstreamsFirst` | `UpstreamFirst` |
| `JobsBound` | `AtMostJobs` |
| `OneVoiceAtATime` | `OneVoice` |
| `LinesInOrder` | `RanInBuildOrder` |
| `FailureStops` | `NoStartAfterFailure` |
| `NothingIsHidden` | `NothingHidden` |
| `FirstErrorIsReported` | `FirstErrorWins` |
| `ShowsTheTranscript` | the safety half of `AsOneAfterTheOther`: each step maps to a step of `BuildLog` or to a stutter |

They rest on four assumptions, which TLC evaluates on every run: at least two
members and two jobs (the code takes another path with one), graphs in build
order, and natural numbers of lines.  `TypeOK`, `AtMostJobs`, `OneVoice` and
`NoStartAfterFailure` are in no run: the proof says more than TLC could.

None of the properties is inductive.  The invariant `IInv` adds to them:

* `Places`: a member is waiting, running or finished and its thread agrees; its
  result is in the channel at most once.  This is what makes "the result is
  received" say that the thread has ended, for `UpstreamFirst`, and what makes
  `running` count the threads at work, for `AtMostJobs`.
* `Gates`: up to the head gates are open, past it closed until the flush, and
  everything before the head is finished.  An open gate of a member at work is
  therefore the head's: `OneVoice`.
* `Buffers`: a closed gate keeps exactly the lines its member said, and none of
  them is on the terminal; with `Gates`, a release appends a whole transcript
  behind lines of earlier members only.
* `Lines`: until the results are collected the terminal is in order.  The
  members released then never started, which is the case the property leaves
  out.

`RanInBuildOrder` is proved from `Gates`, `Buffers` and `Lines` together, by
the three ways the terminal grows: a line through an open gate, the replay of
a gate, and the lines of a set-up.

`NothingIsHidden` and `FirstErrorIsReported` follow from `IInv` and what is added to it of the end of a
command: `Displayed` (a line stands once on the terminal, and an open gate
keeps none back), `Opened` (which gates the flush and the results have opened),
`Collected` (the error kept is the first in build order of those looked at) and
`Exhausted` (a member is still waiting only because one failed).

`ShowsTheTranscript` is about commands whose members all end well, as
`BuildLog` is.  The transcript it speaks of is flattened by a recursive
function of the library; that it is defined, and is every member's lines in
build order and nothing else, is an induction over the members (`SomeJoin`,
`FlatJoins`, `TranscriptIs`).  In every state the terminal's lines are among
them, in the same order, and leave no earlier one out: a line of a member is
there only when every earlier member is received, has said all it had to say
and has its gate open (`EarlierAreShown`).  Of two ordered sequences such a one
is a beginning of the other (`Beginning`), and no step takes a line away
(`ScreenGrows`).  To the invariant this adds what a member has left to say
(`Said`) and that the head, whenever the loop is not moving it, rests at a
member that is not received (`HeadRests`): with all members received at the end
of the loop it has passed the last one, and no gate is closed when the flush
begins (`AllBuilt`).

`WorkspaceProofs` proves of the walk over the members, for every workspace:

| theorem | property |
|---|---|
| `OrderTyped` | the stack, the marks and the order are well formed |
| `OrderIsBuildable` | `BuildableOrder`: a member of the order stands behind all it depends on |
| `RefusedForACycle` | `CycleIsReal`: a workspace is refused only for members that do depend on each other in a circle |

`StackInv` says that the open members are a path in the graph, `LookedInv` how
far each one's modules are looked at, `RootInv` that
no member before the next root is left out, `TakenInv` that the order has
nobody twice.  The hard part is that
Kahn's algorithm never gets stuck once no cycle was found: by `RankInv` a
member the walk has left depends only on members it has left, and can be given
a rank above theirs; when all are left, one of least rank among those not
taken is ready.  `OrderIsBuildable` is what `Members` assumes of its graphs.

And it proves of the resolution, for every repository of POMs with any cycles
among them, every manifest, number of artifacts and depth:

| theorem | property |
|---|---|
| `ResolveLands` | `LandsWhereRootsPutIt`, of one walk: a package is on the classpath that is compiled against, or the one the program runs with, exactly if a declaration that is there reaches it |
| `SpecLands` | the same of any workspace: what its members declare, folded into one manifest, is one the walk can be given |
| `SpecKeepsAll` | `ShareKeepsAll`: every member's share of the graph has what its own and its upstream members' declarations reach past their own exclusions, wherever they put it |
| `ResolveNearest` | `NearestWins`, of one walk that walks nothing again: every package has the version its first path asks for, the nearest and the earlier declared among the nearest |
| `SpecNearest` | the same of any project that is no workspace |

The invariant, `LandInv`, says that the classpath of a settled package, of one
whose POM is to be read and of one that is asked for is *justified*: for each
half of it, what is compiled against and what runs, there is a declaration with
that half which reaches the package, or the package that asks for it, along the
edges so far (`Just`).  Edges are only added, so nothing justified is undone,
whatever the order of the loop that widens.  The other way round, a declaration
is settled at least as wide as it was written, or still waits in the first
level (`RootsInv`), and at the end no edge widens anything (`PhaseInv`): the
packages on either half are then a set closed along the edges, and contain
whatever a declaration that is there reaches.  `PathIsReach` is the lemma
behind both directions, that the closure the property computes step by step is
the least closed set.

`ShareKeepsAll` compares two closures over the end of the walk: what a
declaration reaches past its own exclusions in the POMs (`Kept`), which collects
exclusions on the way, and what it reaches along the edges walked
(`ReachedFrom`), past its own ones only.  What relates them is an invariant of a
workspace's walk, `KeepInv`, which is about `walked`, the exclusions a package's
POM was walked past:

* of every settled package, its POM is still to be read past them (`ToRead`), or
  whatever it asks for past them is asked for, or is answered: there is an edge
  to it and it was itself walked past no more than is excluded on this path
  (`Passes`).  Reading a POM turns the first into the second (`ReadingAsks`),
  mediating a request the second into the third (`MediateKeeps`), and a walk
  past fewer exclusions takes the third back to the first;
* of every declaration of the aggregate, it still waits, or it was walked past no
  more than it excludes (`AskedInv`).

`walked` only shrinks, so an answer stays one.  At the end nothing waits, and the
pairs of a package and at least what it was walked past and the declaration
excludes are closed under what POMs ask for, so they contain the first closure
(`KeptIsReached`).  The rest is of the two ends: each declaration of a member is
in the aggregate with no more excluded (`AggregateCovers`), so that `Merged` has
to intersect; what a member's share starts from is somebody's declaration
(`ShareRootsAreDeclared`, from the typing of the queue in `UpstreamOf`, which
ends because classpaths only widen); and joining the classpaths of all roots is
at least each of them (`JoinedIsJoined`).

`NearestWins` is about all paths through the POMs, and the walk keeps none: a
request knows how deep it is, not along which declarations it came.  The
invariant, `NearestInv`, therefore says that there *is* a path for every settled
package and one for every request that waits (`Nearest`), each a list of the
places in the manifest and the POMs where the next step is declared, such that

* each is a path of the graph, and as long as the level is deep (`Origin`,
  `Along`, `PathsInv`); the requests of a level, and of the next, stand in the
  order `Before` of their paths;
* this level's requests come after everything settled (`LevelInv`), and the POMs
  still to be read stand in the order of their packages' paths, so that what
  they will ask for comes after what is asked for already (`ToReadInv`).  This is
  where the order of the queues matters, and why a package is read only
  after all of its level are mediated;
* whatever the POM of a settled package asks for, unless the POM is still to be
  read, waits along its path or is settled along one no later (`ReadInv`), and
  so does what the manifest asks for (`FirstInv`).

A package is settled by the first request for it, whose path comes before those
of all that wait (`NearestAdmits`), so one met again is settled along an earlier
path (`NearestMeets`); a POM read puts requests in their order behind the others
(`NearestWalks`, `ChildrenInOrder`); and a level's paths are all longer than
the last one's (`NearestGoesDown`).  At the end nothing waits, so by induction
over its length no path comes before the one its package is settled along
(`PathsComeNoLater`: `Before` is kept by one more step on both, `AtMostOneMore`);
and that one is among those the property looks at, up to as many steps as there
are packages, since with a path there is one of every shorter length
(`PathsAreShort`, `SettledIsAPath`).

Two proofs corrected the model.  `Longer`, the paths `NearestWins` is about, took
an artifact a POM lists twice, once for tests, for the edge of either; TLC has
such a POM now.  And `WorkspaceOK` left out that pins are of artifacts and BOMs
are coordinates.

`Induct`, that a set of numbers with 0 and every successor is all of them,
stands in for induction, and `SomeBeginning` for recursion: a recursive
function is unfolded by exhibiting one that satisfies its equation.  The
requests a POM makes (`ChildrenAreRequests`, `ChildrenInOrder`), the aggregate
manifest (`AggregateIsTyped`), what a POM manages (`ManagedIsTyped`) and the
paths are taken apart that way; `TailRecursion` does it once for the loops that
carry a state, `UpstreamOf` and `Line`.  The assumptions
are those of the constants: finitely many artifacts, and workspaces and
repositories of the shape the code reads.

`WorkerPoolProofs` proves all the safety properties of the warm compilers, for
any members, JDKs, commands, bounds on JVMs and on faults:

| theorem | property |
|---|---|
| `SpecOneOwner` | `OneOwner`: a JVM is idle, held by one compile of its JDK, or being stopped, and never two of these |
| `SpecOwnAnswer` | `OwnAnswer`: a compile returns what its own request came to, or forks |
| `SpecOneRecorder` | `OneRecorder`: an archive has one recorder per command, which outside `--watch` compiles once |
| `SpecArchiveFromGoodExit` | `ArchiveFromGoodExit`: an archive is assembled only for a JVM that compiled and exited by itself |
| `SpecNothingOutlives` | `NothingOutlives`: when the command is over no JVM runs and nothing is being assembled |

Their assumption, `PoolAssumption`, says what the constants are (the first
thread is one, bounds are numbers, a command has a JVM at least).  Beside the types (`Shape`) and where a
thread stands with or without a JVM (`Places`) the invariant says: a JVM alive
is in the pool, in a thread's hands or being stopped (`Owned`), so that none is
left when pool and threads have let go; a number no JVM has yet says nothing
(`Unborn`); one whose input is closed has compiled and is nobody's to send
anything to (`Leaving`); a recorder has claimed its archive, and whoever holds
one that has compiled is waiting for that compile (`Recorders`); and whatever
in a JVM's two pipes carries the number a thread waits for is that thread's
(`Answers`).  The last is the protocol: numbers only grow, so an answer to a
prime, or one that came after its patience was over, carries a number nobody
waits for.

`DependenciesProofs` proves the five properties of the downloads, the locks and
the prune, for any projects, manifests, jars, repositories, builds and bounds:

| theorem | property |
|---|---|
| `SpecTrustedBytes` | `TrustedBytes`: what is cached came from a repository that may answer for its group, and damaged bytes are never called verified |
| `SpecPinsEveryJar` | `PinsEveryJar`: a lock that parses pins every release of its graph |
| `SpecRepeatsOffline` | `RepeatsOffline`: the jars of a command that ended well are cached until they are pruned |
| `SpecPruneKeepsLocked` | `PruneKeepsLocked`: a prune keeps the jars of every lock a command ended well with |
| `SpecRecordIsOfTheFile` | `RecordIsOfTheFile`: a snapshot's record that names the current build is of the file beside it |

The first is of commands that overlap in any way; the others, as the runs ask
them, of commands that do not (`Alone`).  Two assumptions say what the
constants are: repositories are numbered as they are declared, graphs are of
jars, and a local or dated repository is one of them.  The invariant says

* of a fetch, whom it asks: a repository that may answer, with no earlier one
  that has the jar (`Asking`; the least element of a set of numbers, from the
  library's theorems of well-founded relations); that the name a snapshot goes
  by is of a build its repository came to serve, and its bytes of that name,
  damaged, or of no name (`Served`); that what it found or stored is still
  there, and a release that is in has a checksum (`Kept`); and that its name is
  not older than the one on record (`Filed`);
* of a jar, that a recorded build is no newer than what the first repository
  that has it serves (`Named`): a record can then name the current build only
  if nothing was published since, and `Current` is `RecordIsOfTheFile` again;
* of a command, that nothing is fetched before its waves begin (`Idle`), and
  which jars of its graph are in at which step (`Waves`): when the lock is
  filled there is no second wave any more and every jar has its checksum
  (`PinnedIn`), and when the command ends everything is in (`Repeats`);
* of a project, that it is in the record of projects before its command ends
  well (`Known`), so that a prune that read the record has it (`PruneInv`).

The proof found two things in the model and in the code.  `RecordIsOfTheFile`
has to allow for damaged bytes, which are stored and recorded when no checksum
can be read; and `RepeatsOffline` does not hold of every snapshot, for the
eviction described above.

`TestRunProofs` proves of the test command, for any classes, any files, and any
history of edits, kills, flaky tests and shards:

| theorem | property |
|---|---|
| `SpecTyped` | the job, the record and the stored runs are well formed |
| `SpecCachedRunsPassed` | `CachedRunsPassed`: a run is stored only if every class of the suite ran in it and passed on the files of its key |
| `SpecAsAFullRun` | `AsAFullRun`: when the command ends well, each class it left out passed at its last run on files that are the same to it |

The third is of histories in which no test JVM goes down while others go on
(`NoForkDies`): one fork, or no crash.  With several and a crash it is false, as
the run `tests_fork_down` shows.  The argument has two halves.  That a class
left out sees now what it saw when the record was made (`SkippedIsAlike`): the
walk of `impact.rs` comes to the least set closed under its edges
(`WalkIsLeast`), so that it reaches exactly the tests that use
a changed class (`ReachIsUse`).  And that it passed then: whatever is not
pending in the record stands (`RecordInv`), and whatever a job leaves out does
(`SkippedInv`); each of the ways a job ends hands the one to the other.  The
constants are assumed to be finite sets of classes and histories of numbers
(`ImpactAssumption`, `TestRunAssumption`).

`BuildProofs` proves the six properties of the build of a Java unit, for any
sources, any texts they may come to have, any settings and number of rounds:

| theorem | property |
|---|---|
| `BuildsAreWhole` | `AsAWholeBuild`: however a build came to its end, the classes are what compiling everything into an empty directory would give |
| `FailuresAreReal` | `GoodBuildsSucceed`: a build fails only if the sources as they are do not compile |
| `FreshOutputIsWhole` | `NeverFalselyFresh`: what the stale check takes for current is what the sources compile to |
| `EntriesAreOfTheirKey` | `EntriesMatchTheirKey`: an entry of the cache is what the inputs of its key compile to |
| `SavesAreSeen` | `NothingSavedIsMissed`: no class taken for current is of another text than its source has |
| `BodiesStayAlone` | `BodiesCompileAlone`, of exact trials: a change inside bodies compiles the changed sources alone |

They suppose that the trials are of one of two kinds (`KindsOfTrials`), wider than the
two the run has.  An *undisturbed* one has no saves under a build and no deleted
class files, and kills a build at most while it looks at what is there, restores
or stores; it may edit, revert, change settings, use and clean the cache, as
often as its bounds say.  A *forward* one may save, kill and delete anything
anywhere, without the cache and without earlier texts coming back; of it only
`NothingSavedIsMissed` says something.  That trials of neither kind break the
properties is no weakness of the proof: each of the ways listed under
`CompileUnit` above is one, and `compile_unit_killed` has TLC show the first.

The argument has three layers.

* Of the operators.  `Closure` comes to the least closed set
  (`ClosureIsLeast`), by paths no longer than there are sources.  Hence a class
  comes out the same in two worlds of class files that agree on what it sees:
  what lies above it (`SameAbove`, `SameHeaders`) and what it refers to
  (`ClassSame`).
* Of a round.  `Round` says of the sources that went in what they were and what
  they are.  Where the comparison is safe, whoever sees a change is among the
  dependents of a class that changed (`DependentsSuffice`), or among those who
  feel a method that was only added (`Unfelt`, `UsersOfAdditionSuffice`): what a
  round does not reach would come out as it is (`NotReached`).  And what javac
  rejects in a round it rejects in a whole build (`FailsWhole`).
* Of the disk.  `Right` is the invariant of undisturbed builds: the index is of
  some texts the sources had together and says what their classes showed in
  them (`Described`); the class files of entries that still count are those
  texts' (`Filed`); a cached entry is its key's (`CacheRight`).  During the
  rounds every class outside the round is of the *earlier* texts until the
  first round is over, and of the texts *as they are* from then on (`Against`),
  which is the step where comparing a class with its old entry would go wrong
  if any source had been left behind.  `Onward` is the invariant of forward
  builds and much weaker: no hash in an index is of a later text than its source
  has, and one that is of this text is of the class file too (`Dated`).  Both
  are inductive for any trial of their kind, and TLC finds `IInv` in all states
  of the `compile_unit` run.

The proof needed `TextAssumption`, which the texts of the run always met, and
brought one thing out: the invariant of the first round and that of later ones
differ, because the first compares with what was built before and the others
with this build.

The others have a few theorems each, for every value of the constants:

| module | theorem | property |
|---|---|---|
| `BuildProofs` | `OneProgramRuns` | `OneProgram`: the one before is stopped when another starts |
| `BuildProofs` | `OnlySavesRun` | `RunsAfterSaves`: what a task writes does not start a run |
| `TasksProofs` | `EditsAreSpared` | `RestoreSparesEdits`: a restore removes nothing the user wrote |
| `TasksProofs` | `SpecOnceInOrder` | `OnceInOrder`: each task of a command runs once, after all it depends on |
| `TasksProofs` | `SpecAsIfRun` | `AsIfRun`: a command that ends well leaves what a run of all its tasks would write |
| `ArchivesProofs` | `ArchivesAreWhole` | `WholeArchives`: no torn archive stands where it may be mapped, the tests' dynamic ones left out |
| `ArchivesProofs` | `OneArchiveStays` | `OnePerProject`: once nobody is replacing them, a project's tests have at most one archive in place |
| `WorkspaceProofs` | `ComparisonAgrees` | comparing the other way round gives the opposite answer |
| `WorkspaceProofs` | `ReleasesAreOrdered` | among releases written in numbers the comparison is an order |
| `WorkspaceProofs` | `WordsGoRound` | with words it is not |

`Watch` needs which program may run (`Programs`) and that, until something is
saved, the picture is of the files as they are, whatever its tasks wrote before
it was taken (`Reasons`).  `Tasks` needs that what anything on disk or in the
cache holds of the user's is no younger than the clock (`Aged`), so that a file
just written differs from every record of it (`Edited`), and that a command past
its look at the outputs has none of the user's among them (`Spared`).
The order of its tasks needs what a command has still to do (`Agenda`): what a
task to come depends on was run or comes before it (`Provided`), a built-in that
has begun comes to its end (`Begun`), and whatever comes before that end is
reached from it (`Within`).  So when a step is passed over because its built-in
has begun, no task that depends on it is waiting before that end: that would be
a cycle, which `find_cycle` refuses (`SkipGoesOn`).  Underneath are that
`find_cycle` reaches the least closed set (`ReachedIsLeast`), and that the
recursion of `plan` goes down in a graph without a cycle (`UnderExists`) and
orders what it is given (`PlanIsOrdered`).
`AsIfRun` needs what the books stand for.  A fingerprint goes with the inputs it
was taken of: files that have its times still hold what the task's output was
made of (`Tally`, `Printed`), since whatever changes has a time of its own; so a
task found fresh wrote what it would write now (`FreshIsCurrent`).  An entry of
the cache is what its key makes (`Stored`), and at each step of a task its books
are about to say what is so (`Working`).  What is over stays up to date while
another task writes, because all it reads is over as well (`OthersRead`, by the
order above).  The end of the command is then an induction over the graph, from
the tasks that read no other (`EndIsAsIf`), the same that shows that `Made` is
defined (`MadeExists`).  It is asked of sound trials (`Sound`): no kills, no
saves behind a run, no outputs written by hand, and a task that reads another's
outputs depends on it.
The constants are assumed to be finitely many tasks, apart from the built-ins,
in a graph of such nodes, and trials that are sound when they say so
(`TaskPlanAssumption`, `TasksAssumption`).
`Archives` needs that commands at work have different process ids (`Owners`)
and at most one thread with temporary files each (`OneAtATime`), so that nobody
else writes a temporary file of theirs, and that what a rename is about to put
in place is whole (`Wholes`).  For `OnePerProject` it needs that of any two
archives of a project in place one is on the list of somebody who is removing,
or somebody who just placed one has yet to look for the others (`Replaces`).

Only model-checked:

* everything temporal: `Terminates`, `EveryCompileEnds`, `Loads`, `NoticedIsRun`
  and `MappedInTheEnd` are liveness under fairness, outside the prover;
  of `AsOneAfterTheOther` only the fairness is left to TLC: that the terminal in
  the end shows all of the transcript;
* `BodiesCompileAlone` where saves and kills disturb the build (`trial.exact` is
  false): a killed round leaves an index that is of no texts the sources had
  together, which the invariant of undisturbed builds rules out.

## Plan

What would come next, in this order:

1. A repair of the snapshot's fallback: with `verify` deleting nothing, as its
   comment says, `RepeatsOffline` would be of every jar.
2. Class directories of upstream members in `CompileUnit`, and units of other
   languages.
3. The live region, and the swaps by rename of `jdk.rs`, `selfupdate.rs` and
   `install.rs`.

## Not modelled

The models stand for about a twelfth of the source lines, and most of the
rest is out of their reach rather than still to come.  A quarter of the
Rust code is its own tests.  Migration of other build tools (some fifteen thousand
lines), the parsing, validating and editing of manifests, POMs, configuration
and class files, the rendering of compiler command lines, and the reporting
commands keep no state beyond one call: what they do is the content of text,
which their tests fit better than models.  Packaging and publishing are
sequential writers of archives; the JDKs' and the binary's own installation is
one straight line each, of download, verify, unpack and rename, without a
retry or a second actor the code handles.  The live region of the terminal is
text redrawn at the next tick; the gates, where lines can be lost, are in
`Members`.

Within the modelled components: what upstream members' class directories bring
to an incremental compile, units of other languages, the remote build cache
and pruning of the local one, mirrors, credentials and the retries of one
request, the tests' filters and coverage, tasks of other members, training of
a worker by `jrs fetch`, and a panic of a thread.  `PROJECT.json` lists each
component with what is left out of it.

## Running

From this directory, with the TLA+ tools and the community modules at hand:

    tlc -workers 2 -config Members.cfg MCMembers.tla
    tlapm MembersProofs.tla

`PROJECT.json` lists every run with its module, configuration and properties,
the source lines each definition stands for, and the hazards each property is
for.
