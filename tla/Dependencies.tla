---------------------------- MODULE Dependencies ----------------------------
(***************************************************************************)
(* What a command does about its dependencies: Session::gather, download,  *)
(* join_dependencies (cli/session.rs), jrs.lock (lockfile.rs), the record  *)
(* of the projects that use the cache (resolve/cache.rs), and jrs cache    *)
(* prune (cli/cache.rs).                                                   *)
(*                                                                         *)
(* Each project runs one command after another; the commands of two        *)
(* projects, and a prune, run together or not (chosen in Init).  A build   *)
(* downloads the main compile's jars, starts the rest on a thread of its   *)
(* own, compiles, and joins that thread; the other commands download in    *)
(* one wave.  A fresh graph is pinned in jrs.lock once it is all there.    *)
(***************************************************************************)
EXTENDS Fetcher

CONSTANTS Graph,      \* Graph[m]: the jars manifest m resolves to
          Compiles,   \* the jars on the main compile's classpath
          Serving,    \* what the repositories may serve at first
          Trials      \* bounds: what may happen, and how much of it

Projects == Clients
Manifests == DOMAIN Graph
Kinds == {"build", "build offline", "fetch", "update"}

\* What may happen, and how often.
Bounds ==
  [together : BOOLEAN, projects : SUBSET Projects, of : [Projects -> Manifests],
   kinds : SUBSET Kinds, commands : Nat, failures : Nat, kills : Nat, edits : Nat,
   checkouts : Nat, publishes : Nat, days : Nat, prunes : Nat]

ASSUME DependenciesAssumption ==
  /\ \A m \in Manifests : Graph[m] \subseteq Jars
  /\ Compiles \subseteq Jars
  /\ Serving \subseteq [Repos -> [Jars -> 0..Builds]]
  /\ Trials \subseteq Bounds

VARIABLES
  manifest,   \* manifest[p]: what project p's jrs.toml declares
  lock,       \* lock[p]: its jrs.lock
  aside,      \* aside[p]: the jrs.lock of its other branch
  known,      \* the projects recorded in the cache
  job,        \* job[p]: the command running in p
  ended,      \* ended[p]: how p's last command ended, and with which jars
  owns,       \* owns[p]: its jrs.lock was there when a command ended well
  prune,      \* the jrs cache prune that runs
  trial       \* what may still happen (chosen in Init)

project == <<manifest, lock, aside>>
outcome == <<ended, owns>>
vars == <<fetcherVars, project, known, job, outcome, prune, trial>>

NoLock == [state |-> "none"]
TornLock == [state |-> "torn"]
NoJob == [at |-> "idle"]
NoEnd == [kind |-> "none", result |-> "none", jars |-> {}]
NoPrune == [at |-> "idle"]

Init ==
  /\ served \in Serving
  /\ cache = <<>>
  /\ record = [j \in Jars |-> NoRecord]
  /\ fetch = [p \in Projects |-> [j \in Jars |-> NoFetch]]
  /\ lock = [p \in Projects |-> NoLock] /\ aside = [p \in Projects |-> NoLock]
  /\ known = {}
  /\ job = [p \in Projects |-> NoJob]
  /\ ended = [p \in Projects |-> NoEnd] /\ owns = [p \in Projects |-> FALSE]
  /\ prune = NoPrune
  /\ trial \in Trials
  /\ manifest = trial.of

Running(p) == job[p].at # "idle"
Quiet == prune = NoPrune /\ \A p \in Projects : ~Running(p)
MayStart == trial.together \/ Quiet
Spend(what) == trial[what] > 0 /\ trial' = [trial EXCEPT ![what] = @ - 1]

Is(p, step) == job[p].at = step
Jump(p, step) == job' = [job EXCEPT ![p].at = step]
Wanted(p) == Graph[job[p].of]

\* The command is over; what it was still downloading ends with it.
End(p, result) ==
  /\ job' = [job EXCEPT ![p] = NoJob]
  /\ ended' = [ended EXCEPT ![p] =
                 [kind |-> job[p].kind, result |-> result, jars |-> Wanted(p)]]
  /\ owns' = [owns EXCEPT ![p] = @ \/ (result = "ok" /\ lock[p].state = "whole")]
  /\ fetch' = [fetch EXCEPT ![p] = [j \in Jars |-> NoFetch]]

-----------------------------------------------------------------------------
(* Session::gather and download.                                           *)

\* jrs build, --offline or not; jrs fetch and the other commands that do not
\* compile; jrs update.
Command(p) ==
  /\ p \in trial.projects /\ ~Running(p) /\ MayStart /\ Spend("commands")
  /\ \E kind \in trial.kinds :
       job' = [job EXCEPT ![p] =
                 [at |-> "load", kind |-> kind, of |-> manifest[p], fresh |-> FALSE,
                  pins |-> [j \in Jars |-> NoSum], second |-> {}, next |-> "register",
                  known |-> {}]]
  /\ UNCHANGED <<fetcherVars, project, known, outcome, prune>>

\* Lockfile::matches.
Matches(p) == lock[p].state = "whole" /\ lock[p].of = job[p].of

\* Lockfile::load first of all: one that does not parse ends the command.  A
\* lock that matches gives the graph with its pins.
Load(p) ==
  /\ Is(p, "load")
  /\ IF lock[p] = TornLock
     THEN End(p, "unreadable lock")
     ELSE /\ IF Matches(p) /\ job[p].kind # "update"
             THEN job' = [job EXCEPT ![p].at = "locate", ![p].pins = lock[p].sums]
             ELSE job' = [job EXCEPT ![p].at = "resolve", ![p].fresh = TRUE]
          /\ UNCHANGED <<outcome, fetch>>
  /\ UNCHANGED <<served, cache, record, project, known, prune, trial>>

\* Otherwise the graph is resolved anew, or cannot be.
Resolve(p) ==
  /\ Is(p, "resolve")
  /\ \/ Jump(p, "locate") /\ UNCHANGED <<outcome, fetch, trial>>
     \/ Spend("failures") /\ End(p, "failed")
  /\ UNCHANGED <<served, cache, record, project, known, prune>>

Offline(p) == job[p].kind = "build offline"
Start(p, jars) ==
  [j \in Jars |-> IF j \in jars
                  THEN Begin(j, job[p].pins[j], Offline(p), job[p].kind = "update")
                  ELSE fetch[p][j]]

\* download: a build with jars to fetch off the main compile's classpath
\* leaves all of those for a second wave.
Locate(p) ==
  /\ Is(p, "locate")
  /\ LET later == (Wanted(p) \ Cached) \ Compiles
         second == IF job[p].kind = "build" /\ later # {} THEN Wanted(p) \ Compiles ELSE {} IN
       /\ job' = [job EXCEPT ![p].at = "first", ![p].second = second]
       /\ fetch' = [fetch EXCEPT ![p] = Start(p, Wanted(p) \ second)]
  /\ UNCHANGED <<served, cache, record, project, known, outcome, prune, trial>>

\* Mutant of LockNow: the lock is written with the second wave under way.
LockAtOnce(p) == job[p].fresh
LockNow(p) == job[p].fresh /\ job[p].second = {}

\* Mutant of Lost: what the second wave met is not looked at.
LostFirst(p, jars) == \E j \in jars \ job[p].second : fetch[p][j].at = "failed"
Lost(p, jars) == \E j \in jars : fetch[p][j].at = "failed"

\* The first wave is in, or one of its jars cannot be had.
FirstIn(p) ==
  /\ Is(p, "first") /\ \A j \in Wanted(p) \ job[p].second : Over(p, j)
  /\ IF Lost(p, Wanted(p) \ job[p].second) THEN End(p, "failed")
     ELSE /\ fetch' = [fetch EXCEPT ![p] = Start(p, job[p].second)]
          /\ Jump(p, IF LockNow(p) THEN "truncate" ELSE "register")
          /\ UNCHANGED outcome
  /\ UNCHANGED <<served, cache, record, project, known, prune, trial>>

\* write_lock writes jrs.lock in place: for a moment it is empty.
Truncate(p) ==
  /\ Is(p, "truncate")
  /\ lock' = [lock EXCEPT ![p] = TornLock]
  /\ Jump(p, "fill")
  /\ UNCHANGED <<fetcherVars, manifest, aside, known, outcome, prune, trial>>

Fill(p) ==
  /\ Is(p, "fill")
  /\ lock' = [lock EXCEPT ![p] =
       [state |-> "whole", of |-> job[p].of,
        sums |-> [j \in Jars |-> IF fetch[p][j].at = "in" THEN fetch[p][j].sum ELSE NoSum]]]
  /\ Jump(p, job[p].next)
  /\ UNCHANGED <<fetcherVars, manifest, aside, known, outcome, prune, trial>>

Registered(p) == IF job[p].kind \in {"build", "build offline"} THEN "compile" ELSE "end"

\* Mutant of Register: a project is recorded when its lock is written.
RegisterFresh(p) ==
  /\ Is(p, "register")
  /\ IF p \in known \/ ~job[p].fresh THEN Jump(p, Registered(p))
     ELSE job' = [job EXCEPT ![p].at = "record", ![p].known = known]
  /\ UNCHANGED <<fetcherVars, project, known, outcome, prune, trial>>

\* register_project reads the record of projects, and writes it back with
\* this one in it.
Register(p) ==
  /\ Is(p, "register")
  /\ IF p \in known THEN Jump(p, Registered(p))
     ELSE job' = [job EXCEPT ![p].at = "record", ![p].known = known]
  /\ UNCHANGED <<fetcherVars, project, known, outcome, prune, trial>>

Record(p) ==
  /\ Is(p, "record")
  /\ known' = job[p].known \cup {p}
  /\ Jump(p, Registered(p))
  /\ UNCHANGED <<fetcherVars, project, outcome, prune, trial>>

-----------------------------------------------------------------------------
(* The rest of a build: the compile, and the second wave behind it.        *)

\* The main compile succeeds or fails; a pre-compile task may want the whole
\* classpath before it.
Compile(p) ==
  /\ Is(p, "compile")
  /\ \/ /\ job' = [job EXCEPT ![p].at = IF job[p].second = {} THEN "end" ELSE "join",
                              ![p].next = "end"]
        /\ UNCHANGED <<outcome, fetch, trial>>
     \/ /\ job[p].second # {}
        /\ job' = [job EXCEPT ![p].at = "join", ![p].next = "compile"]
        /\ UNCHANGED <<outcome, fetch, trial>>
     \/ Spend("failures") /\ End(p, "failed")
  /\ UNCHANGED <<served, cache, record, project, known, prune>>

\* join_dependencies: what the second wave met is reported now, and a fresh
\* graph pinned.
Join(p) ==
  /\ Is(p, "join") /\ \A j \in job[p].second : Over(p, j)
  /\ IF Lost(p, job[p].second) THEN End(p, "failed")
     ELSE /\ job' = [job EXCEPT ![p].at = IF job[p].fresh THEN "truncate" ELSE job[p].next,
                                ![p].second = {}]
          /\ UNCHANGED <<outcome, fetch>>
  /\ UNCHANGED <<served, cache, record, project, known, prune, trial>>

Finish(p) ==
  /\ Is(p, "end") /\ End(p, "ok")
  /\ UNCHANGED <<served, cache, record, project, known, prune, trial>>

Download(p) == \E j \in Jars : /\ FetchStep(p, j)
                               /\ UNCHANGED <<project, known, job, outcome, prune, trial>>

Step(p) == \/ Load(p) \/ Resolve(p) \/ Locate(p) \/ FirstIn(p) \/ Truncate(p) \/ Fill(p)
           \/ Register(p) \/ Record(p) \/ Compile(p) \/ Join(p) \/ Finish(p)
           \/ Download(p)

-----------------------------------------------------------------------------
(* jrs cache prune, run from outside the projects.                         *)

PruneStart ==
  /\ prune = NoPrune /\ MayStart /\ Spend("prunes")
  /\ prune' = [at |-> "keep", known |-> known]
  /\ UNCHANGED <<fetcherVars, project, known, job, outcome>>

\* referenced: projects without a lock are forgotten; no project at all, or a
\* lock that does not parse, ends the prune.
PruneKeep ==
  /\ prune.at = "keep"
  /\ LET there == {p \in prune.known : lock[p].state # "none"} IN
       /\ known' = IF there = prune.known THEN known ELSE there
       /\ prune' = IF there = {} \/ \E p \in there : lock[p] = TornLock THEN NoPrune
                   ELSE [at |-> "remove", keep |-> UNION {Graph[lock[p].of] : p \in there}]
  /\ UNCHANGED <<fetcherVars, project, job, outcome, trial>>

\* prune_with: a jar goes with the record of its build.
RemoveAllBut(keep) ==
  /\ cache' = [j \in Cached \cap keep |-> cache[j]]
  /\ record' = [j \in Jars |-> IF j \in keep THEN record[j] ELSE NoRecord]
  /\ ended' = [p \in Projects |-> [ended[p] EXCEPT !.jars = @ \cap keep]]

PruneRemove ==
  /\ prune.at = "remove"
  /\ RemoveAllBut(prune.keep)
  /\ prune' = NoPrune
  /\ UNCHANGED <<served, fetch, project, known, job, owns, trial>>

\* jrs cache prune --unused-for: whatever was not used for long.
PruneUnused ==
  /\ prune = NoPrune /\ MayStart /\ Spend("prunes")
  /\ \E j \in Cached : RemoveAllBut(Jars \ {j})
  /\ UNCHANGED <<served, fetch, project, known, job, owns, prune>>

-----------------------------------------------------------------------------
(* Around the commands.                                                    *)

Kill(p) ==
  /\ Running(p) /\ Spend("kills") /\ End(p, "killed")
  /\ UNCHANGED <<served, cache, record, project, known, prune>>

Edit(p) ==
  /\ ~Running(p) /\ Spend("edits")
  /\ \E m \in Manifests \ {manifest[p]} : manifest' = [manifest EXCEPT ![p] = m]
  /\ UNCHANGED <<fetcherVars, lock, aside, known, job, outcome, prune>>

\* Another branch is checked out, with the jrs.lock it has, or without one.
Checkout(p) ==
  /\ ~Running(p) /\ Spend("checkouts")
  /\ lock' = [lock EXCEPT ![p] = aside[p]] /\ aside' = [aside EXCEPT ![p] = lock[p]]
  /\ owns' = [owns EXCEPT ![p] = FALSE]
  /\ UNCHANGED <<fetcherVars, manifest, known, job, ended, prune>>

\* A snapshot is published anew, or a release is replaced under its name.
Publish ==
  /\ Spend("publishes")
  /\ \E r \in Repos, j \in Jars :
       /\ served[r][j] \in 1..(Builds - 1)
       /\ served' = [served EXCEPT ![r][j] = @ + 1]
  /\ UNCHANGED <<cache, record, fetch, project, known, job, outcome, prune>>

\* What was checked is due for a check again.
Tomorrow ==
  /\ \E j \in Jars : record[j].fresh
  /\ Spend("days")
  /\ record' = [j \in Jars |-> [record[j] EXCEPT !.fresh = FALSE]]
  /\ UNCHANGED <<served, cache, fetch, project, known, job, outcome, prune>>

Next ==
  \/ \E p \in Projects : Command(p) \/ Step(p) \/ Kill(p) \/ Edit(p) \/ Checkout(p)
  \/ PruneStart \/ PruneKeep \/ PruneRemove \/ PruneUnused \/ Publish \/ Tomorrow

Spec == Init /\ [][Next]_vars

-----------------------------------------------------------------------------
(* Correctness.                                                            *)

\* A repository that lists groups answers for them alone, and alone for them.
MayAnswer(r, group) ==
  \/ group \in Claims[r]
  \/ Claims[r] = {} /\ \A q \in Repos : group \notin Claims[q]

\* resolve/repo.rs: what is cached came from a repository that may answer for
\* its group ("no other repository, Maven Central included, can answer"), and
\* bytes damaged on their way are there only when no checksum could be read:
\* however fetches of several projects meet, fail and are pruned behind.
TrustedBytes ==
  \A j \in Cached : /\ MayAnswer(cache[j].repo, Group[j])
                    /\ cache[j].verified => cache[j].build # Junk

\* SPEC 8.3: jrs.lock "is written only once every jar's checksum is known":
\* no command, whatever fails or is killed, leaves one with a jar unpinned.
PinsEveryJar ==
  ~trial.together =>
    \A p \in Projects : lock[p].state = "whole" =>
      \A j \in Graph[lock[p].of] \ Snapshots : lock[p].sums[j] # NoSum

\* The jars no checksum takes from a fetch that has a copy to fall back on:
\* the releases, and the snapshots whose builds are named and come in whole.
Steady == {j \in Jars : j \notin Snapshots \/ (j \notin Damaged /\ Asked(j) \subseteq Dated)}

\* A command that ended well had every jar of its graph, and leaves them
\* cached: an --offline build finds them all, until they are pruned.  Not so
\* of other snapshots: verify evicts the copy that artifact falls back on.
RepeatsOffline ==
  ~trial.together =>
    \A p \in Projects : ended[p].result = "ok" => ended[p].jars \cap Steady \subseteq Cached

\* SPEC 8.6: `jrs cache prune` "keeps what some project's jrs.lock names",
\* of every project whose command ended well with the lock it has.
PruneKeepsLocked ==
  ~trial.together /\ prune.at = "remove" =>
    \A p \in Projects : owns[p] /\ lock[p].state = "whole" =>
      Graph[lock[p].of] \subseteq prune.keep

\* repo.rs: "The build the cache holds is still the current one": a record
\* that names the build its repository has now is of the file beside it,
\* whatever was published, fell short or was killed since.  Damaged bytes
\* are kept, and recorded, when no checksum could be read.
RecordIsOfTheFile ==
  ~trial.together =>
    \A j \in Cached \cap Snapshots :
      record[j].build # Plain /\ record[j].build = served[record[j].repo][j]
      => cache[j].build \in {record[j].build, Junk}
=============================================================================
