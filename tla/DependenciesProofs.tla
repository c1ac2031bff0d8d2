------------------------- MODULE DependenciesProofs --------------------------
(***************************************************************************)
(* What the cache, the locks and the records of Dependencies keep for      *)
(* every number of projects, jars, repositories, builds and commands.      *)
(*                                                                         *)
(* The inductive invariant goes from a fetch outwards: whom it asks, what  *)
(* it was given, what of it is cached and what its name is worth (Asking,  *)
(* Served, Kept, Filed); what is cached and recorded of a jar (Named,      *)
(* Trusted, Current); which jars of a command's graph are under way or in, *)
(* and what its project's locks, its place in the record of projects and   *)
(* its last outcome are good for (Idle, Waves, PinnedIn, Known, Repeats).  *)
(* Commands that do not overlap (Alone) have more of it than those that    *)
(* do; a prune has what it read (PruneInv).                                *)
(***************************************************************************)
EXTENDS Dependencies, WellFoundedInduction, TLAPS

USE FetcherAssumption, DependenciesAssumption
    DEF FetcherAssumption, DependenciesAssumption, Projects

-----------------------------------------------------------------------------
(* The shape of the state.                                                 *)

Sums == 0..(Builds + 1)
Files == [build : 1..(Builds + 1), repo : Repos, verified : BOOLEAN]
Records == [build : 0..Builds, repo : Repos \cup {0}, fresh : BOOLEAN]
Fetches ==
  [at : {"look", "ask", "get", "check", "store", "note", "got", "in", "failed"},
   pin : Sums, offline : BOOLEAN, force : BOOLEAN, repo : Repos \cup {0},
   fallback : BOOLEAN, name : 0..Builds, build : Sums, verified : BOOLEAN, sum : Sums]
Locks == {NoLock, TornLock}
           \cup [state : {"whole"}, of : Manifests, sums : [Jars -> Sums]]
Jobs ==
  [at : {"load", "resolve", "locate", "first", "truncate", "fill", "register", "record",
         "compile", "join", "end"},
   kind : Kinds, of : Manifests, fresh : BOOLEAN, pins : [Jars -> Sums],
   second : SUBSET Jars, next : {"register", "compile", "end"}, known : SUBSET Projects]
Ends == [kind : Kinds \cup {"none"}, jars : SUBSET Jars,
         result : {"none", "ok", "failed", "killed", "unreadable lock"}]
Prunes == {NoPrune} \cup [at : {"keep"}, known : SUBSET Projects]
                    \cup [at : {"remove"}, keep : SUBSET Jars]

CacheOK ==
  /\ served \in [Repos -> [Jars -> 0..Builds]]
  /\ cache \in [Cached -> Files] /\ Cached \subseteq Jars
  /\ record \in [Jars -> Records]
FetchOK == fetch \in [Projects -> [Jars -> Fetches \cup {NoFetch}]]
ProjectOK ==
  /\ manifest \in [Projects -> Manifests]
  /\ lock \in [Projects -> Locks] /\ aside \in [Projects -> Locks]
  /\ known \subseteq Projects
  /\ job \in [Projects -> Jobs \cup {NoJob}]
  /\ ended \in [Projects -> Ends] /\ owns \in [Projects -> BOOLEAN]
  /\ prune \in Prunes
  /\ trial \in Bounds

TypeOK == CacheOK /\ FetchOK /\ ProjectOK

-----------------------------------------------------------------------------
(* A fetch.                                                                *)

\* The repository asked may answer, and none before it has the jar; bytes
\* that verified are not damaged; only a snapshot has a copy to fall back on.
Asking(c, j) ==
  /\ fetch[c][j].at \in {"ask", "get", "check", "store", "note"} =>
       /\ Repo(c, j) \in Asked(j)
       /\ \A q \in Asked(j) : q < Repo(c, j) => served[q][j] = 0
       /\ fetch[c][j].fallback => j \in Snapshots
  /\ At(c, j, "ask") \/ At(c, j, "note") => j \in Snapshots
  /\ At(c, j, "look") => fetch[c][j].name = Plain
  /\ At(c, j, "check") \/ At(c, j, "store") => fetch[c][j].build # 0
  /\ At(c, j, "store") /\ fetch[c][j].verified => fetch[c][j].build # Junk

\* A snapshot's name is that of a build its repository came to serve; it has
\* none where builds are not named; and the bytes are of that build.
Served(c, j) ==
  /\ fetch[c][j].at \in {"get", "check", "store", "note"} =>
       /\ fetch[c][j].name # Plain => /\ Repo(c, j) \in Dated
                                      /\ served[Repo(c, j)][j] # 0
                                      /\ fetch[c][j].name <= served[Repo(c, j)][j]
       /\ At(c, j, "get") \/ served[Repo(c, j)][j] # 0
       /\ j \in Snapshots /\ fetch[c][j].name = Plain =>
            Repo(c, j) \notin Dated \/ served[Repo(c, j)][j] = 0
  /\ fetch[c][j].at \in {"check", "store", "note"} =>
       \/ fetch[c][j].name = Plain /\ j \notin Steady \cap Snapshots
       \/ fetch[c][j].build = fetch[c][j].name
       \/ fetch[c][j].build = Junk /\ j \in Damaged

\* What a fetch found or stored is cached, and a release that is in has a
\* checksum.
Kept(c, j) ==
  /\ j \in Steady /\ fetch[c][j].at \in {"note", "got", "in"} => j \in Cached
  /\ fetch[c][j].at \in {"ask", "get", "check", "store"} =>
       /\ j \notin Snapshots => j \notin Cached
       /\ j \in Steady /\ fetch[c][j].fallback => j \in Cached
  /\ At(c, j, "in") /\ j \notin Snapshots => fetch[c][j].sum # NoSum

\* The name a snapshot's fetch goes by is not older than the build on record,
\* and the file it stored is of that name.
Filed(c, j) ==
  j \in Snapshots =>
    /\ fetch[c][j].at \in {"get", "check", "store", "note"} /\ served[Repo(c, j)][j] # 0 =>
         record[j].build <= fetch[c][j].name
    /\ At(c, j, "note") => j \in Cached /\ cache[j].build = fetch[c][j].build

FetchInv(c, j) == /\ Asking(c, j) /\ Served(c, j)
                  /\ ~trial.together => Kept(c, j) /\ Filed(c, j)

-----------------------------------------------------------------------------
(* A jar.                                                                  *)

\* A recorded build is one the first repository that has the snapshot came
\* to serve.
Named(j) ==
  record[j].build # Plain =>
    /\ record[j].repo \in Asked(j) \cap Dated
    /\ served[record[j].repo][j] # 0
    /\ record[j].build <= served[record[j].repo][j]
    /\ \A q \in Asked(j) : q < record[j].repo => served[q][j] = 0

\* TrustedBytes and RecordIsOfTheFile, of one jar.
Trusted(j) ==
  j \in Cached => /\ MayAnswer(cache[j].repo, Group[j])
                  /\ cache[j].verified => cache[j].build # Junk

Current(j) ==
  j \in Cached \cap Snapshots /\ record[j].build # Plain
    /\ record[j].build = served[record[j].repo][j]
  => cache[j].build \in {record[j].build, Junk}

JarInv(j) == Named(j) /\ Trusted(j) /\ (~trial.together => Current(j))

-----------------------------------------------------------------------------
(* A command, and its project.                                             *)

\* Nothing is fetched for a command that is over or has not begun to fetch.
Idle(p) == job[p].at \in {"idle", "load", "resolve", "locate"} =>
             \A j \in Jars : fetch[p][j] = NoFetch

\* A wave is in before the command goes on, and one that is left for later
\* has begun.
Waves(p) ==
  Running(p) =>
    /\ job[p].second # {} => job[p].kind = "build"
    /\ job[p].at \in {"load", "resolve", "locate", "truncate", "fill", "end"} =>
         job[p].second = {}
    /\ job[p].at \in {"load", "resolve", "locate", "first"} => job[p].next = "register"
    /\ Is(p, "first") => \A j \in Wanted(p) \ job[p].second : fetch[p][j] # NoFetch
    /\ job[p].at \in {"truncate", "fill", "register", "record", "compile", "join", "end"} =>
         /\ \A j \in Wanted(p) \ job[p].second : fetch[p][j].at = "in"
         /\ \A j \in job[p].second \cap Jars : fetch[p][j] # NoFetch

\* Commands that do not overlap.
Alone ==
  ~trial.together =>
    /\ \A p, q \in Projects : Running(p) /\ Running(q) => p = q
    /\ prune # NoPrune => \A p \in Projects : ~Running(p)

\* Every release has its checksum in a lock.
PinnedIn(l) ==
  l.state = "whole" => \A j \in Graph[l.of] \ Snapshots : l.sums[j] # NoSum

\* A project is recorded before its command ends well.
Known(p) ==
  /\ Is(p, "record") => job[p].known = known
  /\ job[p].at \in {"compile", "join", "end"} => p \in known
  /\ job[p].at \in {"truncate", "fill"} /\ job[p].next # "register" => p \in known
  /\ owns[p] => p \in known /\ lock[p].state # "none"

\* RepeatsOffline, of one project.
Repeats(p) == ended[p].result = "ok" => ended[p].jars \cap Steady \subseteq Cached

ProjectInv(p) ==
  /\ Idle(p) /\ Waves(p)
  /\ ~trial.together => /\ PinnedIn(lock[p]) /\ PinnedIn(aside[p])
                        /\ Known(p) /\ Repeats(p)

\* A prune has read the records there are.
PruneInv ==
  /\ ~trial.together /\ prune.at = "keep" => prune.known = known
  /\ PruneKeepsLocked

IInv ==
  /\ TypeOK
  /\ \A c \in Projects, j \in Jars : FetchInv(c, j)
  /\ \A j \in Jars : JarInv(j)
  /\ \A p \in Projects : ProjectInv(p)
  /\ Alone /\ PruneInv

-----------------------------------------------------------------------------
(* Lemmas about the operators.                                             *)

LEMMA Least ==
  ASSUME NEW S \in SUBSET Nat, S # {}
  PROVE  Min(S) \in S /\ \A m \in S : Min(S) <= m
<1>1. PICK r \in S : \A q \in S : ~(<<q, r>> \in OpToRel(<, Nat))
  BY NatLessThanWellFounded, WFMin
<1>2. ASSUME NEW q \in S PROVE r <= q
  <2>1. SUFFICES ASSUME q < r PROVE FALSE
    OBVIOUS
  <2>2. <<q, r>> \in OpToRel(<, Nat)
    BY <2>1 DEF OpToRel
  <2>3. QED BY <1>1, <2>2
<1>3. \E m \in S : \A n \in S : m <= n
  BY <1>2
<1>4. QED BY <1>3 DEF Min

\* Who is asked is who may answer.
LEMMA AskedMayAnswer ==
  ASSUME NEW j, NEW r
  PROVE  r \in Asked(j) <=> r \in Repos /\ MayAnswer(r, Group[j])
<1> DEFINE claimed == {q \in Repos : Group[j] \in Claims[q]}
<1>1. CASE claimed = {}
  <2>1. Asked(j) = {q \in Repos : Claims[q] = {}}
    BY <1>1 DEF Asked
  <2>2. \A q \in Repos : Group[j] \notin Claims[q]
    BY <1>1
  <2>3. QED BY <2>1, <2>2 DEF MayAnswer
<1>2. CASE claimed # {}
  <2>1. Asked(j) = claimed
    BY <1>2 DEF Asked
  <2>2. \E q \in Repos : Group[j] \in Claims[q]
    BY <1>2
  <2>3. \A q \in Repos : Group[j] \in Claims[q] => Claims[q] # {}
    OBVIOUS
  <2>4. QED BY <2>1, <2>2, <2>3 DEF MayAnswer
<1>3. QED BY <1>1, <1>2

LEMMA AskedRepos == \A j : Asked(j) \subseteq Repos
BY AskedMayAnswer

\* The first repository asked, and the one after each.
LEMMA FirstAsked ==
  ASSUME NEW j, Asked(j) # {}
  PROVE  Min(Asked(j)) \in Asked(j) /\ \A q \in Asked(j) : ~(q < Min(Asked(j)))
<1>1. Asked(j) \in SUBSET Nat
  BY AskedRepos
<1>2. Min(Asked(j)) \in Asked(j) /\ \A m \in Asked(j) : Min(Asked(j)) <= m
  BY <1>1, Least
<1>3. QED BY <1>1, <1>2

LEMMA NextAsked ==
  ASSUME NEW c, NEW j, Left(c, j) # {}, Repo(c, j) \in Asked(j)
  PROVE  /\ Min(Left(c, j)) \in Asked(j)
         /\ \A q \in Asked(j) : q < Min(Left(c, j)) => q = Repo(c, j) \/ q < Repo(c, j)
<1>1. Asked(j) \in SUBSET Nat /\ Left(c, j) \in SUBSET Nat
  BY AskedRepos DEF Left
<1>2. Min(Left(c, j)) \in Left(c, j) /\ \A m \in Left(c, j) : Min(Left(c, j)) <= m
  BY <1>1, Least
<1>3. Min(Left(c, j)) \in Asked(j)
  BY <1>2 DEF Left
<1>4. ASSUME NEW q \in Asked(j), q < Min(Left(c, j))
      PROVE  q = Repo(c, j) \/ q < Repo(c, j)
  <2>1. q \notin Left(c, j)
    BY <1>1, <1>2, <1>4
  <2>2. ~(q > Repo(c, j))
    BY <2>1 DEF Left
  <2>3. QED BY <1>1, <2>2
<1>5. QED BY <1>3, <1>4

LEMMA LockShapes ==
  ASSUME NEW l \in Locks
  PROVE  /\ l = TornLock <=> l.state = "torn"
         /\ l = NoLock <=> l.state = "none"
         /\ l.state \in {"none", "torn", "whole"}
         /\ l.state = "whole" => l \in [state : {"whole"}, of : Manifests, sums : [Jars -> Sums]]
BY DEF Locks, NoLock, TornLock

LEMMA JobShapes ==
  ASSUME ProjectOK, NEW p \in Projects
  PROVE  /\ Running(p) <=> job[p] \in Jobs
         /\ ~Running(p) <=> job[p] = NoJob
         /\ job[p].at # "idle" => job[p] \in Jobs
BY DEF ProjectOK, Jobs, NoJob, Running

LEMMA Spent ==
  ASSUME trial \in Bounds, NEW what \in {"commands", "failures", "kills", "edits",
           "checkouts", "publishes", "days", "prunes"}, Spend(what)
  PROVE  trial' \in Bounds /\ trial'.together = trial.together
BY DEF Spend, Bounds

LEMMA WantedJars ==
  ASSUME ProjectOK, NEW p \in Projects, Running(p)
  PROVE  Wanted(p) \subseteq Jars /\ job[p].of \in Manifests
<1>1. job[p] \in Jobs
  BY JobShapes
<1>2. QED BY <1>1 DEF Jobs, Wanted, Manifests

-----------------------------------------------------------------------------
LEMMA InitIInv == Init => IInv
<1> SUFFICES ASSUME Init PROVE IInv
  OBVIOUS
<1> USE DEF Init
<1>1. CacheOK
  <2>1. served \in [Repos -> [Jars -> 0..Builds]]
    OBVIOUS
  <2>2. cache \in [Cached -> Files] /\ Cached = {}
    BY DEF Cached
  <2>3. record \in [Jars -> Records]
    BY DEF NoRecord, Records, Plain
  <2>4. QED BY <2>1, <2>2, <2>3 DEF CacheOK
<1>2. FetchOK
  BY DEF FetchOK
<1>3. ProjectOK
  <2>1. trial \in Bounds
    OBVIOUS
  <2>2. manifest \in [Projects -> Manifests]
    BY <2>1 DEF Bounds
  <2>3. lock \in [Projects -> Locks] /\ aside \in [Projects -> Locks]
    BY DEF Locks
  <2>4. job \in [Projects -> Jobs \cup {NoJob}] /\ prune \in Prunes
    BY DEF Prunes
  <2>5. ended \in [Projects -> Ends] /\ owns \in [Projects -> BOOLEAN]
    BY DEF Ends, NoEnd
  <2>6. QED BY <2>1, <2>2, <2>3, <2>4, <2>5 DEF ProjectOK
<1>4. ASSUME NEW c \in Projects, NEW j \in Jars PROVE FetchInv(c, j)
  BY DEF FetchInv, Asking, Served, Kept, Filed, At, NoFetch
<1>5. ASSUME NEW j \in Jars PROVE JarInv(j)
  BY DEF JarInv, Named, Trusted, Current, Cached, NoRecord, Plain
<1>6. ASSUME NEW p \in Projects PROVE ProjectInv(p)
  BY DEF ProjectInv, Idle, Waves, PinnedIn, Known, Repeats, Running, Is, NoJob, NoLock, NoEnd
<1>7. Alone /\ PruneInv
  BY DEF Alone, PruneInv, PruneKeepsLocked, Running, NoJob, NoPrune
<1>8. QED BY <1>1, <1>2, <1>3, <1>4, <1>5, <1>6, <1>7 DEF IInv, TypeOK

-----------------------------------------------------------------------------
(* A step of one fetch.                                                    *)

Busy == {"look", "ask", "get", "check", "store", "note", "got"}

\* What is under way is a running command's.
LEMMA BusyRuns ==
  ASSUME IInv, NEW c \in Projects, NEW j \in Jars, fetch[c][j] # NoFetch
  PROVE  job[c].at \notin {"idle", "load", "resolve", "locate"} /\ Running(c)
BY DEF IInv, ProjectInv, Idle, Running

\* Of commands that do not overlap, one alone fetches.
LEMMA OneFetches ==
  ASSUME IInv, ~trial.together, NEW c \in Projects, NEW d \in Projects, c # d,
         NEW j \in Jars, NEW k \in Jars, fetch[c][j] # NoFetch
  PROVE  fetch[d][k] = NoFetch
<1>1. Running(c) /\ ~Running(d)
  BY BusyRuns DEF IInv, Alone
<1>2. job[d].at = "idle"
  BY <1>1 DEF Running
<1>3. QED BY <1>2 DEF IInv, ProjectInv, Idle

\* A step of the fetch of jar j by c keeps the invariant if it keeps what is
\* said of that fetch and of that jar.
LEMMA FetchStepKeeps ==
  ASSUME IInv, NEW c \in Projects, NEW j \in Jars,
         UNCHANGED <<served, project, known, job, outcome, prune, trial>>,
         fetch[c][j].at \in Busy, fetch[c][j] # NoFetch,
         CacheOK', fetch'[c][j] \in Fetches, FetchOK',
         \A d \in Projects, k \in Jars : d # c \/ k # j => fetch'[d][k] = fetch[d][k],
         \A k \in Jars : k # j => /\ k \in Cached' <=> k \in Cached
                                  /\ k \in Cached => cache'[k] = cache[k]
                                  /\ record'[k] = record[k],
         ~trial.together /\ j \in Cached \cap Steady => j \in Cached',
         FetchInv(c, j)', JarInv(j)'
  PROVE  IInv'
<1> USE DEF project, outcome
<1>1. TypeOK'
  <2>1. ProjectOK
    BY DEF IInv, TypeOK
  <2>2. ProjectOK'
    BY <2>1 DEF ProjectOK
  <2>3. QED BY <2>2 DEF TypeOK
<1>2. ASSUME NEW d \in Projects, NEW k \in Jars PROVE FetchInv(d, k)'
  <2>1. CASE d = c /\ k = j
    BY <2>1
  <2>2. CASE ~(d = c /\ k = j)
    <3>1. fetch'[d][k] = fetch[d][k] /\ FetchInv(d, k)
      BY <2>2 DEF IInv
    <3>2. Asking(d, k)' /\ Served(d, k)'
      BY <3>1 DEF FetchInv, Asking, Served, At, Repo
    <3>3. ASSUME ~trial.together, d # c PROVE Kept(d, k)' /\ Filed(d, k)'
      <4>1. fetch'[d][k] = NoFetch
        BY <3>1, <3>3, OneFetches
      <4>2. QED BY <4>1 DEF Kept, Filed, At, NoFetch
    <3>4. ASSUME ~trial.together, k # j PROVE Kept(d, k)' /\ Filed(d, k)'
      <4>1. Kept(d, k) /\ Filed(d, k)
        BY <3>1, <3>4 DEF FetchInv
      <4>2. /\ k \in Cached' <=> k \in Cached
            /\ k \in Cached => cache'[k] = cache[k]
            /\ record'[k] = record[k]
        BY <3>4
      <4>3. QED BY <3>1, <4>1, <4>2 DEF Kept, Filed, At, Repo
    <3>5. QED BY <2>2, <3>2, <3>3, <3>4 DEF FetchInv
  <2>3. QED BY <2>1, <2>2
<1>3. ASSUME NEW k \in Jars PROVE JarInv(k)'
  <2>1. CASE k = j
    BY <2>1
  <2>2. CASE k # j
    <3>1. /\ k \in Cached' <=> k \in Cached
          /\ k \in Cached => cache'[k] = cache[k]
          /\ record'[k] = record[k]
      BY <2>2
    <3>2. JarInv(k)
      BY DEF IInv
    <3>3. QED BY <3>1, <3>2 DEF JarInv, Named, Trusted, Current
  <2>3. QED BY <2>1, <2>2
<1>4. ASSUME NEW p \in Projects PROVE ProjectInv(p)'
  <2>1. ProjectInv(p)
    BY DEF IInv
  <2>2. \A k \in Jars : /\ fetch[p][k] = NoFetch => fetch'[p][k] = NoFetch \/ p = c
                        /\ fetch[p][k] # NoFetch => fetch'[p][k] # NoFetch
                        /\ fetch[p][k].at = "in" => fetch'[p][k].at = "in"
    BY DEF Busy, Fetches, NoFetch
  <2>3. Idle(p)'
    <3>1. CASE p = c
      BY <3>1, BusyRuns DEF Idle
    <3>2. CASE p # c
      BY <2>1, <2>2, <3>2 DEF ProjectInv, Idle
    <3>3. QED BY <3>1, <3>2
  <2>4. Waves(p)'
    <3>1. Waves(p) /\ job' = job
      BY <2>1 DEF ProjectInv
    <3>2. Running(p) => Wanted(p) \subseteq Jars
      BY WantedJars DEF IInv, TypeOK
    <3>3. QED BY <2>2, <3>1, <3>2 DEF Waves, Running, Is, Wanted
  <2>5. ASSUME ~trial.together
        PROVE  PinnedIn(lock[p])' /\ PinnedIn(aside[p])' /\ Known(p)' /\ Repeats(p)'
    <3>1. PinnedIn(lock[p]) /\ PinnedIn(aside[p]) /\ Known(p) /\ Repeats(p)
      BY <2>1, <2>5 DEF ProjectInv
    <3>2. Cached \cap Steady \subseteq Cached'
      BY <2>5 DEF IInv, TypeOK, CacheOK
    <3>3. Steady' = Steady
      BY DEF Steady
    <3>4. QED BY <3>1, <3>2, <3>3 DEF PinnedIn, Known, Repeats, Is
  <2>6. QED BY <2>3, <2>4, <2>5 DEF ProjectInv
<1>5. Alone' /\ PruneInv'
  <2>1. Alone /\ PruneInv
    BY DEF IInv
  <2>2. QED BY <2>1 DEF Alone, PruneInv, PruneKeepsLocked, Running
<1>6. QED BY <1>1, <1>2, <1>3, <1>4, <1>5 DEF IInv

-----------------------------------------------------------------------------
(* The steps of a fetch.                                                   *)

LEMMA FetchShape ==
  ASSUME IInv, NEW c \in Projects, NEW j \in Jars, fetch[c][j].at # "none"
  PROVE  fetch[c][j] \in Fetches /\ fetch[c][j] # NoFetch
BY DEF IInv, TypeOK, FetchOK, NoFetch

\* One fetch becomes g, and nothing else does.
Becomes(c, j, g) == fetch' = [fetch EXCEPT ![c][j] = g]

LEMMA Became ==
  ASSUME FetchOK, NEW c \in Projects, NEW j \in Jars, NEW g \in Fetches, Becomes(c, j, g)
  PROVE  /\ FetchOK' /\ fetch'[c][j] = g
         /\ \A d \in Projects, k \in Jars : d # c \/ k # j => fetch'[d][k] = fetch[d][k]
BY DEF FetchOK, Becomes

LEMMA Went ==
  ASSUME IInv, NEW c \in Projects, NEW j \in Jars, fetch[c][j].at # "none",
         NEW step \in Busy \cup {"in", "failed"}, Go(c, j, step)
  PROVE  /\ FetchOK' /\ fetch'[c][j] \in Fetches
         /\ fetch'[c][j] = [fetch[c][j] EXCEPT !.at = step]
         /\ \A d \in Projects, k \in Jars : d # c \/ k # j => fetch'[d][k] = fetch[d][k]
<1>0. fetch[c][j] \in Fetches
  BY FetchShape
<1>1. [fetch[c][j] EXCEPT !.at = step] \in Fetches
  BY <1>0 DEF Fetches, Busy
<1>2. PICK g \in Fetches : g = [fetch[c][j] EXCEPT !.at = step]
  BY <1>1
<1>3. Becomes(c, j, g) /\ FetchOK
  BY <1>2 DEF Go, IInv, TypeOK, Becomes
<1>4. /\ FetchOK' /\ fetch'[c][j] = g
      /\ \A d \in Projects, k \in Jars : d # c \/ k # j => fetch'[d][k] = fetch[d][k]
  BY <1>3, Became
<1>5. QED BY <1>2, <1>4

\* A fetch that gives up has failed, or has a snapshot's copy.
LEMMA GaveUp ==
  ASSUME IInv, NEW c \in Projects, NEW j \in Jars,
         fetch[c][j].at \in {"ask", "get", "check"}, GiveUp(c, j)
  PROVE  /\ FetchOK' /\ fetch'[c][j] \in Fetches
         /\ fetch'[c][j].at \in {"got", "failed"}
         /\ fetch'[c][j].at = "got" => fetch[c][j].fallback /\ j \in Snapshots
         /\ \A d \in Projects, k \in Jars : d # c \/ k # j => fetch'[d][k] = fetch[d][k]
<1> DEFINE step == IF fetch[c][j].fallback THEN "got" ELSE "failed"
<1>1. Go(c, j, step) /\ step \in Busy \cup {"in", "failed"} /\ step \in {"got", "failed"}
  BY DEF GiveUp, Busy
<1>0. step = IF fetch[c][j].fallback THEN "got" ELSE "failed"
  OBVIOUS
<1> HIDE DEF step
<1>2. /\ FetchOK' /\ fetch'[c][j] \in Fetches
      /\ fetch'[c][j] = [fetch[c][j] EXCEPT !.at = step]
      /\ \A d \in Projects, k \in Jars : d # c \/ k # j => fetch'[d][k] = fetch[d][k]
  BY <1>1, Went
<1>3. fetch'[c][j].at = step
  BY <1>2, FetchShape DEF Fetches
<1>4. fetch[c][j].fallback => j \in Snapshots
  BY DEF IInv, FetchInv, Asking
<1>5. QED BY <1>0, <1>1, <1>2, <1>3, <1>4

\* A fetch sets out for a repository.
SetsOut(c, j, step, r, b) ==
  fetch' = [fetch EXCEPT ![c][j].at = step, ![c][j].repo = r, ![c][j].fallback = b]

LEMMA SetOut ==
  ASSUME FetchOK, NEW c \in Projects, NEW j \in Jars, fetch[c][j] \in Fetches,
         NEW step \in Busy, NEW r \in Repos, NEW b \in BOOLEAN,
         SetsOut(c, j, step, r, b)
  PROVE  /\ FetchOK' /\ fetch'[c][j] \in Fetches
         /\ fetch'[c][j].at = step /\ fetch'[c][j].repo = r
         /\ fetch'[c][j].fallback = b /\ fetch'[c][j].name = fetch[c][j].name
         /\ \A d \in Projects, k \in Jars : d # c \/ k # j => fetch'[d][k] = fetch[d][k]
<1>1. [fetch[c][j] EXCEPT !.at = step, !.repo = r, !.fallback = b] \in Fetches
  BY DEF Fetches, Busy
<1>2. PICK g \in Fetches : g = [fetch[c][j] EXCEPT !.at = step, !.repo = r, !.fallback = b]
  BY <1>1
<1>3. Becomes(c, j, g)
  BY <1>2 DEF FetchOK, Becomes, SetsOut
<1>4. g.at = step /\ g.repo = r /\ g.fallback = b /\ g.name = fetch[c][j].name
  BY <1>2 DEF Fetches
<1>5. /\ FetchOK' /\ fetch'[c][j] = g
      /\ \A d \in Projects, k \in Jars : d # c \/ k # j => fetch'[d][k] = fetch[d][k]
  BY <1>3, Became
<1>6. QED BY <1>4, <1>5

LEMMA LookKeeps ==
  ASSUME IInv, NEW c \in Projects, NEW j \in Jars, Look(c, j),
         UNCHANGED <<project, known, job, outcome, prune, trial>>
  PROVE  IInv'
<1> DEFINE f == fetch[c][j]
<1>1. f.at = "look" /\ f \in Fetches /\ f # NoFetch
  BY FetchShape DEF Look, At
<1>2. CacheOK' /\ JarInv(j)'
  BY DEF IInv, TypeOK, CacheOK, JarInv, Named, Trusted, Current, Look, Cached
<1>3. CASE j \in Cached /\ Go(c, j, "got")
  <2>1. /\ FetchOK' /\ fetch'[c][j] \in Fetches
        /\ fetch'[c][j] = [f EXCEPT !.at = "got"]
        /\ \A d \in Projects, k \in Jars : d # c \/ k # j => fetch'[d][k] = fetch[d][k]
    BY <1>1, <1>3, Went DEF Busy
  <2>2. fetch'[c][j].at = "got" /\ j \in Cached'
    BY <1>1, <1>3, <2>1 DEF Fetches, Look, Cached
  <2>3. FetchInv(c, j)'
    BY <2>2 DEF FetchInv, Asking, Served, Kept, Filed, At
  <2>4. QED BY <1>1, <1>2, <2>1, <2>3, FetchStepKeeps DEF Look, Busy, Cached
<1>4. CASE Go(c, j, "failed")
  <2>1. /\ FetchOK' /\ fetch'[c][j] \in Fetches
        /\ fetch'[c][j] = [f EXCEPT !.at = "failed"]
        /\ \A d \in Projects, k \in Jars : d # c \/ k # j => fetch'[d][k] = fetch[d][k]
    BY <1>1, <1>4, Went DEF Busy
  <2>2. fetch'[c][j].at = "failed"
    BY <1>1, <2>1 DEF Fetches
  <2>3. FetchInv(c, j)'
    BY <2>2 DEF FetchInv, Asking, Served, Kept, Filed, At
  <2>4. QED BY <1>1, <1>2, <2>1, <2>3, FetchStepKeeps DEF Look, Busy, Cached
<1>5. CASE /\ IF j \in Cached THEN j \in Snapshots ELSE Asked(j) # {}
           /\ fetch' = [fetch EXCEPT ![c][j].at = IF j \in Snapshots THEN "ask" ELSE "get",
                         ![c][j].repo = Min(Asked(j)), ![c][j].fallback = (j \in Cached)]
  <2>1. Asked(j) # {}
    <3>1. CASE j \in Cached
      <4>1. MayAnswer(cache[j].repo, Group[j])
        BY <3>1 DEF IInv, JarInv, Trusted
      <4>2. cache[j].repo \in Repos
        BY <3>1 DEF IInv, TypeOK, CacheOK, Files
      <4>3. QED BY <4>1, <4>2, AskedMayAnswer
    <3>2. QED BY <1>5, <3>1
  <2>2. Min(Asked(j)) \in Asked(j) /\ \A q \in Asked(j) : ~(q < Min(Asked(j)))
    BY <2>1, FirstAsked
  <2>3. PICK r \in Repos : r = Min(Asked(j))
    BY <2>2, AskedRepos
  <2>4a. PICK copy \in BOOLEAN : copy <=> j \in Cached
    OBVIOUS
  <2>4b. PICK step \in Busy : step = IF j \in Snapshots THEN "ask" ELSE "get"
    BY DEF Busy
  <2>4. SetsOut(c, j, step, r, copy)
    BY <1>5, <2>3, <2>4a, <2>4b DEF SetsOut
  <2>5. /\ FetchOK' /\ fetch'[c][j] \in Fetches
        /\ fetch'[c][j].at = step /\ fetch'[c][j].repo = r
        /\ fetch'[c][j].fallback = copy /\ fetch'[c][j].name = f.name
        /\ \A d \in Projects, k \in Jars : d # c \/ k # j => fetch'[d][k] = fetch[d][k]
    BY <1>1, <2>4, SetOut DEF IInv, TypeOK
  <2>6. f.name = Plain
    BY <1>1 DEF IInv, FetchInv, Asking, At
  <2>7. Asking(c, j)'
    <3>1. served' = served
      BY DEF Look
    <3>2. fetch'[c][j].fallback => j \in Snapshots
      BY <1>5, <2>4a, <2>4b, <2>5
    <3>3. QED BY <2>2, <2>3, <2>4a, <2>4b, <2>5, <3>1, <3>2 DEF Asking, At, Repo
  <2>8. Served(c, j)'
    BY <2>4a, <2>4b, <2>5, <2>6 DEF Served, At
  <2>9. Kept(c, j)' /\ Filed(c, j)'
    BY <1>5, <2>4a, <2>4b, <2>5 DEF Kept, Filed, At, Look, Cached
  <2>10. QED
    BY <1>1, <1>2, <2>5, <2>7, <2>8, <2>9, FetchStepKeeps
       DEF Look, Busy, Cached, FetchInv
<1>6. QED BY <1>3, <1>4, <1>5 DEF Look

\* Of a jar its repository has, the record is of that repository.
LEMMA SameRepo ==
  ASSUME IInv, NEW c \in Projects, NEW j \in Jars, record[j].build # Plain,
         fetch[c][j].at \in {"ask", "get", "check", "store", "note"},
         served[Repo(c, j)][j] # 0
  PROVE  /\ record[j].repo = Repo(c, j) /\ Repo(c, j) \in Dated
         /\ record[j].build <= served[Repo(c, j)][j]
<1>1. Asking(c, j) /\ Named(j)
  BY DEF IInv, FetchInv, JarInv
<1>2. record[j].repo \in Asked(j) /\ Repo(c, j) \in Asked(j)
  BY <1>1 DEF Asking, Named
<1>3. Asked(j) \subseteq Nat
  BY AskedRepos
<1>4. ~(record[j].repo < Repo(c, j)) /\ ~(Repo(c, j) < record[j].repo)
  BY <1>1, <1>2 DEF Asking, Named
<1>5. record[j].repo = Repo(c, j)
  BY <1>2, <1>3, <1>4
<1>6. QED BY <1>1, <1>5 DEF Named

LEMMA ServedBuilds ==
  ASSUME IInv, NEW r \in Repos, NEW j \in Jars
  PROVE  served[r][j] \in 0..Builds
<1>1. served \in [Repos -> [Jars -> 0..Builds]]
  BY DEF IInv, TypeOK, CacheOK
<1>2. QED BY <1>1

\* A fetch that gives up keeps the invariant, if it has its copy still.
LEMMA GiveUpKeeps ==
  ASSUME IInv, NEW c \in Projects, NEW j \in Jars,
         fetch[c][j].at \in {"ask", "get", "check"}, GiveUp(c, j),
         UNCHANGED <<served, cache, record, project, known, job, outcome, prune, trial>>
  PROVE  IInv'
<1>1. /\ FetchOK' /\ fetch'[c][j] \in Fetches
      /\ fetch'[c][j].at \in {"got", "failed"}
      /\ fetch'[c][j].at = "got" => fetch[c][j].fallback /\ j \in Snapshots
      /\ \A d \in Projects, k \in Jars : d # c \/ k # j => fetch'[d][k] = fetch[d][k]
  BY GaveUp
<1>2. Cached' = Cached
  BY DEF Cached
<1>3. ~trial.together /\ j \in Steady /\ fetch'[c][j].at = "got" => j \in Cached
  BY <1>1 DEF IInv, FetchInv, Kept
<1>4. FetchInv(c, j)'
  BY <1>1, <1>2, <1>3 DEF FetchInv, Asking, Served, Kept, Filed, At
<1>5. JarInv(j)' /\ CacheOK'
  BY <1>2 DEF IInv, JarInv, Named, Trusted, Current, TypeOK, CacheOK
<1>6. fetch[c][j] # NoFetch
  BY DEF NoFetch
<1>7. QED BY <1>1, <1>2, <1>4, <1>5, <1>6, FetchStepKeeps DEF Busy

LEMMA AskKeeps ==
  ASSUME IInv, NEW c \in Projects, NEW j \in Jars, Ask(c, j),
         UNCHANGED <<project, known, job, outcome, prune, trial>>
  PROVE  IInv'
<1> DEFINE f == fetch[c][j]
           now == served[Repo(c, j)][j]
<1>1. f.at = "ask" /\ f \in Fetches /\ f # NoFetch
  BY FetchShape DEF Ask, At
<1>2. Asking(c, j) /\ j \in Snapshots /\ Repo(c, j) \in Asked(j) /\ Repo(c, j) \in Repos
  BY <1>1, AskedRepos DEF IInv, FetchInv, Asking, At
<1>3. served' = served /\ cache' = cache /\ Cached' = Cached
  BY DEF Ask, Cached
<1>4. CASE OutOfReach(c, j) /\ record' = record
  BY <1>1, <1>3, <1>4, GiveUpKeeps DEF OutOfReach
<1>5. now \in 0..Builds
  BY <1>2, ServedBuilds
<1>6. CASE /\ Repo(c, j) \in Dated /\ now # 0 /\ StillCurrent(c, j)
           /\ record' = [record EXCEPT ![j] = [build |-> now, repo |-> Repo(c, j), fresh |-> TRUE]]
           /\ Go(c, j, "got")
  <2>1. /\ FetchOK' /\ fetch'[c][j] \in Fetches
        /\ fetch'[c][j] = [f EXCEPT !.at = "got"]
        /\ \A d \in Projects, k \in Jars : d # c \/ k # j => fetch'[d][k] = fetch[d][k]
    BY <1>1, <1>6, Went DEF Busy
  <2>2. fetch'[c][j].at = "got" /\ j \in Cached
    BY <1>1, <1>6, <2>1 DEF Fetches, StillCurrent
  <2>3. FetchInv(c, j)'
    BY <1>3, <2>2 DEF FetchInv, Asking, Served, Kept, Filed, At
  <2>4. [build |-> now, repo |-> Repo(c, j), fresh |-> TRUE] \in Records
    BY <1>2, <1>5 DEF Records
  <2>5. /\ record' \in [Jars -> Records]
        /\ record'[j].build = now /\ record'[j].repo = Repo(c, j)
        /\ \A k \in Jars : k # j => record'[k] = record[k]
    BY <1>6, <2>4 DEF IInv, TypeOK, CacheOK
  <2>6. CacheOK'
    BY <1>3, <2>5 DEF IInv, TypeOK, CacheOK
  <2>7. Named(j)'
    BY <1>1, <1>2, <1>3, <1>5, <1>6, <2>5 DEF Named, Asking
  <2>8. record[j].build = now /\ record[j].build # Plain
    BY <1>6 DEF StillCurrent, Plain
  <2>9. record[j].repo = Repo(c, j)
    BY <1>1, <1>6, <2>8, SameRepo
  <2>10. Trusted(j)' /\ (~trial.together => Current(j)')
    BY <1>3, <2>5, <2>8, <2>9 DEF IInv, JarInv, Trusted, Current
  <2>11. QED
    BY <1>1, <1>3, <2>1, <2>3, <2>5, <2>6, <2>7, <2>10, FetchStepKeeps DEF Busy, JarInv
<1>7. ASSUME NEW n \in 0..Builds, record' = record,
             \/ n = now /\ now # 0 /\ Repo(c, j) \in Dated
             \/ n = Plain /\ (Repo(c, j) \notin Dated \/ now = 0),
             fetch' = [fetch EXCEPT ![c][j].at = "get", ![c][j].name = n]
      PROVE  IInv'
  <2>1. [f EXCEPT !.at = "get", !.name = n] \in Fetches
    BY <1>1 DEF Fetches
  <2>2. PICK g \in Fetches : g = [f EXCEPT !.at = "get", !.name = n]
    BY <2>1
  <2>3. /\ FetchOK' /\ fetch'[c][j] = g
        /\ \A d \in Projects, k \in Jars : d # c \/ k # j => fetch'[d][k] = fetch[d][k]
    <3>1. FetchOK /\ Becomes(c, j, g)
      BY <1>7, <2>2 DEF IInv, TypeOK, FetchOK, Becomes
    <3>2. QED BY <3>1, Became
  <2>3a. g.at = "get" /\ g.repo = f.repo /\ g.name = n /\ g.fallback = f.fallback
    BY <1>1, <2>2 DEF Fetches
  <2>4. Repo(c, j)' = Repo(c, j)
    BY <2>3, <2>3a DEF Repo
  <2>5. Asking(c, j)'
    BY <1>1, <1>2, <1>3, <2>3, <2>3a, <2>4 DEF Asking, At
  <2>6. Served(c, j)'
    BY <1>3, <1>5, <1>7, <2>3, <2>3a, <2>4 DEF Served, At, Plain
  <2>7. ~trial.together => Kept(c, j)'
    BY <1>1, <1>2, <1>3, <2>3, <2>3a DEF IInv, FetchInv, Kept, At
  <2>8. Filed(c, j)'
    <3>1. now # 0 => record[j].build <= n
      <4>1. CASE record[j].build = Plain
        BY <4>1, <1>7 DEF Plain
      <4>2. CASE record[j].build # Plain /\ now # 0
        BY <1>1, <1>7, <4>2, SameRepo
      <4>3. QED BY <4>1, <4>2
    <3>2. QED BY <1>3, <1>7, <2>3, <2>3a, <2>4, <3>1 DEF Filed, At
  <2>9. JarInv(j)' /\ CacheOK'
    BY <1>3, <1>7 DEF IInv, JarInv, Named, Trusted, Current, TypeOK, CacheOK
  <2>10. QED
    BY <1>1, <1>3, <1>7, <2>3, <2>3a, <2>5, <2>6, <2>7, <2>8, <2>9, FetchStepKeeps
       DEF Busy, FetchInv
<1>8. CASE /\ Repo(c, j) \in Dated /\ now # 0 /\ record' = record
           /\ fetch' = [fetch EXCEPT ![c][j].at = "get", ![c][j].name = now]
  <2>1. PICK n \in 0..Builds : n = now
    BY <1>5
  <2>2. fetch' = [fetch EXCEPT ![c][j].at = "get", ![c][j].name = n]
    BY <1>8, <2>1
  <2>3. QED BY <1>7, <1>8, <2>1, <2>2
<1>9. CASE /\ Repo(c, j) \notin Dated \/ now = 0
           /\ record' = record
           /\ fetch' = [fetch EXCEPT ![c][j].at = "get", ![c][j].name = Plain]
  <2>1. PICK n \in 0..Builds : n = Plain
    BY DEF Plain
  <2>2. fetch' = [fetch EXCEPT ![c][j].at = "get", ![c][j].name = n]
    BY <1>9, <2>1
  <2>3. QED BY <1>7, <1>9, <2>1, <2>2
<1>10. QED BY <1>4, <1>6, <1>8, <1>9 DEF Ask

LEMMA GetKeeps ==
  ASSUME IInv, NEW c \in Projects, NEW j \in Jars, Get(c, j),
         UNCHANGED <<project, known, job, outcome, prune, trial>>
  PROVE  IInv'
<1> DEFINE f == fetch[c][j]
           now == served[Repo(c, j)][j]
<1>1. f.at = "get" /\ f \in Fetches /\ f # NoFetch
  BY FetchShape DEF Get, At
<1>2. FetchInv(c, j) /\ Asking(c, j) /\ Served(c, j)
  BY DEF IInv, FetchInv
<1>3. Repo(c, j) \in Asked(j) /\ Repo(c, j) \in Repos
  BY <1>1, <1>2, AskedRepos DEF Asking
<1>4. now \in 0..Builds
  BY <1>3, ServedBuilds
<1>5. served' = served /\ cache' = cache /\ record' = record /\ Cached' = Cached
  BY DEF Get, Cached
<1>6. JarInv(j)' /\ CacheOK' /\ FetchOK
  BY <1>5 DEF IInv, JarInv, Named, Trusted, Current, TypeOK, CacheOK
<1>7. CASE GiveUp(c, j)
  BY <1>1, <1>5, <1>7, GiveUpKeeps
<1>8. CASE /\ There(c, j) = 0 /\ Left(c, j) # {}
           /\ fetch' = [fetch EXCEPT ![c][j].repo = Min(Left(c, j)),
                          ![c][j].at = IF j \in Snapshots THEN "ask" ELSE "get"]
  <2>1. f.name = Plain /\ now = 0
    BY <1>8 DEF There, Plain
  <2>2. /\ Min(Left(c, j)) \in Asked(j)
        /\ \A q \in Asked(j) : q < Min(Left(c, j)) => q = Repo(c, j) \/ q < Repo(c, j)
    BY <1>3, <1>8, NextAsked
  <2>3. PICK r \in Repos, step \in {"ask", "get"} :
           r = Min(Left(c, j)) /\ step = IF j \in Snapshots THEN "ask" ELSE "get"
    BY <2>2, AskedRepos
  <2>4. [f EXCEPT !.repo = r, !.at = step] \in Fetches
    BY <1>1 DEF Fetches
  <2>5. PICK g \in Fetches : g = [f EXCEPT !.repo = r, !.at = step]
    BY <2>4
  <2>6. /\ FetchOK' /\ fetch'[c][j] = g
        /\ \A d \in Projects, k \in Jars : d # c \/ k # j => fetch'[d][k] = fetch[d][k]
    <3>1. Becomes(c, j, g)
      BY <1>6, <1>8, <2>3, <2>5 DEF FetchOK, Becomes
    <3>2. QED BY <1>6, <3>1, Became
  <2>7. g.at = step /\ g.repo = r /\ g.name = Plain /\ g.fallback = f.fallback
    BY <1>1, <2>1, <2>5 DEF Fetches
  <2>8. Asking(c, j)'
    <3>1. \A q \in Asked(j) : q < r => served[q][j] = 0
      BY <1>1, <1>2, <2>1, <2>2, <2>3 DEF Asking
    <3>2. r \in Asked(j) /\ (f.fallback => j \in Snapshots)
      BY <1>1, <1>2, <2>2, <2>3 DEF Asking
    <3>3. QED BY <1>5, <2>3, <2>6, <2>7, <3>1, <3>2 DEF Asking, At, Repo
  <2>9. Served(c, j)'
    BY <1>5, <2>3, <2>6, <2>7 DEF Served, At, Repo, Plain
  <2>10. ~trial.together => Kept(c, j)' /\ Filed(c, j)'
    BY <1>1, <1>2, <1>5, <2>3, <2>6, <2>7 DEF FetchInv, Kept, Filed, At
  <2>11. QED
    BY <1>1, <1>5, <1>6, <2>6, <2>8, <2>9, <2>10, FetchStepKeeps DEF Busy, FetchInv
<1>9. ASSUME There(c, j) # 0,
             NEW b \in {There(c, j)} \cup (IF j \in Damaged THEN {Junk} ELSE {}),
             fetch' = [fetch EXCEPT ![c][j].at = "check", ![c][j].build = b]
      PROVE  IInv'
  <2>1. b # 0 /\ b \in Sums
    BY <1>1, <1>4, <1>9 DEF Junk, There, Sums, Fetches
  <2>2. [f EXCEPT !.at = "check", !.build = b] \in Fetches
    BY <1>1, <2>1 DEF Fetches
  <2>3. PICK g \in Fetches : g = [f EXCEPT !.at = "check", !.build = b]
    BY <2>2
  <2>4. /\ FetchOK' /\ fetch'[c][j] = g
        /\ \A d \in Projects, k \in Jars : d # c \/ k # j => fetch'[d][k] = fetch[d][k]
    <3>1. Becomes(c, j, g)
      BY <1>6, <1>9, <2>3 DEF FetchOK, Becomes
    <3>2. QED BY <1>6, <3>1, Became
  <2>5. /\ g.at = "check" /\ g.repo = f.repo /\ g.name = f.name /\ g.build = b
        /\ g.fallback = f.fallback
    BY <1>1, <2>3 DEF Fetches
  <2>6. Repo(c, j)' = Repo(c, j)
    BY <2>4, <2>5 DEF Repo
  <2>7. Asking(c, j)'
    BY <1>1, <1>2, <1>5, <2>1, <2>4, <2>5, <2>6 DEF Asking, At
  <2>8. now # 0
    BY <1>1, <1>2, <1>9 DEF There, Served
  <2>9. Served(c, j)'
    <3>1. \/ f.name = Plain /\ j \notin Steady \cap Snapshots
          \/ b = f.name \/ (b = Junk /\ j \in Damaged)
      <4>1. CASE f.name = Plain
        <5>1. j \in Snapshots => Repo(c, j) \notin Dated
          BY <1>1, <1>2, <2>8, <4>1 DEF Served
        <5>2. QED BY <1>3, <4>1, <5>1 DEF Steady
      <4>2. CASE f.name # Plain
        BY <1>9, <4>2 DEF There
      <4>3. QED BY <4>1, <4>2
    <3>2. QED BY <1>1, <1>2, <1>5, <2>4, <2>5, <2>6, <2>8, <3>1 DEF Served, At
  <2>10. ~trial.together => Kept(c, j)' /\ Filed(c, j)'
    BY <1>1, <1>2, <1>5, <2>4, <2>5, <2>6 DEF FetchInv, Kept, Filed, At
  <2>11. QED
    BY <1>1, <1>5, <1>6, <2>4, <2>7, <2>9, <2>10, FetchStepKeeps DEF Busy, FetchInv
<1>10. QED BY <1>7, <1>8, <1>9 DEF Get, OutOfReach

\* What a fetch that has its bytes may do next keeps the invariant.
LEMMA CheckPinKeeps ==
  ASSUME IInv, NEW c \in Projects, NEW j \in Jars, At(c, j, "check"), NEW v \in BOOLEAN,
         v => fetch[c][j].build # Junk, CheckPin(c, j, v),
         UNCHANGED <<served, cache, record, project, known, job, outcome, prune, trial>>
  PROVE  IInv'
<1> DEFINE f == fetch[c][j]
<1>1. f.at = "check" /\ f \in Fetches /\ f # NoFetch
  BY FetchShape DEF At
<1>2. CASE GiveUp(c, j)
  BY <1>1, <1>2, GiveUpKeeps
<1>3. CASE fetch' = [fetch EXCEPT ![c][j].at = "store", ![c][j].verified = v]
  <2>1. [f EXCEPT !.at = "store", !.verified = v] \in Fetches
    BY <1>1 DEF Fetches
  <2>2. PICK g \in Fetches : g = [f EXCEPT !.at = "store", !.verified = v]
    BY <2>1
  <2>3. /\ FetchOK' /\ fetch'[c][j] = g
        /\ \A d \in Projects, k \in Jars : d # c \/ k # j => fetch'[d][k] = fetch[d][k]
    <3>1. FetchOK /\ Becomes(c, j, g)
      BY <1>3, <2>2 DEF IInv, TypeOK, FetchOK, Becomes
    <3>2. QED BY <3>1, Became
  <2>4. /\ g.at = "store" /\ g.repo = f.repo /\ g.name = f.name /\ g.build = f.build
        /\ g.fallback = f.fallback /\ g.verified = v
    BY <1>1, <2>2 DEF Fetches
  <2>5. FetchInv(c, j) /\ Repo(c, j)' = Repo(c, j) /\ Cached' = Cached
    BY <2>3, <2>4 DEF Repo, IInv, Cached
  <2>6. Asking(c, j)' /\ Served(c, j)'
    BY <1>1, <2>3, <2>4, <2>5 DEF FetchInv, Asking, Served, At
  <2>7. ~trial.together => Kept(c, j)' /\ Filed(c, j)'
    BY <1>1, <2>3, <2>4, <2>5 DEF FetchInv, Kept, Filed, At
  <2>8. JarInv(j)' /\ CacheOK'
    BY <2>5 DEF IInv, JarInv, Named, Trusted, Current, TypeOK, CacheOK
  <2>9. QED
    BY <1>1, <2>3, <2>5, <2>6, <2>7, <2>8, FetchStepKeeps DEF Busy, FetchInv
<1>4. QED BY <1>2, <1>3 DEF CheckPin

LEMMA CheckKeeps ==
  ASSUME IInv, NEW c \in Projects, NEW j \in Jars, Check(c, j),
         UNCHANGED <<project, known, job, outcome, prune, trial>>
  PROVE  IInv'
<1> DEFINE f == fetch[c][j]
<1>1. f.at = "check" /\ f \in Fetches /\ f # NoFetch /\ At(c, j, "check")
  BY FetchShape DEF Check, At
<1>2. FetchInv(c, j) /\ Asking(c, j) /\ Served(c, j)
  BY DEF IInv, FetchInv
<1>3. Repo(c, j) \in Asked(j) /\ Repo(c, j) \in Repos
  BY <1>1, <1>2, AskedRepos DEF Asking
<1>4. served' = served /\ record' = record
  BY DEF Check
<1>5. CASE CheckPin(c, j, FALSE) /\ cache' = cache
  BY <1>1, <1>4, <1>5, CheckPinKeeps
<1>6. CASE f.build = There(c, j) /\ CheckPin(c, j, TRUE) /\ cache' = cache
  <2>1. served[Repo(c, j)][j] \in 0..Builds
    BY <1>3, ServedBuilds
  <2>2. f.build # Junk
    BY <1>1, <1>6, <2>1 DEF There, Junk, Fetches
  <2>3. QED BY <1>1, <1>4, <1>6, <2>2, CheckPinKeeps
<1>7. CASE /\ f.build # There(c, j) /\ GiveUp(c, j)
           /\ cache' = [k \in Cached \ {j} |-> cache[k]]
  <2>1. /\ FetchOK' /\ fetch'[c][j] \in Fetches
        /\ fetch'[c][j].at \in {"got", "failed"}
        /\ fetch'[c][j].at = "got" => f.fallback /\ j \in Snapshots
        /\ \A d \in Projects, k \in Jars : d # c \/ k # j => fetch'[d][k] = fetch[d][k]
    BY <1>1, <1>7, GaveUp
  <2>2. /\ Cached' = Cached \ {j}
        /\ \A k \in Jars : k # j => /\ k \in Cached' <=> k \in Cached
                                    /\ k \in Cached => cache'[k] = cache[k]
    <3>1. \A k \in Cached \ {j} : cache'[k] = cache[k]
      BY <1>7
    <3>2. Cached' = Cached \ {j}
      BY <1>7 DEF Cached
    <3>3. QED
      BY <3>1, <3>2, <1>7
  <2>3. CacheOK'
    BY <1>4, <1>7, <2>2 DEF IInv, TypeOK, CacheOK
  <2>4. JarInv(j)'
    BY <1>4, <2>2 DEF IInv, JarInv, Named, Trusted, Current
  \* A steady snapshot does not fail its checksum.
  <2>5. ~(j \in Steady \cap Snapshots)
    <3>1. SUFFICES ASSUME j \in Steady \cap Snapshots PROVE FALSE
      OBVIOUS
    <3>2. j \notin Damaged
      BY <3>1 DEF Steady
    <3>3. f.build = f.name /\ f.build # 0
      BY <1>1, <1>2, <3>1, <3>2 DEF Served, Asking
    <3>4. QED BY <1>7, <3>3 DEF There, Plain
  <2>6. ~trial.together /\ j \in Steady => j \notin Cached
    BY <1>1, <1>2, <2>5 DEF FetchInv, Kept
  <2>7. FetchInv(c, j)'
    BY <2>1, <2>5 DEF FetchInv, Asking, Served, Kept, Filed, At
  <2>8. QED
    BY <1>1, <1>4, <2>1, <2>2, <2>3, <2>4, <2>6, <2>7, FetchStepKeeps DEF Busy
<1>8. QED BY <1>5, <1>6, <1>7 DEF Check

LEMMA StoreKeeps ==
  ASSUME IInv, NEW c \in Projects, NEW j \in Jars, Store(c, j),
         UNCHANGED <<project, known, job, outcome, prune, trial>>
  PROVE  IInv'
<1> DEFINE f == fetch[c][j]
           file == [build |-> f.build, repo |-> Repo(c, j), verified |-> f.verified]
<1>0. PICK step \in {"note", "got"} : step = IF j \in Snapshots THEN "note" ELSE "got"
  OBVIOUS
<1>1. f.at = "store" /\ f \in Fetches /\ f # NoFetch
  BY FetchShape DEF Store, At
<1>2. FetchInv(c, j) /\ Asking(c, j) /\ Served(c, j)
  BY DEF IInv, FetchInv
<1>3. Repo(c, j) \in Asked(j) /\ Repo(c, j) \in Repos
  BY <1>1, <1>2, AskedRepos DEF Asking
<1>4. served' = served /\ record' = record
  BY DEF Store
<1>5. file \in Files
  BY <1>1, <1>2, <1>3 DEF Asking, Files, Fetches, At, Sums
<1>6. /\ FetchOK' /\ fetch'[c][j] \in Fetches
      /\ fetch'[c][j] = [f EXCEPT !.at = step]
      /\ \A d \in Projects, k \in Jars : d # c \/ k # j => fetch'[d][k] = fetch[d][k]
  <2>1. Go(c, j, step)
    BY <1>0 DEF Store
  <2>2. QED BY <1>1, <2>1, Went DEF Busy
<1>7. /\ fetch'[c][j].at = step /\ fetch'[c][j].repo = f.repo /\ fetch'[c][j].name = f.name
      /\ fetch'[c][j].build = f.build /\ fetch'[c][j].fallback = f.fallback
  BY <1>1, <1>6 DEF Fetches
<1>8. Repo(c, j)' = Repo(c, j)
  BY <1>7 DEF Repo
\* The jar is cached now, of the same bytes.
<1>9. /\ CacheOK /\ CacheOK'
      /\ j \in Cached' /\ cache'[j].build = f.build
      /\ \/ cache'[j] = file
         \/ j \in Cached /\ cache'[j] = cache[j]
      /\ \A k \in Jars : k # j => /\ k \in Cached' <=> k \in Cached
                                  /\ k \in Cached => cache'[k] = cache[k]
  <2>1. CacheOK
    BY DEF IInv, TypeOK
  <2>2. CASE j \in Cached /\ cache[j].build = f.build /\ cache' = cache
    BY <1>4, <2>1, <2>2 DEF CacheOK, Cached
  <2>3. CASE cache' = With(c, j)
    <3>1. cache' = [k \in Cached \cup {j} |-> IF k = j THEN file ELSE cache[k]]
      BY <2>3 DEF With
    <3>2. /\ Cached' = Cached \cup {j} /\ cache'[j] = file
          /\ \A k \in Cached : k # j => cache'[k] = cache[k]
      BY <3>1 DEF Cached
    <3>3. cache' \in [Cached' -> Files]
      BY <1>5, <2>1, <3>1, <3>2 DEF CacheOK
    <3>4. CacheOK'
      BY <1>4, <2>1, <3>2, <3>3 DEF CacheOK
    <3>5. QED BY <2>1, <3>2, <3>4
  <2>4. QED BY <2>2, <2>3 DEF Store
<1>10. Asking(c, j)'
  BY <1>0, <1>1, <1>2, <1>4, <1>7, <1>8 DEF Asking, At
<1>11. Served(c, j)'
  BY <1>0, <1>1, <1>2, <1>4, <1>7, <1>8 DEF Served, At
<1>12. ~trial.together => Kept(c, j)' /\ Filed(c, j)'
  BY <1>0, <1>1, <1>2, <1>4, <1>7, <1>8, <1>9 DEF FetchInv, Kept, Filed, At
<1>13. JarInv(j)'
  <2>1. JarInv(j)
    BY DEF IInv
  <2>2. Named(j)'
    BY <1>4, <2>1 DEF JarInv, Named
  <2>3. Trusted(j)'
    <3>1. CASE j \in Cached /\ cache'[j] = cache[j]
      BY <2>1, <3>1 DEF JarInv, Trusted
    <3>2. CASE cache'[j] = file
      <4>1. MayAnswer(Repo(c, j), Group[j])
        BY <1>3, AskedMayAnswer
      <4>2. f.verified => f.build # Junk
        BY <1>1, <1>2 DEF Asking, At
      <4>3. cache'[j].repo = Repo(c, j) /\ cache'[j].verified = f.verified
            /\ cache'[j].build = f.build
        BY <3>2
      <4>4. QED BY <4>1, <4>2, <4>3 DEF Trusted
    <3>3. QED BY <1>9, <3>1, <3>2
  <2>4. ASSUME ~trial.together PROVE Current(j)'
    <3>1. SUFFICES ASSUME j \in Snapshots, record[j].build # Plain,
                          record[j].build = served[record[j].repo][j]
                   PROVE  f.build \in {record[j].build, Junk}
      BY <1>4, <1>9 DEF Current
    <3>2. served[Repo(c, j)][j] # 0
      BY <1>1, <1>2 DEF Served, At
    <3>3. record[j].repo = Repo(c, j)
      BY <1>1, <3>1, <3>2, SameRepo
    <3>4. record[j].build <= f.name
      BY <1>1, <1>2, <2>4, <3>1, <3>2 DEF FetchInv, Filed
    <3>5. record[j].build \in 0..Builds
      BY <1>9 DEF CacheOK, Records
    <3>6. f.name # Plain
      BY <1>1, <3>1, <3>4, <3>5 DEF Plain, Fetches
    <3>7. f.name <= served[Repo(c, j)][j]
      BY <1>1, <1>2, <3>6 DEF Served
    <3>8. f.name = record[j].build
      BY <1>1, <3>1, <3>3, <3>4, <3>5, <3>7 DEF Fetches
    <3>9. QED BY <1>1, <1>2, <3>6, <3>8 DEF Served
  <2>5. QED BY <2>2, <2>3, <2>4 DEF JarInv
<1>14. QED
  BY <1>1, <1>4, <1>6, <1>9, <1>10, <1>11, <1>12, <1>13, FetchStepKeeps DEF Busy, FetchInv

LEMMA NoteKeeps ==
  ASSUME IInv, NEW c \in Projects, NEW j \in Jars, Note(c, j),
         UNCHANGED <<project, known, job, outcome, prune, trial>>
  PROVE  IInv'
<1> DEFINE f == fetch[c][j]
           new == [build |-> f.name, repo |-> Repo(c, j), fresh |-> TRUE]
<1>1. f.at = "note" /\ f \in Fetches /\ f # NoFetch
  BY FetchShape DEF Note, At
<1>2. FetchInv(c, j) /\ Asking(c, j) /\ Served(c, j)
  BY DEF IInv, FetchInv
<1>3. Repo(c, j) \in Asked(j) /\ Repo(c, j) \in Repos /\ j \in Snapshots
  BY <1>1, <1>2, AskedRepos DEF Asking, At
<1>4. served' = served /\ cache' = cache /\ Cached' = Cached
  BY DEF Note, Cached
<1>5. /\ FetchOK' /\ fetch'[c][j] \in Fetches
      /\ fetch'[c][j] = [f EXCEPT !.at = "got"]
      /\ \A d \in Projects, k \in Jars : d # c \/ k # j => fetch'[d][k] = fetch[d][k]
  BY <1>1, Went DEF Note, Busy
<1>6. fetch'[c][j].at = "got"
  BY <1>1, <1>5 DEF Fetches
<1>7. new \in Records
  BY <1>1, <1>3 DEF Records, Fetches
<1>8. CacheOK /\ record' = [record EXCEPT ![j] = new]
  BY DEF IInv, TypeOK, Note
<1>9. /\ record' \in [Jars -> Records]
      /\ record'[j].build = f.name /\ record'[j].repo = Repo(c, j)
      /\ \A k \in Jars : k # j => record'[k] = record[k]
  BY <1>7, <1>8 DEF CacheOK
<1>10. CacheOK'
  BY <1>4, <1>8, <1>9 DEF CacheOK
<1>11. FetchInv(c, j)'
  BY <1>1, <1>2, <1>4, <1>6 DEF FetchInv, Asking, Served, Kept, Filed, At
<1>12. Named(j)'
  BY <1>1, <1>2, <1>3, <1>4, <1>9 DEF Asking, Served, Named
<1>13. Trusted(j)'
  BY <1>4 DEF IInv, JarInv, Trusted
<1>14. ~trial.together => Current(j)'
  <2>1. ~trial.together => cache[j].build = f.build
    BY <1>1, <1>2, <1>3 DEF FetchInv, Filed, At
  <2>2. f.name # Plain => f.build \in {f.name, Junk}
    BY <1>1, <1>2 DEF Served
  <2>3. QED BY <1>4, <1>9, <2>1, <2>2 DEF Current
<1>15. QED
  BY <1>1, <1>4, <1>5, <1>9, <1>10, <1>11, <1>12, <1>13, <1>14, FetchStepKeeps
     DEF Busy, JarInv

LEMMA SumKeeps ==
  ASSUME IInv, NEW c \in Projects, NEW j \in Jars, Sum(c, j),
         UNCHANGED <<project, known, job, outcome, prune, trial>>
  PROVE  IInv'
<1> DEFINE f == fetch[c][j]
           sum == IF j \in Snapshots THEN NoSum
                  ELSE IF f.pin # NoSum THEN f.pin
                  ELSE IF j \in Cached THEN cache[j].build ELSE NoSum
<1>1. f.at = "got" /\ f \in Fetches /\ f # NoFetch
  BY FetchShape DEF Sum, At
<1>2. FetchInv(c, j) /\ CacheOK /\ FetchOK
  BY DEF IInv, TypeOK
<1>3. UNCHANGED <<served, cache, record>> /\ Cached' = Cached
  BY DEF Sum, Cached
<1>4. j \in Cached => cache[j].build \in Sums /\ cache[j].build # NoSum
  BY <1>2 DEF CacheOK, Files, Sums, NoSum
<1>5. sum \in Sums
  BY <1>1, <1>4 DEF Sums, NoSum, Fetches
<1>6. ~trial.together /\ j \notin Snapshots => sum # NoSum
  BY <1>1, <1>2, <1>4 DEF FetchInv, Kept, Steady
<1>7. PICK s \in Sums : s = sum
  BY <1>5
<1>8. fetch' = [fetch EXCEPT ![c][j].at = "in", ![c][j].sum = s]
  BY <1>7 DEF Sum
<1> HIDE DEF sum
<1>9. [f EXCEPT !.at = "in", !.sum = s] \in Fetches
  BY <1>1 DEF Fetches
<1>10. PICK g \in Fetches : g = [f EXCEPT !.at = "in", !.sum = s]
  BY <1>9
<1>11. /\ FetchOK' /\ fetch'[c][j] = g
       /\ \A d \in Projects, k \in Jars : d # c \/ k # j => fetch'[d][k] = fetch[d][k]
  <2>1. Becomes(c, j, g)
    BY <1>2, <1>8, <1>10 DEF FetchOK, Becomes
  <2>2. QED BY <1>2, <2>1, Became
<1>12. g.at = "in" /\ g.sum = s
  BY <1>1, <1>10 DEF Fetches
<1>13. ~trial.together => Kept(c, j)'
  BY <1>1, <1>2, <1>3, <1>6, <1>7, <1>11, <1>12 DEF FetchInv, Kept, At
<1>14. FetchInv(c, j)'
  BY <1>11, <1>12, <1>13 DEF FetchInv, Asking, Served, Filed, At
<1>15. JarInv(j)' /\ CacheOK'
  BY <1>2, <1>3 DEF IInv, JarInv, Named, Trusted, Current, CacheOK
<1>16. QED
  BY <1>1, <1>3, <1>11, <1>14, <1>15, FetchStepKeeps DEF Busy

LEMMA DownloadKeeps ==
  ASSUME IInv, NEW p \in Projects, Download(p)
  PROVE  IInv'
<1>1. PICK j \in Jars : FetchStep(p, j) /\ UNCHANGED <<project, known, job, outcome, prune, trial>>
  BY DEF Download
<1>2. QED
  BY <1>1, LookKeeps, AskKeeps, GetKeeps, CheckKeeps, StoreKeeps, NoteKeeps, SumKeeps
     DEF FetchStep

-----------------------------------------------------------------------------
(* A step of one command.                                                  *)

Results == {"none", "ok", "failed", "killed", "unreadable lock"}

\* A step of the command of p keeps the invariant if it keeps what is said of
\* p: it starts fetches, or ends them, and leaves the cache alone.
LEMMA JobStepKeeps ==
  ASSUME IInv, NEW p \in Projects,
         UNCHANGED <<served, cache, record, prune>>, ProjectOK', FetchOK',
         trial'.together = trial.together,
         ~trial.together => Running(p) \/ Quiet,
         ~trial.together => known \subseteq known',
         known' = known \/ Running(p),
         \A q \in Projects : q # p =>
           /\ job'[q] = job[q] /\ fetch'[q] = fetch[q]
           /\ lock'[q] = lock[q] /\ aside'[q] = aside[q]
           /\ ended'[q] = ended[q] /\ owns'[q] = owns[q],
         \A j \in Jars : \/ fetch'[p][j] = fetch[p][j] \/ fetch'[p][j] = NoFetch
                         \/ fetch'[p][j].at = "look" /\ fetch'[p][j].name = Plain,
         ProjectInv(p)'
  PROVE  IInv'
<1>1. Cached' = Cached /\ Steady' = Steady
  BY DEF Cached, Steady
<1>2. TypeOK'
  BY <1>1 DEF IInv, TypeOK, CacheOK
<1>3. ASSUME NEW c \in Projects, NEW j \in Jars PROVE FetchInv(c, j)'
  <2>1. CASE fetch'[c][j] = fetch[c][j]
    <3>1. FetchInv(c, j) /\ Repo(c, j)' = Repo(c, j)
      BY <2>1 DEF IInv, Repo
    <3>2. Asking(c, j)' /\ Served(c, j)'
      BY <1>1, <2>1, <3>1 DEF FetchInv, Asking, Served, At
    <3>3. ~trial.together => Kept(c, j)' /\ Filed(c, j)'
      BY <1>1, <2>1, <3>1 DEF FetchInv, Kept, Filed, At
    <3>4. QED BY <3>2, <3>3 DEF FetchInv
  <2>2. CASE /\ fetch'[c][j].at \in {"none", "look"}
             /\ fetch'[c][j].at = "look" => fetch'[c][j].name = Plain
    BY <2>2 DEF FetchInv, Asking, Served, Kept, Filed, At
  <2>3. QED BY <2>1, <2>2 DEF NoFetch
<1>4. ASSUME NEW j \in Jars PROVE JarInv(j)'
  BY <1>1 DEF IInv, JarInv, Named, Trusted, Current
<1>5. ASSUME NEW q \in Projects PROVE ProjectInv(q)'
  <2>1. CASE q = p
    BY <2>1
  <2>2. CASE q # p
    <3>1. ProjectInv(q)
      BY DEF IInv
    <3>2. Idle(q)' /\ Waves(q)'
      BY <2>2, <3>1 DEF ProjectInv, Idle, Waves, Running, Is, Wanted
    <3>3. ASSUME ~trial.together PROVE Known(q)'
      <4>1. Running(p) => ~Running(q)
        BY <2>2, <3>3 DEF IInv, Alone
      <4>2. Known(q)
        BY <3>1, <3>3 DEF ProjectInv
      <4>3. CASE known' = known
        BY <2>2, <4>2, <4>3 DEF Known, Is
      <4>4. CASE Running(p)
        BY <2>2, <3>3, <4>1, <4>2, <4>4 DEF Known, Is, Running
      <4>5. QED BY <4>3, <4>4
    <3>4. ASSUME ~trial.together
          PROVE  PinnedIn(lock[q])' /\ PinnedIn(aside[q])' /\ Repeats(q)'
      BY <1>1, <2>2, <3>1, <3>4 DEF ProjectInv, PinnedIn, Repeats
    <3>5. QED BY <3>2, <3>3, <3>4 DEF ProjectInv
  <2>3. QED BY <2>1, <2>2
<1>6. Alone'
  BY DEF IInv, Alone, Quiet, Running
<1>7. PruneInv'
  <2>1. ASSUME ~trial.together PROVE prune = NoPrune
    BY <2>1 DEF IInv, Alone, Quiet
  <2>2. QED BY <2>1 DEF PruneInv, PruneKeepsLocked, NoPrune
<1>8. QED BY <1>2, <1>3, <1>4, <1>5, <1>6, <1>7 DEF IInv

\* A command that is over.
LEMMA EndKeeps ==
  ASSUME IInv, NEW p \in Projects, Running(p),
         NEW result \in Results, End(p, result),
         UNCHANGED <<served, cache, record, project, known, prune>>,
         trial' \in Bounds, trial'.together = trial.together,
         result = "ok" /\ ~trial.together => p \in known /\ Wanted(p) \cap Steady \subseteq Cached
  PROVE  IInv'
<1> USE DEF project
<1>1. ProjectOK /\ FetchOK /\ ProjectInv(p)
  BY DEF IInv, TypeOK
<1>2. job[p] \in Jobs /\ Wanted(p) \subseteq Jars
  BY <1>1, JobShapes, WantedJars
<1>3. [kind |-> job[p].kind, result |-> result, jars |-> Wanted(p)] \in Ends
  BY <1>2 DEF Ends, Jobs, Results
<1>4. /\ ended' \in [Projects -> Ends]
      /\ ended'[p] = [kind |-> job[p].kind, result |-> result, jars |-> Wanted(p)]
      /\ \A q \in Projects : q # p => ended'[q] = ended[q]
  BY <1>1, <1>3 DEF End, ProjectOK
<1>5. /\ owns' \in [Projects -> BOOLEAN]
      /\ owns'[p] <=> owns[p] \/ (result = "ok" /\ lock[p].state = "whole")
      /\ \A q \in Projects : q # p => owns'[q] = owns[q]
  BY <1>1 DEF End, ProjectOK
<1>6. /\ job' \in [Projects -> Jobs \cup {NoJob}] /\ job'[p] = NoJob
      /\ \A q \in Projects : q # p => job'[q] = job[q]
  BY <1>1 DEF End, ProjectOK
<1>7. /\ FetchOK' /\ \A j \in Jars : fetch'[p][j] = NoFetch
      /\ \A q \in Projects : q # p => fetch'[q] = fetch[q]
  BY <1>1 DEF End, FetchOK
<1>8. ProjectOK'
  BY <1>1, <1>4, <1>5, <1>6 DEF ProjectOK
<1>9. Idle(p)' /\ Waves(p)'
  BY <1>6, <1>7 DEF Idle, Waves, Running, NoJob
<1>10. ~trial.together => PinnedIn(lock[p])' /\ PinnedIn(aside[p])'
  BY <1>1 DEF ProjectInv, PinnedIn
<1>11. ~trial.together => Known(p)'
  <2>1. ASSUME ~trial.together PROVE Known(p)
    BY <1>1, <2>1 DEF ProjectInv
  <2>2. QED BY <1>5, <1>6, <2>1 DEF Known, Is, NoJob
<1>12. ~trial.together => Repeats(p)'
  <2>1. ended'[p].result = result /\ ended'[p].jars = Wanted(p)
    BY <1>4
  <2>2. Steady' = Steady /\ Cached' = Cached
    BY DEF Steady, Cached
  <2>3. QED BY <2>1, <2>2 DEF Repeats
<1>13. ProjectInv(p)'
  BY <1>9, <1>10, <1>11, <1>12 DEF ProjectInv
<1>14. QED
  BY <1>4, <1>5, <1>6, <1>7, <1>8, <1>13, JobStepKeeps

\* A command goes on as g.
JobBecomes(p, g) == job' = [job EXCEPT ![p] = g]

LEMMA JobBecame ==
  ASSUME ProjectOK, NEW p \in Projects, NEW g \in Jobs, JobBecomes(p, g)
  PROVE  /\ job' \in [Projects -> Jobs \cup {NoJob}] /\ job'[p] = g
         /\ \A q \in Projects : q # p => job'[q] = job[q]
BY DEF ProjectOK, JobBecomes

Steps == {"load", "resolve", "locate", "first", "truncate", "fill", "register", "record",
          "compile", "join", "end"}

LEMMA Jumped ==
  ASSUME ProjectOK, NEW p \in Projects, Running(p), NEW step \in Steps, Jump(p, step)
  PROVE  /\ job' \in [Projects -> Jobs \cup {NoJob}] /\ job'[p] \in Jobs
         /\ job'[p].at = step
         /\ job'[p].kind = job[p].kind /\ job'[p].of = job[p].of
         /\ job'[p].fresh = job[p].fresh /\ job'[p].pins = job[p].pins
         /\ job'[p].second = job[p].second /\ job'[p].next = job[p].next
         /\ job'[p].known = job[p].known
         /\ \A q \in Projects : q # p => job'[q] = job[q]
<1>1. job[p] \in Jobs
  BY JobShapes
<1>2. [job[p] EXCEPT !.at = step] \in Jobs
  BY <1>1 DEF Jobs, Steps
<1>3. PICK g \in Jobs : g = [job[p] EXCEPT !.at = step]
  BY <1>2
<1>4. JobBecomes(p, g)
  BY <1>3 DEF Jump, JobBecomes, ProjectOK
<1>5. /\ g.at = step /\ g.kind = job[p].kind /\ g.of = job[p].of
      /\ g.fresh = job[p].fresh /\ g.pins = job[p].pins
      /\ g.second = job[p].second /\ g.next = job[p].next /\ g.known = job[p].known
  BY <1>1, <1>3 DEF Jobs
<1>6. /\ job' \in [Projects -> Jobs \cup {NoJob}] /\ job'[p] = g
      /\ \A q \in Projects : q # p => job'[q] = job[q]
  BY <1>4, JobBecame
<1>7. QED BY <1>5, <1>6

\* A step of a command that leaves its fetches and its project's files alone.
LEMMA JobOnlyKeeps ==
  ASSUME IInv, NEW p \in Projects, job'[p] \in Jobs,
         UNCHANGED <<fetcherVars, project, known, outcome, prune>>,
         trial' \in Bounds, trial'.together = trial.together,
         ~trial.together => Running(p) \/ Quiet,
         job' \in [Projects -> Jobs \cup {NoJob}],
         \A q \in Projects : q # p => job'[q] = job[q],
         Idle(p)', Waves(p)', ~trial.together => Known(p)'
  PROVE  IInv'
<1> USE DEF fetcherVars, project, outcome
<1>1. ProjectOK /\ FetchOK /\ ProjectInv(p)
  BY DEF IInv, TypeOK
<1>2. ProjectOK' /\ FetchOK'
  BY <1>1 DEF ProjectOK, FetchOK
<1>3. ~trial.together => PinnedIn(lock[p])' /\ PinnedIn(aside[p])' /\ Repeats(p)'
  BY <1>1 DEF ProjectInv, PinnedIn, Repeats, Cached, Steady
<1>4. ProjectInv(p)'
  BY <1>3 DEF ProjectInv
<1>5. QED BY <1>2, <1>4, JobStepKeeps

LEMMA CommandKeeps ==
  ASSUME IInv, NEW p \in Projects, Command(p)
  PROVE  IInv'
<1>1. ProjectOK /\ ProjectInv(p) /\ ~Running(p)
  BY DEF IInv, TypeOK, Command
<1>2. trial' \in Bounds /\ trial'.together = trial.together
  BY <1>1, Spent DEF ProjectOK, Command
<1>3. PICK kind \in trial.kinds :
        job' = [job EXCEPT ![p] =
                  [at |-> "load", kind |-> kind, of |-> manifest[p], fresh |-> FALSE,
                   pins |-> [j \in Jars |-> NoSum], second |-> {}, next |-> "register",
                   known |-> {}]]
  BY DEF Command
<1>4. kind \in Kinds /\ manifest[p] \in Manifests
  BY <1>1 DEF ProjectOK, Bounds
<1>5a. [j \in Jars |-> NoSum] \in [Jars -> Sums]
  BY DEF Sums, NoSum
<1>5b. [at |-> "load", kind |-> kind, of |-> manifest[p], fresh |-> FALSE,
        pins |-> [j \in Jars |-> NoSum], second |-> {}, next |-> "register",
        known |-> {}] \in Jobs
  BY <1>4, <1>5a DEF Jobs
<1>5. PICK g \in Jobs :
        g = [at |-> "load", kind |-> kind, of |-> manifest[p], fresh |-> FALSE,
             pins |-> [j \in Jars |-> NoSum], second |-> {}, next |-> "register",
             known |-> {}]
  BY <1>5b
<1>6. g.at = "load" /\ g.second = {} /\ g.next = "register"
  BY <1>5
<1>7. JobBecomes(p, g)
  BY <1>3, <1>5 DEF JobBecomes
<1>8. /\ job' \in [Projects -> Jobs \cup {NoJob}] /\ job'[p] = g
      /\ \A q \in Projects : q # p => job'[q] = job[q]
  BY <1>1, <1>7, JobBecame
<1>9. Idle(p)' /\ Waves(p)'
  BY <1>1, <1>6, <1>8 DEF ProjectInv, Idle, Waves, Running, Command, fetcherVars, Is
<1>10. ~trial.together => Known(p)'
  BY <1>1, <1>6, <1>8 DEF ProjectInv, Known, Is, Command, project, outcome
<1>11. ~trial.together => Quiet
  BY DEF Command, MayStart
<1>12. QED
  BY <1>2, <1>8, <1>9, <1>10, <1>11, JobOnlyKeeps DEF Command

LEMMA LoadKeeps ==
  ASSUME IInv, NEW p \in Projects, Load(p)
  PROVE  IInv'
<1>1. ProjectOK /\ FetchOK /\ ProjectInv(p) /\ Running(p)
  BY DEF IInv, TypeOK, Load, Is, Running
<1>2. job[p] \in Jobs /\ job[p].at = "load" /\ trial \in Bounds
  BY <1>1, JobShapes DEF Load, Is, ProjectOK
<1>3. CASE End(p, "unreadable lock")
  BY <1>1, <1>2, <1>3, EndKeeps DEF Load, Results
<1>4. ASSUME NEW g \in Jobs, JobBecomes(p, g), UNCHANGED <<outcome, fetch>>,
             g.at \in {"locate", "resolve"}, g.second = job[p].second, g.next = job[p].next
      PROVE  IInv'
  <2>1. /\ job' \in [Projects -> Jobs \cup {NoJob}] /\ job'[p] = g
        /\ \A q \in Projects : q # p => job'[q] = job[q]
    BY <1>1, <1>4, JobBecame
  <2>2. Idle(p)' /\ Waves(p)'
    BY <1>1, <1>2, <1>4, <2>1 DEF ProjectInv, Idle, Waves, Running, Is
  <2>3. ~trial.together => Known(p)'
    BY <1>1, <1>4, <2>1 DEF ProjectInv, Known, Is, Load, project, outcome
  <2>4. QED
    BY <1>1, <1>2, <1>4, <2>1, <2>2, <2>3, JobOnlyKeeps DEF Load, fetcherVars
<1>5. CASE /\ job' = [job EXCEPT ![p].at = "locate", ![p].pins = lock[p].sums]
           /\ UNCHANGED <<outcome, fetch>> /\ Matches(p)
  <2>1. lock[p].sums \in [Jars -> Sums]
    BY <1>1, <1>5, LockShapes DEF ProjectOK, Matches
  <2>2. [job[p] EXCEPT !.at = "locate", !.pins = lock[p].sums] \in Jobs
    BY <1>2, <2>1 DEF Jobs
  <2>3. PICK g \in Jobs : g = [job[p] EXCEPT !.at = "locate", !.pins = lock[p].sums]
    BY <2>2
  <2>4. JobBecomes(p, g)
    BY <1>1, <1>5, <2>3 DEF JobBecomes, ProjectOK
  <2>5. g.at = "locate" /\ g.second = job[p].second /\ g.next = job[p].next
    BY <1>2, <2>3 DEF Jobs
  <2>6. QED BY <1>4, <1>5, <2>4, <2>5
<1>6. CASE /\ job' = [job EXCEPT ![p].at = "resolve", ![p].fresh = TRUE]
           /\ UNCHANGED <<outcome, fetch>>
  <2>1. [job[p] EXCEPT !.at = "resolve", !.fresh = TRUE] \in Jobs
    BY <1>2 DEF Jobs
  <2>2. PICK g \in Jobs : g = [job[p] EXCEPT !.at = "resolve", !.fresh = TRUE]
    BY <2>1
  <2>3. JobBecomes(p, g)
    BY <1>1, <1>6, <2>2 DEF JobBecomes, ProjectOK
  <2>4. g.at = "resolve" /\ g.second = job[p].second /\ g.next = job[p].next
    BY <1>2, <2>2 DEF Jobs
  <2>5. QED BY <1>4, <1>6, <2>3, <2>4
<1>7. QED BY <1>3, <1>5, <1>6 DEF Load

LEMMA ResolveKeeps ==
  ASSUME IInv, NEW p \in Projects, Resolve(p)
  PROVE  IInv'
<1>1. ProjectOK /\ FetchOK /\ ProjectInv(p) /\ Running(p)
  BY DEF IInv, TypeOK, Resolve, Is, Running
<1>2. job[p] \in Jobs /\ job[p].at = "resolve" /\ trial \in Bounds
  BY <1>1, JobShapes DEF Resolve, Is, ProjectOK
<1>3. CASE Spend("failures") /\ End(p, "failed")
  <2>1. trial' \in Bounds /\ trial'.together = trial.together
    BY <1>2, <1>3, Spent
  <2>2. QED
    BY <1>1, <1>3, <2>1, EndKeeps DEF Resolve, Results
<1>4. CASE Jump(p, "locate") /\ UNCHANGED <<outcome, fetch, trial>>
  <2>1. /\ job' \in [Projects -> Jobs \cup {NoJob}] /\ job'[p] \in Jobs
        /\ job'[p].at = "locate" /\ job'[p].second = job[p].second
        /\ job'[p].next = job[p].next
        /\ \A q \in Projects : q # p => job'[q] = job[q]
    BY <1>1, <1>4, Jumped DEF Steps
  <2>2. Idle(p)' /\ Waves(p)'
    BY <1>1, <1>2, <1>4, <2>1 DEF ProjectInv, Idle, Waves, Running, Is
  <2>3. ~trial.together => Known(p)'
    BY <1>1, <1>4, <2>1 DEF ProjectInv, Known, Is, Resolve, project, outcome
  <2>4. QED
    BY <1>1, <1>2, <1>4, <2>1, <2>2, <2>3, JobOnlyKeeps DEF Resolve, fetcherVars
<1>5. QED BY <1>3, <1>4 DEF Resolve

\* The fetches that start, and the others.
LEMMA Started ==
  ASSUME ProjectOK, FetchOK, NEW p \in Projects, Running(p), NEW S \in SUBSET Jars,
         fetch' = [fetch EXCEPT ![p] = Start(p, S)]
  PROVE  /\ FetchOK'
         /\ \A q \in Projects : q # p => fetch'[q] = fetch[q]
         /\ \A j \in S : /\ fetch'[p][j].at = "look" /\ fetch'[p][j].name = Plain
                         /\ fetch'[p][j] # NoFetch
         /\ \A j \in Jars \ S : fetch'[p][j] = fetch[p][j]
<1>1. job[p] \in Jobs
  BY JobShapes
<1> DEFINE B(j) == Begin(j, job[p].pins[j], Offline(p), job[p].kind = "update")
<1>2. ASSUME NEW j \in Jars
      PROVE  B(j) \in Fetches /\ B(j).at = "look" /\ B(j).name = Plain
  <2>1. job[p].pins[j] \in Sums
    BY <1>1 DEF Jobs
  <2>2. Offline(p) \in BOOLEAN
    BY DEF Offline
  <2>3. QED BY <2>1, <2>2 DEF Begin, Fetches, Sums, NoSum, Plain
<1>3. \A j \in Jars : Start(p, S)[j] = IF j \in S THEN B(j) ELSE fetch[p][j]
  BY DEF Start
<1> HIDE DEF B
<1>4. Start(p, S) \in [Jars -> Fetches \cup {NoFetch}]
  <2>1. DOMAIN Start(p, S) = Jars /\ Start(p, S) = [j \in Jars |-> Start(p, S)[j]]
    BY DEF Start
  <2>2. \A j \in Jars : Start(p, S)[j] \in Fetches \cup {NoFetch}
    BY <1>2, <1>3 DEF FetchOK
  <2>3. QED BY <2>1, <2>2
<1>5. FetchOK' /\ fetch'[p] = Start(p, S) /\ \A q \in Projects : q # p => fetch'[q] = fetch[q]
  BY <1>4 DEF FetchOK
<1>6. \A j \in S : B(j) # NoFetch
  BY <1>2 DEF NoFetch
<1>7. QED BY <1>2, <1>3, <1>5, <1>6

LEMMA LocateKeeps ==
  ASSUME IInv, NEW p \in Projects, Locate(p)
  PROVE  IInv'
<1>1. ProjectOK /\ FetchOK /\ ProjectInv(p) /\ Running(p)
  BY DEF IInv, TypeOK, Locate, Is, Running
<1>2. job[p] \in Jobs /\ job[p].at = "locate" /\ Wanted(p) \subseteq Jars /\ trial \in Bounds
  BY <1>1, JobShapes, WantedJars DEF Locate, Is, ProjectOK
<1>3. PICK S \in SUBSET Jars :
        /\ S # {} => job[p].kind = "build"
        /\ job' = [job EXCEPT ![p].at = "first", ![p].second = S]
        /\ fetch' = [fetch EXCEPT ![p] = Start(p, Wanted(p) \ S)]
  <2>1. (Wanted(p) \ Compiles) \in SUBSET Jars /\ {} \in SUBSET Jars
    BY <1>2
  <2>2. QED BY <2>1 DEF Locate
<1>4. [job[p] EXCEPT !.at = "first", !.second = S] \in Jobs
  BY <1>2 DEF Jobs
<1>5. PICK g \in Jobs : g = [job[p] EXCEPT !.at = "first", !.second = S]
  BY <1>4
<1>6. g.at = "first" /\ g.second = S /\ g.kind = job[p].kind /\ g.next = job[p].next
      /\ g.of = job[p].of
  BY <1>2, <1>5 DEF Jobs
<1>7. JobBecomes(p, g)
  BY <1>1, <1>3, <1>5 DEF JobBecomes, ProjectOK
<1>8. /\ job' \in [Projects -> Jobs \cup {NoJob}] /\ job'[p] = g
      /\ \A q \in Projects : q # p => job'[q] = job[q]
  BY <1>1, <1>7, JobBecame
<1>9. PICK W \in SUBSET Jars : W = Wanted(p) \ S
  BY <1>2
<1>10. /\ FetchOK'
       /\ \A q \in Projects : q # p => fetch'[q] = fetch[q]
       /\ \A j \in W : /\ fetch'[p][j].at = "look" /\ fetch'[p][j].name = Plain
                       /\ fetch'[p][j] # NoFetch
       /\ \A j \in Jars \ W : fetch'[p][j] = fetch[p][j]
  BY <1>1, <1>3, <1>9, Started
<1>11. Idle(p)' /\ Waves(p)'
  <2>1. Wanted(p)' = Wanted(p)
    BY <1>6, <1>8 DEF Wanted
  <2>2. job[p].next = "register"
    BY <1>1, <1>2 DEF ProjectInv, Waves
  <2>3. Idle(p)'
    BY <1>6, <1>8 DEF Idle
  <2>4. QED BY <1>3, <1>6, <1>8, <1>9, <1>10, <2>1, <2>2, <2>3 DEF Waves, Is
<1>12. ASSUME ~trial.together
       PROVE  Known(p)' /\ PinnedIn(lock[p])' /\ PinnedIn(aside[p])' /\ Repeats(p)'
  <2>1. Known(p) /\ PinnedIn(lock[p]) /\ PinnedIn(aside[p]) /\ Repeats(p)
    BY <1>1, <1>12 DEF ProjectInv
  <2>2. UNCHANGED <<lock, aside, ended, owns, known, cache>>
    BY DEF Locate, project, outcome
  <2>3. Known(p)'
    BY <1>6, <1>8, <2>1, <2>2 DEF Known, Is
  <2>4. QED BY <2>1, <2>2, <2>3 DEF PinnedIn, Repeats, Cached, Steady
<1>13. trial' = trial
  BY DEF Locate
<1>14. ProjectInv(p)'
  BY <1>11, <1>12, <1>13 DEF ProjectInv
<1>15. UNCHANGED <<served, cache, record, lock, aside, known, ended, owns, prune>>
       /\ manifest' = manifest
  BY DEF Locate, project, outcome
<1>16. ProjectOK'
  BY <1>1, <1>8, <1>13, <1>15 DEF ProjectOK
<1>17. QED
  BY <1>1, <1>8, <1>10, <1>13, <1>14, <1>15, <1>16, JobStepKeeps

\* What is no longer under way and was not lost is in.
LEMMA AllIn ==
  ASSUME FetchOK, NEW p \in Projects, NEW S \in SUBSET Jars, ~Lost(p, S),
         \A j \in S : Over(p, j) /\ fetch[p][j] # NoFetch
  PROVE  \A j \in S : fetch[p][j].at = "in"
<1>1. ASSUME NEW j \in S PROVE fetch[p][j].at = "in"
  <2>1. fetch[p][j].at \in {"none", "in", "failed"} /\ fetch[p][j].at # "failed"
    BY DEF Lost, Over
  <2>2. fetch[p][j] \in Fetches
    BY DEF FetchOK
  <2>3. fetch[p][j].at # "none"
    BY <2>2 DEF Fetches
  <2>4. QED BY <2>1, <2>3
<1>2. QED BY <1>1

LEMMA FirstInKeeps ==
  ASSUME IInv, NEW p \in Projects, FirstIn(p)
  PROVE  IInv'
<1>1. ProjectOK /\ FetchOK /\ ProjectInv(p) /\ Running(p)
  BY DEF IInv, TypeOK, FirstIn, Is, Running
<1>2. job[p] \in Jobs /\ job[p].at = "first" /\ Wanted(p) \subseteq Jars /\ trial \in Bounds
  BY <1>1, JobShapes, WantedJars DEF FirstIn, Is, ProjectOK
<1>3. CASE End(p, "failed")
  BY <1>1, <1>2, <1>3, EndKeeps DEF FirstIn, Results
<1>4. CASE /\ ~Lost(p, Wanted(p) \ job[p].second)
           /\ fetch' = [fetch EXCEPT ![p] = Start(p, job[p].second)]
           /\ Jump(p, IF LockNow(p) THEN "truncate" ELSE "register")
           /\ UNCHANGED outcome
  <2>1. PICK W \in SUBSET Jars : W = Wanted(p) \ job[p].second
    BY <1>2
  <2>2. \A j \in W : fetch[p][j].at = "in"
    <3>1. \A j \in W : Over(p, j) /\ fetch[p][j] # NoFetch
      BY <1>1, <1>2, <2>1 DEF FirstIn, ProjectInv, Waves, Is
    <3>2. ~Lost(p, W)
      BY <1>4, <2>1
    <3>3. QED BY <1>1, <3>1, <3>2, AllIn
  <2>3. PICK S \in SUBSET Jars : S = job[p].second
    BY <1>2 DEF Jobs
  <2>3a. fetch' = [fetch EXCEPT ![p] = Start(p, S)]
    BY <1>4, <2>3
  <2>4. /\ FetchOK'
        /\ \A q \in Projects : q # p => fetch'[q] = fetch[q]
        /\ \A j \in S : /\ fetch'[p][j].at = "look" /\ fetch'[p][j].name = Plain
                        /\ fetch'[p][j] # NoFetch
        /\ \A j \in Jars \ S : fetch'[p][j] = fetch[p][j]
    BY <1>1, <2>3a, Started
  <2>5. PICK step \in Steps : /\ step = IF LockNow(p) THEN "truncate" ELSE "register"
                              /\ Jump(p, step)
    BY <1>4 DEF Steps
  <2>6. /\ job' \in [Projects -> Jobs \cup {NoJob}] /\ job'[p] \in Jobs
        /\ job'[p].at = step /\ job'[p].kind = job[p].kind /\ job'[p].of = job[p].of
        /\ job'[p].second = S /\ job'[p].next = job[p].next
        /\ \A q \in Projects : q # p => job'[q] = job[q]
    BY <1>1, <2>3, <2>5, Jumped
  <2>7. step \in {"truncate", "register"} /\ (step = "truncate" => S = {})
    BY <2>3, <2>5 DEF LockNow
  <2>8. Idle(p)'
    BY <2>6, <2>7 DEF Idle
  <2>9. Waves(p)'
    <3>1. Wanted(p)' = Wanted(p) /\ W = Wanted(p) \ S
      BY <2>1, <2>3, <2>6 DEF Wanted
    <3>2. (job[p].second # {} => job[p].kind = "build") /\ job[p].next = "register"
      BY <1>1, <1>2 DEF ProjectInv, Waves
    <3>3. \A j \in W : fetch'[p][j].at = "in"
      BY <2>2, <2>4, <3>1
    <3>4. QED BY <2>3, <2>4, <2>6, <2>7, <3>1, <3>2, <3>3 DEF Waves, Is
  <2>10. ASSUME ~trial.together
         PROVE  Known(p)' /\ PinnedIn(lock[p])' /\ PinnedIn(aside[p])' /\ Repeats(p)'
    <3>1. Known(p) /\ PinnedIn(lock[p]) /\ PinnedIn(aside[p]) /\ Repeats(p)
      BY <1>1, <2>10 DEF ProjectInv
    <3>2. UNCHANGED <<lock, aside, ended, owns, known, cache>>
      BY <1>4 DEF FirstIn, project, outcome
    <3>3. job[p].next = "register"
      BY <1>1, <1>2 DEF ProjectInv, Waves
    <3>4. Known(p)'
      BY <2>6, <2>7, <3>1, <3>2, <3>3 DEF Known, Is
    <3>5. QED BY <3>1, <3>2, <3>4 DEF PinnedIn, Repeats, Cached, Steady
  <2>11. UNCHANGED <<served, cache, record, lock, aside, known, ended, owns, prune, trial>>
         /\ manifest' = manifest
    BY <1>4 DEF FirstIn, project, outcome
  <2>12. ProjectOK' /\ ProjectInv(p)'
    BY <1>1, <2>6, <2>8, <2>9, <2>10, <2>11 DEF ProjectOK, ProjectInv
  <2>13. QED
    BY <1>1, <2>4, <2>6, <2>11, <2>12, JobStepKeeps
<1>5. QED BY <1>3, <1>4 DEF FirstIn

\* A command writes its lock, as l, and goes on.
LEMMA LockKeeps ==
  ASSUME IInv, NEW p \in Projects, Running(p), NEW l \in Locks \ {NoLock},
         lock' = [lock EXCEPT ![p] = l],
         UNCHANGED <<fetcherVars, manifest, aside, known, outcome, prune, trial>>,
         NEW step \in {"fill", "register", "compile", "end"}, Jump(p, step),
         Waves(p)', ~trial.together => PinnedIn(l),
         ~trial.together /\ step # "register" /\ (step = "fill" => job[p].next # "register")
           => p \in known
  PROVE  IInv'
<1>1. ProjectOK /\ FetchOK /\ ProjectInv(p)
  BY DEF IInv, TypeOK
<1>2. /\ job' \in [Projects -> Jobs \cup {NoJob}] /\ job'[p] \in Jobs
      /\ job'[p].at = step /\ job'[p].next = job[p].next
      /\ \A q \in Projects : q # p => job'[q] = job[q]
  BY <1>1, Jumped DEF Steps
<1>3. /\ lock' \in [Projects -> Locks] /\ lock'[p] = l
      /\ \A q \in Projects : q # p => lock'[q] = lock[q]
  BY <1>1 DEF ProjectOK
<1>4. UNCHANGED <<served, cache, record, fetch, aside, known, ended, owns, prune, trial>>
      /\ manifest' = manifest
  BY DEF fetcherVars, outcome
<1>5. ProjectOK' /\ FetchOK'
  BY <1>1, <1>2, <1>3, <1>4 DEF ProjectOK, FetchOK
<1>6. Idle(p)'
  BY <1>2 DEF Idle
<1>7. l.state # "none"
  BY LockShapes
<1>8. ASSUME ~trial.together
      PROVE  Known(p)' /\ PinnedIn(lock[p])' /\ PinnedIn(aside[p])' /\ Repeats(p)'
  <2>1. Known(p) /\ PinnedIn(aside[p]) /\ Repeats(p)
    BY <1>1, <1>8 DEF ProjectInv
  <2>2. Known(p)'
    BY <1>2, <1>3, <1>4, <1>7, <1>8, <2>1 DEF Known, Is
  <2>3. PinnedIn(lock[p])' /\ PinnedIn(aside[p])'
    BY <1>3, <1>4, <1>8, <2>1 DEF PinnedIn
  <2>4. Repeats(p)'
    BY <1>4, <2>1 DEF Repeats, Cached, Steady
  <2>5. QED BY <2>2, <2>3, <2>4
<1>9. ProjectInv(p)'
  BY <1>4, <1>6, <1>8 DEF ProjectInv
<1>10. QED
  BY <1>2, <1>3, <1>4, <1>5, <1>9, JobStepKeeps

LEMMA TruncateKeeps ==
  ASSUME IInv, NEW p \in Projects, Truncate(p)
  PROVE  IInv'
<1>1. ProjectOK /\ ProjectInv(p) /\ Running(p) /\ job[p].at = "truncate"
  BY DEF IInv, TypeOK, Truncate, Is, Running
<1>2. /\ job'[p].at = "fill" /\ job'[p].of = job[p].of /\ job'[p].second = job[p].second
      /\ job'[p].kind = job[p].kind /\ job'[p].next = job[p].next
  BY <1>1, Jumped DEF Truncate, Steps
<1>3. Waves(p)'
  BY <1>1, <1>2 DEF ProjectInv, Waves, Wanted, Is, Running, Truncate, fetcherVars
<1>4. TornLock \in Locks \ {NoLock} /\ PinnedIn(TornLock)
  BY DEF Locks, TornLock, NoLock, PinnedIn
<1>5. ~trial.together /\ job[p].next # "register" => p \in known
  BY <1>1 DEF ProjectInv, Known
<1>6. PICK l \in Locks \ {NoLock} : l = TornLock
  BY <1>4
<1>7. lock' = [lock EXCEPT ![p] = l] /\ PinnedIn(l)
  BY <1>4, <1>6 DEF Truncate
<1>8. QED
  BY <1>1, <1>3, <1>5, <1>7, LockKeeps DEF Truncate

LEMMA FillKeeps ==
  ASSUME IInv, NEW p \in Projects, Fill(p)
  PROVE  IInv'
<1>1. ProjectOK /\ FetchOK /\ ProjectInv(p) /\ Running(p) /\ job[p].at = "fill"
  BY DEF IInv, TypeOK, Fill, Is, Running
<1>2. job[p] \in Jobs /\ Wanted(p) \subseteq Jars
  BY <1>1, JobShapes, WantedJars
<1>3. PICK step \in {"register", "compile", "end"} : step = job[p].next
  BY <1>2 DEF Jobs
<1>4. /\ job'[p].at = step /\ job'[p].of = job[p].of /\ job'[p].second = job[p].second
      /\ job'[p].kind = job[p].kind /\ job'[p].next = job[p].next
  BY <1>1, <1>3, Jumped DEF Fill, Steps
<1>5. Waves(p)'
  BY <1>1, <1>3, <1>4 DEF ProjectInv, Waves, Wanted, Is, Running, Fill, fetcherVars
<1> DEFINE s(j) == IF fetch[p][j].at = "in" THEN fetch[p][j].sum ELSE NoSum
<1>6. \A j \in Jars : s(j) \in Sums
  <2>1. ASSUME NEW j \in Jars, fetch[p][j].at = "in" PROVE fetch[p][j] \in Fetches
    BY <1>1, <2>1 DEF FetchOK, NoFetch
  <2>2. QED BY <2>1 DEF Fetches, Sums, NoSum
<1>7. ~trial.together => \A j \in Wanted(p) \ Snapshots : s(j) # NoSum
  <2>1. ASSUME ~trial.together, NEW j \in Wanted(p) \ Snapshots PROVE s(j) # NoSum
    <3>1. fetch[p][j].at = "in"
      BY <1>1 DEF ProjectInv, Waves, Is
    <3>2. Kept(p, j)
      BY <1>2, <2>1 DEF IInv, FetchInv
    <3>3. QED BY <3>1, <3>2 DEF Kept, At
  <2>2. QED BY <2>1
<1> HIDE DEF s
<1>8. [j \in Jars |-> s(j)] \in [Jars -> Sums]
  BY <1>6
<1>9. [state |-> "whole", of |-> job[p].of, sums |-> [j \in Jars |-> s(j)]] \in Locks \ {NoLock}
  BY <1>2, <1>8 DEF Locks, Jobs, NoLock
<1>10. PICK l \in Locks \ {NoLock} :
         l = [state |-> "whole", of |-> job[p].of, sums |-> [j \in Jars |-> s(j)]]
  BY <1>9
<1>11. lock' = [lock EXCEPT ![p] = l]
  BY <1>10 DEF Fill, s
<1>12. ~trial.together => PinnedIn(l)
  <2>1. l.of = job[p].of /\ \A j \in Jars : l.sums[j] = s(j)
    BY <1>10
  <2>2. Graph[job[p].of] = Wanted(p)
    BY DEF Wanted
  <2>3. QED BY <1>2, <1>7, <2>1, <2>2 DEF PinnedIn
<1>13. ~trial.together /\ step # "register" => p \in known
  BY <1>1, <1>3 DEF ProjectInv, Known
<1>14. Jump(p, step)
  BY <1>3 DEF Fill
<1>15. QED
  BY <1>1, <1>5, <1>11, <1>12, <1>13, <1>14, LockKeeps DEF Fill

\* A command jumps: what is said of it still holds.
LEMMA JumpKeeps ==
  ASSUME IInv, NEW p \in Projects, Running(p),
         NEW step \in {"compile", "end"}, Jump(p, step),
         UNCHANGED <<fetcherVars, project, outcome, prune, trial>>,
         known' = known \/ known' = job[p].known \cup {p},
         ~trial.together => known \subseteq known',
         p \in known', job[p].at \in {"register", "record"},
         step = "end" => job[p].second = {}
  PROVE  IInv'
<1>1. ProjectOK /\ FetchOK /\ ProjectInv(p)
  BY DEF IInv, TypeOK
<1>2. job[p] \in Jobs
  BY <1>1, JobShapes
<1>3. /\ job' \in [Projects -> Jobs \cup {NoJob}] /\ job'[p] \in Jobs
      /\ job'[p].at = step /\ job'[p].next = job[p].next /\ job'[p].of = job[p].of
      /\ job'[p].second = job[p].second /\ job'[p].kind = job[p].kind
      /\ \A q \in Projects : q # p => job'[q] = job[q]
  BY <1>1, Jumped DEF Steps
<1>4. UNCHANGED <<served, cache, record, fetch, lock, aside, ended, owns, prune, trial>>
      /\ manifest' = manifest
  BY DEF fetcherVars, project, outcome
<1>5. known' \subseteq Projects
  BY <1>1, <1>2 DEF ProjectOK, Jobs
<1>6. ProjectOK' /\ FetchOK'
  BY <1>1, <1>3, <1>4, <1>5 DEF ProjectOK, FetchOK
<1>7. Idle(p)'
  BY <1>3 DEF Idle
<1>8. Waves(p)'
  BY <1>1, <1>3, <1>4 DEF ProjectInv, Waves, Wanted, Is, Running
<1>9. ASSUME ~trial.together
      PROVE  Known(p)' /\ PinnedIn(lock[p])' /\ PinnedIn(aside[p])' /\ Repeats(p)'
  <2>1. Known(p) /\ PinnedIn(lock[p]) /\ PinnedIn(aside[p]) /\ Repeats(p)
    BY <1>1, <1>9 DEF ProjectInv
  <2>2. Known(p)'
    BY <1>3, <1>4, <2>1 DEF Known, Is
  <2>3. QED BY <1>4, <2>1, <2>2 DEF PinnedIn, Repeats, Cached, Steady
<1>10. ProjectInv(p)'
  BY <1>4, <1>7, <1>8, <1>9 DEF ProjectInv
<1>11. QED
  BY <1>3, <1>4, <1>6, <1>10, JobStepKeeps

LEMMA WhenRegistered ==
  ASSUME ProjectOK, NEW p \in Projects, Running(p), Waves(p)
  PROVE  /\ Registered(p) \in {"compile", "end"}
         /\ Registered(p) = "end" => job[p].second = {}
BY DEF Registered, Waves

LEMMA RegisterKeeps ==
  ASSUME IInv, NEW p \in Projects, Register(p)
  PROVE  IInv'
<1>1. ProjectOK /\ ProjectInv(p) /\ Waves(p) /\ Running(p) /\ job[p].at = "register"
  BY DEF IInv, TypeOK, Register, Is, Running, ProjectInv
<1>2. job[p] \in Jobs /\ trial \in Bounds
  BY <1>1, JobShapes DEF ProjectOK
<1>3. CASE p \in known /\ Jump(p, Registered(p))
  <2>1. PICK step \in {"compile", "end"} : step = Registered(p)
    BY <1>1, WhenRegistered
  <2>2. Jump(p, step) /\ (step = "end" => job[p].second = {})
    BY <1>1, <1>3, <2>1, WhenRegistered
  <2>3. UNCHANGED <<fetcherVars, project, outcome, prune, trial>> /\ known' = known
    BY DEF Register
  <2>4. QED BY <1>1, <1>3, <2>2, <2>3, JumpKeeps
<1>4. CASE job' = [job EXCEPT ![p].at = "record", ![p].known = known]
  <2>1. [job[p] EXCEPT !.at = "record", !.known = known] \in Jobs
    BY <1>1, <1>2 DEF Jobs, ProjectOK
  <2>2. PICK g \in Jobs : g = [job[p] EXCEPT !.at = "record", !.known = known]
    BY <2>1
  <2>3. JobBecomes(p, g)
    BY <1>1, <1>4, <2>2 DEF JobBecomes, ProjectOK
  <2>4. /\ g.at = "record" /\ g.known = known /\ g.second = job[p].second
        /\ g.next = job[p].next /\ g.kind = job[p].kind /\ g.of = job[p].of
    BY <1>2, <2>2 DEF Jobs
  <2>5. /\ job' \in [Projects -> Jobs \cup {NoJob}] /\ job'[p] = g
        /\ \A q \in Projects : q # p => job'[q] = job[q]
    BY <1>1, <2>3, JobBecame
  <2>6. Idle(p)' /\ Waves(p)'
    BY <1>1, <2>4, <2>5
       DEF Idle, Waves, Wanted, Is, Running, Register, fetcherVars
  <2>7. ~trial.together => Known(p)'
    BY <1>1, <2>4, <2>5 DEF ProjectInv, Known, Is, Register, project, outcome
  <2>8. QED
    BY <1>1, <1>2, <2>4, <2>5, <2>6, <2>7, JobOnlyKeeps DEF Register
<1>5. QED BY <1>3, <1>4 DEF Register

LEMMA RecordKeeps ==
  ASSUME IInv, NEW p \in Projects, Record(p)
  PROVE  IInv'
<1>1. ProjectOK /\ ProjectInv(p) /\ Waves(p) /\ Running(p) /\ job[p].at = "record"
  BY DEF IInv, TypeOK, Record, Is, Running, ProjectInv
<1>2. PICK step \in {"compile", "end"} : step = Registered(p)
  BY <1>1, WhenRegistered
<1>3. Jump(p, step) /\ (step = "end" => job[p].second = {})
  BY <1>1, <1>2, WhenRegistered DEF Record
<1>4. /\ UNCHANGED <<fetcherVars, project, outcome, prune, trial>>
      /\ known' = job[p].known \cup {p}
  BY DEF Record
<1>5. ~trial.together => known \subseteq known'
  BY <1>1, <1>4 DEF ProjectInv, Known, Is
<1>6. p \in known'
  BY <1>4
<1>7. QED
  BY <1>1, <1>3, <1>4, <1>5, <1>6, JumpKeeps

LEMMA CompileKeeps ==
  ASSUME IInv, NEW p \in Projects, Compile(p)
  PROVE  IInv'
<1>1. ProjectOK /\ ProjectInv(p) /\ Running(p) /\ job[p].at = "compile"
  BY DEF IInv, TypeOK, Compile, Is, Running
<1>2. job[p] \in Jobs /\ trial \in Bounds
  BY <1>1, JobShapes DEF ProjectOK
<1>3. CASE Spend("failures") /\ End(p, "failed")
  <2>1. trial' \in Bounds /\ trial'.together = trial.together
    BY <1>2, <1>3, Spent
  <2>2. QED
    BY <1>1, <1>3, <2>1, EndKeeps DEF Compile, Results
<1>4. ASSUME NEW step \in {"end", "join"}, NEW next \in {"end", "compile"},
             step = "end" => job[p].second = {},
             job' = [job EXCEPT ![p].at = step, ![p].next = next],
             UNCHANGED <<outcome, fetch, trial>>
      PROVE  IInv'
  <2>1. [job[p] EXCEPT !.at = step, !.next = next] \in Jobs
    BY <1>2 DEF Jobs
  <2>2. PICK g \in Jobs : g = [job[p] EXCEPT !.at = step, !.next = next]
    BY <2>1
  <2>3. JobBecomes(p, g)
    BY <1>1, <1>4, <2>2 DEF JobBecomes, ProjectOK
  <2>4. /\ g.at = step /\ g.second = job[p].second /\ g.kind = job[p].kind
        /\ g.of = job[p].of
    BY <1>2, <2>2 DEF Jobs
  <2>5. /\ job' \in [Projects -> Jobs \cup {NoJob}] /\ job'[p] = g
        /\ \A q \in Projects : q # p => job'[q] = job[q]
    BY <1>1, <2>3, JobBecame
  <2>6. Idle(p)' /\ Waves(p)'
    BY <1>1, <1>4, <2>4, <2>5 DEF ProjectInv, Idle, Waves, Wanted, Is, Running
  <2>7. ~trial.together => Known(p)'
    BY <1>1, <1>4, <2>4, <2>5 DEF ProjectInv, Known, Is, Compile, project, outcome
  <2>8. QED
    BY <1>1, <1>2, <1>4, <2>5, <2>6, <2>7, JobOnlyKeeps DEF Compile, fetcherVars
<1>5. CASE /\ job' = [job EXCEPT ![p].at = IF job[p].second = {} THEN "end" ELSE "join",
                                 ![p].next = "end"]
           /\ UNCHANGED <<outcome, fetch, trial>>
  <2>1. PICK step \in {"end", "join"} : step = IF job[p].second = {} THEN "end" ELSE "join"
    OBVIOUS
  <2>2. job' = [job EXCEPT ![p].at = step, ![p].next = "end"]
    BY <1>5, <2>1
  <2>3. QED BY <1>4, <1>5, <2>1, <2>2
<1>6. CASE /\ job' = [job EXCEPT ![p].at = "join", ![p].next = "compile"]
           /\ UNCHANGED <<outcome, fetch, trial>>
  BY <1>4, <1>6
<1>7. QED BY <1>3, <1>5, <1>6 DEF Compile

LEMMA JoinKeeps ==
  ASSUME IInv, NEW p \in Projects, Join(p)
  PROVE  IInv'
<1>1. ProjectOK /\ FetchOK /\ ProjectInv(p) /\ Running(p) /\ job[p].at = "join"
  BY DEF IInv, TypeOK, Join, Is, Running
<1>2. job[p] \in Jobs /\ Wanted(p) \subseteq Jars /\ trial \in Bounds
  BY <1>1, JobShapes, WantedJars DEF ProjectOK
<1>3. CASE End(p, "failed")
  BY <1>1, <1>2, <1>3, EndKeeps DEF Join, Results
<1>4. CASE /\ ~Lost(p, job[p].second)
           /\ job' = [job EXCEPT ![p].at = IF job[p].fresh THEN "truncate" ELSE job[p].next,
                                 ![p].second = {}]
           /\ UNCHANGED <<outcome, fetch>>
  <2>1. PICK S \in SUBSET Jars : S = job[p].second
    BY <1>2 DEF Jobs
  <2>2. \A j \in S : fetch[p][j].at = "in"
    <3>1. \A j \in S : Over(p, j) /\ fetch[p][j] # NoFetch
      BY <1>1, <2>1 DEF Join, ProjectInv, Waves, Is
    <3>2. ~Lost(p, S)
      BY <1>4, <2>1
    <3>3. QED BY <1>1, <3>1, <3>2, AllIn
  <2>3. \A j \in Wanted(p) : fetch[p][j].at = "in"
    BY <1>1, <2>1, <2>2 DEF ProjectInv, Waves
  <2>4. PICK step \in {"truncate", "register", "compile", "end"} :
          step = IF job[p].fresh THEN "truncate" ELSE job[p].next
    BY <1>2 DEF Jobs
  <2>5. [job[p] EXCEPT !.at = step, !.second = {}] \in Jobs
    BY <1>2 DEF Jobs
  <2>6. PICK g \in Jobs : g = [job[p] EXCEPT !.at = step, !.second = {}]
    BY <2>5
  <2>7. JobBecomes(p, g)
    BY <1>1, <1>4, <2>4, <2>6 DEF JobBecomes, ProjectOK
  <2>8. /\ g.at = step /\ g.second = {} /\ g.kind = job[p].kind
        /\ g.of = job[p].of
    BY <1>2, <2>6 DEF Jobs
  <2>9. /\ job' \in [Projects -> Jobs \cup {NoJob}] /\ job'[p] = g
        /\ \A q \in Projects : q # p => job'[q] = job[q]
    BY <1>1, <2>7, JobBecame
  <2>10. fetch' = fetch /\ UNCHANGED <<outcome, known, lock, trial>>
    BY <1>4 DEF Join, project
  <2>11. Idle(p)' /\ Waves(p)'
    BY <2>3, <2>8, <2>9, <2>10 DEF Idle, Waves, Wanted, Is, Running
  <2>12. ~trial.together => Known(p)'
    <3>1. ~trial.together => Known(p) /\ p \in known
      BY <1>1 DEF ProjectInv, Known
    <3>2. QED BY <2>8, <2>9, <2>10, <3>1 DEF Known, Is, outcome
  <2>13. QED
    BY <1>1, <1>2, <1>4, <2>9, <2>10, <2>11, <2>12, JobOnlyKeeps DEF Join, fetcherVars
<1>5. QED BY <1>3, <1>4 DEF Join

LEMMA FinishKeeps ==
  ASSUME IInv, NEW p \in Projects, Finish(p)
  PROVE  IInv'
<1>1. ProjectOK /\ ProjectInv(p) /\ Running(p) /\ job[p].at = "end"
  BY DEF IInv, TypeOK, Finish, Is, Running
<1>2. Wanted(p) \subseteq Jars /\ trial \in Bounds
  BY <1>1, WantedJars DEF ProjectOK
<1>3. \A j \in Wanted(p) : fetch[p][j].at = "in"
  BY <1>1 DEF ProjectInv, Waves
<1>4. ASSUME ~trial.together
      PROVE  p \in known /\ Wanted(p) \cap Steady \subseteq Cached
  <2>1. p \in known
    BY <1>1, <1>4 DEF ProjectInv, Known
  <2>2. ASSUME NEW j \in Wanted(p) \cap Steady PROVE j \in Cached
    <3>1. Kept(p, j)
      BY <1>2, <1>4 DEF IInv, FetchInv
    <3>2. QED BY <1>3, <3>1 DEF Kept
  <2>3. QED BY <2>1, <2>2
<1>5. QED
  BY <1>1, <1>2, <1>4, EndKeeps DEF Finish, Results

LEMMA KillKeeps ==
  ASSUME IInv, NEW p \in Projects, Kill(p)
  PROVE  IInv'
<1>1. trial' \in Bounds /\ trial'.together = trial.together
  BY Spent DEF IInv, TypeOK, ProjectOK, Kill
<1>2. QED
  BY <1>1, EndKeeps DEF Kill, Results

-----------------------------------------------------------------------------
(* A step of a prune, and what happens around the commands.                *)

\* A step that fetches nothing, removes nothing and moves no command.
LEMMA AroundKeeps ==
  ASSUME IInv, UNCHANGED <<fetcherVars, job, ended>>, ProjectOK',
         trial'.together = trial.together,
         \A p \in Projects : ~trial.together =>
            PinnedIn(lock[p])' /\ PinnedIn(aside[p])' /\ Known(p)',
         Alone', PruneInv'
  PROVE  IInv'
<1>1. UNCHANGED <<served, cache, record, fetch, job, ended>>
  BY DEF fetcherVars
<1>2. Cached' = Cached /\ Steady' = Steady
  BY <1>1 DEF Cached, Steady
<1>3. TypeOK'
  BY <1>1, <1>2 DEF IInv, TypeOK, CacheOK, FetchOK
<1>4. ASSUME NEW c \in Projects, NEW j \in Jars PROVE FetchInv(c, j)'
  BY <1>1, <1>2 DEF IInv, FetchInv, Asking, Served, Kept, Filed, At, Repo
<1>5. ASSUME NEW j \in Jars PROVE JarInv(j)'
  BY <1>1, <1>2 DEF IInv, JarInv, Named, Trusted, Current
<1>6. ASSUME NEW p \in Projects PROVE ProjectInv(p)'
  <2>1. ProjectInv(p)
    BY DEF IInv
  <2>2. Idle(p)' /\ Waves(p)'
    BY <1>1, <2>1 DEF ProjectInv, Idle, Waves, Running, Is, Wanted
  <2>3. ~trial.together => Repeats(p)'
    BY <1>1, <1>2, <2>1 DEF ProjectInv, Repeats
  <2>4. QED BY <2>2, <2>3 DEF ProjectInv
<1>7. QED BY <1>3, <1>4, <1>5, <1>6 DEF IInv

LEMMA EditKeeps ==
  ASSUME IInv, NEW p \in Projects, Edit(p)
  PROVE  IInv'
<1>1. ProjectOK /\ trial \in Bounds
  BY DEF IInv, TypeOK, ProjectOK
<1>2. trial' \in Bounds /\ trial'.together = trial.together
  BY <1>1, Spent DEF Edit
<1>3. UNCHANGED <<fetcherVars, lock, aside, known, job, ended, owns, prune>>
  BY DEF Edit, outcome
<1>4. manifest' \in [Projects -> Manifests]
  BY <1>1 DEF Edit, ProjectOK
<1>5. ProjectOK'
  BY <1>1, <1>2, <1>3, <1>4 DEF ProjectOK
<1>6. ASSUME NEW q \in Projects, ~trial.together
      PROVE  PinnedIn(lock[q])' /\ PinnedIn(aside[q])' /\ Known(q)'
  BY <1>3, <1>6 DEF IInv, ProjectInv, PinnedIn, Known, Is
<1>7. Alone' /\ PruneInv'
  BY <1>2, <1>3 DEF IInv, Alone, PruneInv, PruneKeepsLocked, Running
<1>8. QED
  BY <1>2, <1>3, <1>5, <1>6, <1>7, AroundKeeps

LEMMA CheckoutKeeps ==
  ASSUME IInv, NEW p \in Projects, Checkout(p)
  PROVE  IInv'
<1>1. ProjectOK /\ trial \in Bounds
  BY DEF IInv, TypeOK, ProjectOK
<1>2. trial' \in Bounds /\ trial'.together = trial.together
  BY <1>1, Spent DEF Checkout
<1>3. UNCHANGED <<fetcherVars, manifest, known, job, ended, prune>>
  BY DEF Checkout
<1>4. /\ lock' \in [Projects -> Locks] /\ lock'[p] = aside[p]
      /\ aside' \in [Projects -> Locks] /\ aside'[p] = lock[p]
      /\ owns' \in [Projects -> BOOLEAN] /\ owns'[p] = FALSE
      /\ \A q \in Projects : q # p =>
            lock'[q] = lock[q] /\ aside'[q] = aside[q] /\ owns'[q] = owns[q]
  BY <1>1 DEF Checkout, ProjectOK
<1>5. ProjectOK'
  BY <1>1, <1>2, <1>3, <1>4 DEF ProjectOK
<1>6. ASSUME NEW q \in Projects, ~trial.together
      PROVE  PinnedIn(lock[q])' /\ PinnedIn(aside[q])' /\ Known(q)'
  <2>1. PinnedIn(lock[q]) /\ PinnedIn(aside[q]) /\ Known(q)
    BY <1>6 DEF IInv, ProjectInv
  <2>2. CASE q = p
    BY <1>3, <1>4, <2>1, <2>2 DEF PinnedIn, Known, Is
  <2>3. CASE q # p
    BY <1>3, <1>4, <2>1, <2>3 DEF PinnedIn, Known, Is
  <2>4. QED BY <2>2, <2>3
<1>7. Alone'
  BY <1>2, <1>3 DEF IInv, Alone, Running
<1>8. PruneInv'
  BY <1>2, <1>3, <1>4 DEF IInv, PruneInv, PruneKeepsLocked
<1>9. QED
  BY <1>2, <1>3, <1>5, <1>6, <1>7, <1>8, AroundKeeps

LEMMA PruneStartKeeps ==
  ASSUME IInv, PruneStart
  PROVE  IInv'
<1>1. ProjectOK /\ trial \in Bounds
  BY DEF IInv, TypeOK, ProjectOK
<1>2. trial' \in Bounds /\ trial'.together = trial.together
  BY <1>1, Spent DEF PruneStart
<1>3. UNCHANGED <<fetcherVars, manifest, lock, aside, known, job, ended, owns>>
  BY DEF PruneStart, project, outcome
<1>4. prune' = [at |-> "keep", known |-> known] /\ prune' \in Prunes
  BY <1>1 DEF PruneStart, Prunes, ProjectOK
<1>5. ProjectOK'
  BY <1>1, <1>2, <1>3, <1>4 DEF ProjectOK
<1>6. ASSUME NEW q \in Projects, ~trial.together
      PROVE  PinnedIn(lock[q])' /\ PinnedIn(aside[q])' /\ Known(q)'
  BY <1>3, <1>6 DEF IInv, ProjectInv, PinnedIn, Known, Is
<1>7. Alone'
  BY <1>2, <1>3 DEF PruneStart, MayStart, Quiet, Alone, Running
<1>8. PruneInv'
  BY <1>3, <1>4 DEF PruneInv, PruneKeepsLocked
<1>9. QED
  BY <1>2, <1>3, <1>5, <1>6, <1>7, <1>8, AroundKeeps

LEMMA PruneKeepKeeps ==
  ASSUME IInv, PruneKeep
  PROVE  IInv'
<1>1. ProjectOK /\ prune.at = "keep"
  BY DEF IInv, TypeOK, PruneKeep
<1>2. UNCHANGED <<fetcherVars, manifest, lock, aside, job, ended, owns, trial>>
  BY DEF PruneKeep, project, outcome
<1>3. prune \in [at : {"keep"}, known : SUBSET Projects]
  BY <1>1 DEF ProjectOK, Prunes, NoPrune
<1>4. PICK there \in SUBSET Projects : there = {p \in prune.known : lock[p].state # "none"}
  BY <1>3
<1>5. known' = known \/ known' = there
  BY <1>4 DEF PruneKeep
<1>6. \/ prune' = NoPrune
      \/ /\ \A p \in there : lock[p] # TornLock
         /\ prune' = [at |-> "remove", keep |-> UNION {Graph[lock[p].of] : p \in there}]
  BY <1>4 DEF PruneKeep
<1>7. prune' \in Prunes
  <2>1. CASE prune' = NoPrune
    BY <2>1 DEF Prunes
  <2>2. CASE /\ \A p \in there : lock[p] # TornLock
             /\ prune' = [at |-> "remove", keep |-> UNION {Graph[lock[p].of] : p \in there}]
    <3>1. ASSUME NEW p \in there PROVE Graph[lock[p].of] \subseteq Jars
      <4>1. lock[p] \in Locks /\ lock[p] # TornLock /\ lock[p].state # "none"
        BY <1>1, <1>4, <2>2 DEF ProjectOK
      <4>2. lock[p].state = "whole" /\ lock[p].of \in Manifests
        BY <4>1, LockShapes
      <4>3. QED BY <4>2
    <3>2. UNION {Graph[lock[p].of] : p \in there} \in SUBSET Jars
      BY <3>1
    <3>3. QED BY <2>2, <3>2 DEF Prunes
  <2>3. QED BY <1>6, <2>1, <2>2
<1>8. ProjectOK'
  BY <1>1, <1>2, <1>5, <1>7 DEF ProjectOK
<1>9. ASSUME ~trial.together
      PROVE  /\ prune.known = known
             /\ \A p \in Projects : ~Running(p)
             /\ \A p \in Projects : owns[p] => p \in there
  <2>1. prune.known = known /\ \A p \in Projects : ~Running(p)
    BY <1>1, <1>9 DEF IInv, PruneInv, Alone, NoPrune
  <2>2. ASSUME NEW p \in Projects, owns[p] PROVE p \in there
    BY <1>4, <1>9, <2>1, <2>2 DEF IInv, ProjectInv, Known
  <2>3. QED BY <2>1, <2>2
<1>10. ASSUME NEW q \in Projects, ~trial.together
       PROVE  PinnedIn(lock[q])' /\ PinnedIn(aside[q])' /\ Known(q)'
  <2>1. PinnedIn(lock[q]) /\ PinnedIn(aside[q]) /\ Known(q)
    BY <1>10 DEF IInv, ProjectInv
  <2>2. job[q].at = "idle"
    BY <1>9, <1>10 DEF Running
  <2>3. owns[q] => q \in known'
    BY <1>5, <1>9, <1>10, <2>1 DEF Known
  <2>4. Known(q)'
    BY <1>2, <2>1, <2>2, <2>3 DEF Known, Is
  <2>5. QED BY <1>2, <2>1, <2>4 DEF PinnedIn
<1>11. Alone'
  BY <1>2, <1>9 DEF Alone, Running
<1>12. PruneInv'
  <2>1. CASE prune' = NoPrune
    BY <2>1 DEF PruneInv, PruneKeepsLocked, NoPrune
  <2>2. CASE prune' = [at |-> "remove", keep |-> UNION {Graph[lock[p].of] : p \in there}]
    <3>1. prune'.at = "remove" /\ prune'.keep = UNION {Graph[lock[p].of] : p \in there}
      BY <2>2
    <3>2. \A p \in there : Graph[lock[p].of] \subseteq prune'.keep
      BY <3>1
    <3>3. QED BY <1>2, <1>9, <3>1, <3>2 DEF PruneInv, PruneKeepsLocked
  <2>3. QED BY <1>6, <2>1, <2>2
<1>13. QED
  BY <1>2, <1>8, <1>10, <1>11, <1>12, AroundKeeps

\* Jars are removed, with what is recorded of them.
LEMMA RemoveKeeps ==
  ASSUME IInv, NEW keep \in SUBSET Jars, RemoveAllBut(keep),
         UNCHANGED <<served, fetch, project, known, job, owns>>, prune' = NoPrune,
         trial' \in Bounds, trial'.together = trial.together,
         ~trial.together => \A p \in Projects : ~Running(p)
  PROVE  IInv'
<1>1. ProjectOK /\ FetchOK /\ CacheOK
  BY DEF IInv, TypeOK
<1>2. UNCHANGED <<served, fetch, manifest, lock, aside, known, job, owns>>
  BY DEF project
<1>3. /\ Cached' = Cached \cap keep
      /\ \A j \in Cached' : cache'[j] = cache[j]
      /\ cache' \in [Cached' -> Files]
  BY <1>1 DEF RemoveAllBut, Cached, CacheOK
<1>4. /\ record' \in [Jars -> Records]
      /\ \A j \in Jars : record'[j] = IF j \in keep THEN record[j] ELSE NoRecord
  BY <1>1 DEF RemoveAllBut, CacheOK, Records, NoRecord, Plain
<1>5. /\ ended' \in [Projects -> Ends]
      /\ \A p \in Projects : /\ ended'[p].result = ended[p].result
                             /\ ended'[p].jars = ended[p].jars \cap keep
  <2>1. ASSUME NEW p \in Projects
        PROVE  /\ ended'[p] \in Ends /\ ended'[p].result = ended[p].result
               /\ ended'[p].jars = ended[p].jars \cap keep
    <3>1. ended[p] \in Ends
      BY <1>1 DEF ProjectOK
    <3>2. ended'[p] = [ended[p] EXCEPT !.jars = ended[p].jars \cap keep]
      BY <3>1 DEF RemoveAllBut, Ends
    <3>3. QED BY <3>1, <3>2 DEF Ends
  <2>2. DOMAIN ended' = Projects /\ ended' = [p \in Projects |-> ended'[p]]
    BY DEF RemoveAllBut
  <2>3. QED BY <2>1, <2>2
<1>6. Steady' = Steady
  BY DEF Steady
<1>7. TypeOK'
  <2>1. CacheOK'
    BY <1>1, <1>2, <1>3, <1>4 DEF CacheOK
  <2>2. FetchOK'
    BY <1>1, <1>2 DEF FetchOK
  <2>3. ProjectOK'
    BY <1>1, <1>2, <1>5 DEF ProjectOK, Prunes
  <2>4. QED BY <2>1, <2>2, <2>3 DEF TypeOK
<1>8. ASSUME NEW c \in Projects, NEW j \in Jars PROVE FetchInv(c, j)'
  <2>1. FetchInv(c, j)
    BY DEF IInv
  <2>2. Asking(c, j)' /\ Served(c, j)'
    BY <1>2, <1>6, <2>1 DEF FetchInv, Asking, Served, At, Repo
  <2>3. ASSUME ~trial.together PROVE Kept(c, j)' /\ Filed(c, j)'
    <3>1. fetch[c][j] = NoFetch
      BY <2>3, BusyRuns
    <3>2. QED BY <1>2, <3>1 DEF Kept, Filed, At, NoFetch
  <2>4. QED BY <2>2, <2>3 DEF FetchInv
<1>9. ASSUME NEW j \in Jars PROVE JarInv(j)'
  <2>1. JarInv(j)
    BY DEF IInv
  <2>2. CASE j \in keep
    BY <1>2, <1>3, <1>4, <2>1, <2>2 DEF JarInv, Named, Trusted, Current
  <2>3. CASE j \notin keep
    BY <1>3, <1>4, <2>3 DEF JarInv, Named, Trusted, Current, NoRecord
  <2>4. QED BY <2>2, <2>3
<1>10. ASSUME NEW p \in Projects PROVE ProjectInv(p)'
  <2>1. ProjectInv(p)
    BY DEF IInv
  <2>2. Idle(p)' /\ Waves(p)'
    BY <1>2, <2>1 DEF ProjectInv, Idle, Waves, Running, Is, Wanted
  <2>3. ASSUME ~trial.together
        PROVE  PinnedIn(lock[p])' /\ PinnedIn(aside[p])' /\ Known(p)' /\ Repeats(p)'
    <3>1. PinnedIn(lock[p]) /\ PinnedIn(aside[p]) /\ Known(p) /\ Repeats(p)
      BY <2>1, <2>3 DEF ProjectInv
    <3>2. Repeats(p)'
      BY <1>3, <1>5, <1>6, <3>1 DEF Repeats
    <3>3. QED BY <1>2, <3>1, <3>2 DEF PinnedIn, Known, Is
  <2>4. QED BY <2>2, <2>3 DEF ProjectInv
<1>11. Alone' /\ PruneInv'
  BY <1>2 DEF IInv, Alone, PruneInv, PruneKeepsLocked, Running, NoPrune
<1>12. QED BY <1>7, <1>8, <1>9, <1>10, <1>11 DEF IInv

LEMMA PruneRemoveKeeps ==
  ASSUME IInv, PruneRemove
  PROVE  IInv'
<1>1. prune \in Prunes /\ prune.at = "remove" /\ trial \in Bounds
  BY DEF IInv, TypeOK, ProjectOK, PruneRemove
<1>2. prune \in [at : {"remove"}, keep : SUBSET Jars] /\ prune # NoPrune
  BY <1>1 DEF Prunes, NoPrune
<1>3. PICK keep \in SUBSET Jars : keep = prune.keep
  BY <1>2
<1>4. RemoveAllBut(keep) /\ trial' = trial
  BY <1>3 DEF PruneRemove
<1>5. ~trial.together => \A p \in Projects : ~Running(p)
  BY <1>2 DEF IInv, Alone
<1>6. QED
  BY <1>1, <1>4, <1>5, RemoveKeeps DEF PruneRemove

LEMMA PruneUnusedKeeps ==
  ASSUME IInv, PruneUnused
  PROVE  IInv'
<1>1. trial' \in Bounds /\ trial'.together = trial.together
  BY Spent DEF IInv, TypeOK, ProjectOK, PruneUnused
<1>2. PICK keep \in SUBSET Jars : RemoveAllBut(keep)
  BY DEF PruneUnused
<1>3. ~trial.together => \A p \in Projects : ~Running(p)
  BY DEF PruneUnused, MayStart, Quiet
<1>4. prune' = NoPrune
  BY DEF PruneUnused
<1>5. QED
  BY <1>1, <1>2, <1>3, <1>4, RemoveKeeps DEF PruneUnused

\* A build that is published takes the place of an older one.
LEMMA PublishKeeps ==
  ASSUME IInv, Publish
  PROVE  IInv'
<1>1. ProjectOK /\ FetchOK /\ CacheOK
  BY DEF IInv, TypeOK
<1>2. trial' \in Bounds /\ trial'.together = trial.together
  BY <1>1, Spent DEF Publish, ProjectOK
<1>3. UNCHANGED <<cache, record, fetch, manifest, lock, aside, known, job, ended, owns, prune>>
  BY DEF Publish, project, outcome
<1>4. PICK r \in Repos, j \in Jars :
        /\ served[r][j] \in 1..(Builds - 1)
        /\ served' = [served EXCEPT ![r][j] = @ + 1]
  BY DEF Publish
<1>5. served' \in [Repos -> [Jars -> 0..Builds]]
  <2>1. served[r][j] + 1 \in 0..Builds
    BY <1>4
  <2>2. served' = [served EXCEPT ![r] = [served[r] EXCEPT ![j] = served[r][j] + 1]]
    BY <1>1, <1>4 DEF CacheOK
  <2>3. QED BY <1>1, <2>1, <2>2 DEF CacheOK
<1>6. \A q \in Repos, k \in Jars :
        /\ served[q][k] \in 0..Builds /\ served'[q][k] \in 0..Builds
        /\ \/ served'[q][k] = served[q][k]
           \/ served'[q][k] = served[q][k] + 1 /\ served[q][k] # 0
  <2>1. ASSUME NEW q \in Repos, NEW k \in Jars
        PROVE  \/ served'[q][k] = served[q][k]
               \/ served'[q][k] = served[q][k] + 1 /\ served[q][k] # 0
    <3>1. served'[q] = IF q = r THEN [served[r] EXCEPT ![j] = served[r][j] + 1] ELSE served[q]
      BY <1>1, <1>4 DEF CacheOK
    <3>2. DOMAIN served[q] = Jars
      BY <1>1 DEF CacheOK
    <3>3. QED BY <1>4, <3>1, <3>2
  <2>2. ASSUME NEW q \in Repos, NEW k \in Jars
        PROVE  served[q][k] \in 0..Builds /\ served'[q][k] \in 0..Builds
    <3>1. served[q] \in [Jars -> 0..Builds]
      BY <1>1 DEF CacheOK
    <3>2. served'[q] \in [Jars -> 0..Builds]
      BY <1>5
    <3>3. QED BY <3>1, <3>2
  <2>3. QED BY <2>1, <2>2
<1>7. Cached' = Cached /\ Steady' = Steady
  BY <1>3 DEF Cached, Steady
<1>8. TypeOK'
  <2>1. CacheOK'
    BY <1>1, <1>3, <1>5, <1>7 DEF CacheOK
  <2>2. FetchOK' /\ ProjectOK'
    BY <1>1, <1>2, <1>3 DEF FetchOK, ProjectOK
  <2>3. QED BY <2>1, <2>2 DEF TypeOK
<1>9. ASSUME NEW c \in Projects, NEW k \in Jars PROVE FetchInv(c, k)'
  <2>1. FetchInv(c, k) /\ fetch' = fetch /\ Repo(c, k)' = Repo(c, k)
    BY <1>3 DEF IInv, Repo
  <2>2. ASSUME fetch[c][k].at \in {"ask", "get", "check", "store", "note"}
        PROVE  /\ Repo(c, k) \in Repos
               /\ served'[Repo(c, k)][k] = 0 <=> served[Repo(c, k)][k] = 0
               /\ served[Repo(c, k)][k] <= served'[Repo(c, k)][k]
               /\ served[Repo(c, k)][k] \in Nat /\ served'[Repo(c, k)][k] \in Nat
    <3>1. Repo(c, k) \in Repos
      BY <2>1, <2>2, AskedRepos DEF FetchInv, Asking
    <3>2. PICK q \in Repos : q = Repo(c, k)
      BY <3>1
    <3>3. /\ served'[q][k] = 0 <=> served[q][k] = 0
          /\ served[q][k] <= served'[q][k]
          /\ served[q][k] \in Nat /\ served'[q][k] \in Nat
      BY <1>6
    <3>4. QED BY <3>1, <3>2, <3>3
  <2>3. Asking(c, k)'
    <3>1. \A q \in Asked(k) : served[q][k] = 0 => served'[q][k] = 0
      BY <1>6, AskedRepos
    <3>2. QED BY <2>1, <3>1 DEF FetchInv, Asking, At
  <2>4. Served(c, k)'
    <3>1. ASSUME fetch[c][k].at \in {"get", "check", "store", "note"}
          PROVE  fetch[c][k].name \in Nat
      <4>1. fetch[c][k] \in Fetches
        BY <1>1, <3>1 DEF FetchOK, NoFetch
      <4>2. QED BY <4>1 DEF Fetches
    <3>2. QED BY <1>7, <2>1, <2>2, <3>1 DEF FetchInv, Served, At
  <2>5. ~trial.together => Kept(c, k)'
    BY <1>7, <2>1 DEF FetchInv, Kept, At
  <2>6. ~trial.together => Filed(c, k)'
    BY <1>3, <2>1, <2>2 DEF FetchInv, Filed, At, Cached
  <2>7. QED BY <1>2, <2>3, <2>4, <2>5, <2>6 DEF FetchInv
<1>10. ASSUME NEW k \in Jars PROVE JarInv(k)'
  <2>1. JarInv(k)
    BY DEF IInv
  <2>2. Trusted(k)'
    BY <1>3, <1>7, <2>1 DEF JarInv, Trusted
  <2>3. record[k] \in Records
    BY <1>1 DEF CacheOK
  <2>4. ASSUME record[k].build # Plain
        PROVE  /\ record[k].repo \in Asked(k) \cap Dated /\ record[k].repo \in Repos
               /\ served[record[k].repo][k] # 0
               /\ record[k].build <= served[record[k].repo][k]
               /\ \A q \in Asked(k) : q < record[k].repo => served[q][k] = 0
               /\ record[k].build \in Nat
    BY <2>1, <2>3, <2>4, AskedRepos DEF JarInv, Named, Records
  <2>5. Named(k)'
    <3>1. \A q \in Asked(k) : served[q][k] = 0 => served'[q][k] = 0
      BY <1>6, AskedRepos
    <3>2. record'[k] = record[k]
      BY <1>3
    <3>3. ASSUME record[k].build # Plain
          PROVE  /\ served'[record[k].repo][k] # 0
                 /\ record[k].build <= served'[record[k].repo][k]
      <4>1. PICK q \in Repos : q = record[k].repo
        BY <2>4, <3>3
      <4>2. served[q][k] # 0 /\ record[k].build <= served[q][k] /\ record[k].build \in Nat
        BY <2>4, <3>3, <4>1
      <4>3. served'[q][k] # 0 /\ record[k].build <= served'[q][k]
        BY <1>6, <4>2
      <4>4. QED BY <4>1, <4>3
    <3>4. QED BY <2>4, <3>1, <3>2, <3>3 DEF Named
  <2>6. ~trial.together => Current(k)'
    <3>1. record[k].build # Plain /\ record[k].build = served'[record[k].repo][k]
          => record[k].build = served[record[k].repo][k]
      <4>1. SUFFICES ASSUME record[k].build # Plain,
                            record[k].build = served'[record[k].repo][k]
                     PROVE  record[k].build = served[record[k].repo][k]
        OBVIOUS
      <4>2. PICK q \in Repos : q = record[k].repo
        BY <2>4, <4>1
      <4>3. /\ record[k].build = served'[q][k] /\ record[k].build <= served[q][k]
            /\ record[k].build \in Nat
        BY <2>4, <4>1, <4>2
      <4>4. record[k].build = served[q][k]
        BY <1>6, <4>3
      <4>5. QED BY <4>2, <4>4
    <3>2. QED BY <1>3, <1>7, <2>1, <3>1 DEF JarInv, Current
  <2>7. QED BY <1>2, <2>2, <2>5, <2>6 DEF JarInv
<1>11. ASSUME NEW p \in Projects PROVE ProjectInv(p)'
  BY <1>2, <1>3, <1>7
     DEF IInv, ProjectInv, Idle, Waves, Running, Is, Wanted, PinnedIn, Known, Repeats
<1>12. Alone' /\ PruneInv'
  BY <1>2, <1>3 DEF IInv, Alone, PruneInv, PruneKeepsLocked, Running
<1>13. QED BY <1>8, <1>9, <1>10, <1>11, <1>12 DEF IInv

LEMMA TomorrowKeeps ==
  ASSUME IInv, Tomorrow
  PROVE  IInv'
<1>1. ProjectOK /\ FetchOK /\ CacheOK
  BY DEF IInv, TypeOK
<1>2. trial' \in Bounds /\ trial'.together = trial.together
  BY <1>1, Spent DEF Tomorrow, ProjectOK
<1>3. UNCHANGED <<served, cache, fetch, manifest, lock, aside, known, job, ended, owns, prune>>
  BY DEF Tomorrow, project, outcome
<1>4. /\ record' \in [Jars -> Records]
      /\ \A j \in Jars : record'[j].build = record[j].build /\ record'[j].repo = record[j].repo
  <2>1. ASSUME NEW j \in Jars
        PROVE  /\ record'[j] \in Records /\ record'[j].build = record[j].build
               /\ record'[j].repo = record[j].repo
    <3>1. record[j] \in Records
      BY <1>1 DEF CacheOK
    <3>2. record'[j] = [record[j] EXCEPT !.fresh = FALSE]
      BY DEF Tomorrow
    <3>3. QED BY <3>1, <3>2 DEF Records
  <2>2. DOMAIN record' = Jars /\ record' = [j \in Jars |-> record'[j]]
    BY DEF Tomorrow
  <2>3. QED BY <2>1, <2>2
<1>5. Cached' = Cached /\ Steady' = Steady
  BY <1>3 DEF Cached, Steady
<1>6. TypeOK'
  <2>1. CacheOK'
    BY <1>1, <1>3, <1>4, <1>5 DEF CacheOK
  <2>2. FetchOK' /\ ProjectOK'
    BY <1>1, <1>2, <1>3 DEF FetchOK, ProjectOK
  <2>3. QED BY <2>1, <2>2 DEF TypeOK
<1>7. ASSUME NEW c \in Projects, NEW j \in Jars PROVE FetchInv(c, j)'
  <2>1. FetchInv(c, j) /\ Repo(c, j)' = Repo(c, j)
    BY <1>3 DEF IInv, Repo
  <2>2. Asking(c, j)' /\ Served(c, j)'
    BY <1>3, <1>5, <2>1 DEF FetchInv, Asking, Served, At
  <2>3. ~trial.together => Kept(c, j)' /\ Filed(c, j)'
    BY <1>3, <1>4, <1>5, <2>1 DEF FetchInv, Kept, Filed, At
  <2>4. QED BY <1>2, <2>2, <2>3 DEF FetchInv
<1>8. ASSUME NEW j \in Jars PROVE JarInv(j)'
  BY <1>2, <1>3, <1>4, <1>5 DEF IInv, JarInv, Named, Trusted, Current
<1>9. ASSUME NEW p \in Projects PROVE ProjectInv(p)'
  BY <1>2, <1>3, <1>5
     DEF IInv, ProjectInv, Idle, Waves, Running, Is, Wanted, PinnedIn, Known, Repeats
<1>10. Alone' /\ PruneInv'
  BY <1>2, <1>3 DEF IInv, Alone, PruneInv, PruneKeepsLocked, Running
<1>11. QED BY <1>6, <1>7, <1>8, <1>9, <1>10 DEF IInv

-----------------------------------------------------------------------------
(* The invariant, and the properties that follow from it.                  *)

LEMMA NextKeeps ==
  ASSUME IInv, Next
  PROVE  IInv'
<1>1. ASSUME NEW p \in Projects, Step(p) PROVE IInv'
  BY <1>1, LoadKeeps, ResolveKeeps, LocateKeeps, FirstInKeeps, TruncateKeeps, FillKeeps,
     RegisterKeeps, RecordKeeps, CompileKeeps, JoinKeeps, FinishKeeps, DownloadKeeps
     DEF Step
<1>2. CASE \E p \in Projects : Command(p) \/ Step(p) \/ Kill(p) \/ Edit(p) \/ Checkout(p)
  BY <1>1, <1>2, CommandKeeps, KillKeeps, EditKeeps, CheckoutKeeps
<1>3. CASE PruneStart \/ PruneKeep \/ PruneRemove \/ PruneUnused \/ Publish \/ Tomorrow
  BY <1>3, PruneStartKeeps, PruneKeepKeeps, PruneRemoveKeeps, PruneUnusedKeeps,
     PublishKeeps, TomorrowKeeps
<1>4. QED BY <1>2, <1>3 DEF Next

LEMMA StutterKeeps ==
  ASSUME IInv, UNCHANGED vars
  PROVE  IInv'
<1>1. UNCHANGED <<fetcherVars, job, ended>> /\ UNCHANGED <<served, cache, record, fetch>>
      /\ UNCHANGED <<manifest, lock, aside, known, owns, prune, trial>>
  BY DEF vars, fetcherVars, project, outcome
<1>2. ProjectOK'
  BY <1>1 DEF IInv, TypeOK, ProjectOK
<1>3. \A p \in Projects : ~trial.together =>
        PinnedIn(lock[p])' /\ PinnedIn(aside[p])' /\ Known(p)'
  BY <1>1 DEF IInv, ProjectInv, PinnedIn, Known, Is
<1>4. Alone' /\ PruneInv'
  BY <1>1 DEF IInv, Alone, PruneInv, PruneKeepsLocked, Running
<1>5. QED BY <1>1, <1>2, <1>3, <1>4, AroundKeeps

\* Every state of every run: however the fetches of several projects meet,
\* fail and are killed, with jars published and pruned behind them.
THEOREM SpecIInv == Spec => []IInv
<1>1. IInv /\ [Next]_vars => IInv'
  BY NextKeeps, StutterKeeps
<1>2. QED BY InitIInv, <1>1, PTL DEF Spec

\* resolve/repo.rs, Fetcher::artifact: whatever is in the cache came from a
\* repository that may answer for its group, and is damaged only where no
\* checksum could be read, with any number of commands and prunes at once.
THEOREM SpecTrustedBytes == Spec => []TrustedBytes
<1>1. IInv => TrustedBytes
  <2>1. SUFFICES ASSUME IInv, NEW j \in Cached PROVE Trusted(j)
    BY DEF TrustedBytes, Trusted
  <2>2. j \in Jars
    BY <2>1 DEF IInv, TypeOK, CacheOK
  <2>3. QED BY <2>1, <2>2 DEF IInv, JarInv
<1>2. QED BY <1>1, SpecIInv, PTL

\* write_lock and join_dependencies (cli/session.rs): a jrs.lock that parses
\* pins every release of the graph it is of, whatever failed or was killed
\* before it was written.
THEOREM SpecPinsEveryJar == Spec => []PinsEveryJar
<1>1. IInv => PinsEveryJar
  BY DEF IInv, ProjectInv, PinnedIn, PinsEveryJar
<1>2. QED BY <1>1, SpecIInv, PTL

\* Session::gather and Fetcher::artifact: the jars of a command that ended
\* well are cached, until they are pruned.
THEOREM SpecRepeatsOffline == Spec => []RepeatsOffline
<1>1. IInv => RepeatsOffline
  BY DEF IInv, ProjectInv, Repeats, RepeatsOffline
<1>2. QED BY <1>1, SpecIInv, PTL

\* register_project and referenced (resolve/cache.rs, cli/cache.rs): a prune
\* keeps the jars of every lock a command ended well with.
THEOREM SpecPruneKeepsLocked == Spec => []PruneKeepsLocked
<1>1. IInv => PruneKeepsLocked
  BY DEF IInv, PruneInv
<1>2. QED BY <1>1, SpecIInv, PTL

\* record_snapshot and still_current (resolve/repo.rs): a record that names
\* the current build is of the file in the cache.
THEOREM SpecRecordIsOfTheFile == Spec => []RecordIsOfTheFile
<1>1. IInv => RecordIsOfTheFile
  <2>1. SUFFICES ASSUME IInv, ~trial.together, NEW j \in Cached \cap Snapshots PROVE Current(j)
    BY DEF RecordIsOfTheFile, Current
  <2>2. j \in Jars
    BY <2>1 DEF IInv, TypeOK, CacheOK
  <2>3. QED BY <2>1, <2>2 DEF IInv, JarInv
<1>2. QED BY <1>1, SpecIInv, PTL

=============================================================================
