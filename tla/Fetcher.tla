------------------------------ MODULE Fetcher -------------------------------
(***************************************************************************)
(* One artifact at a time: Fetcher::artifact and what it calls (resolve/   *)
(* repo.rs), over the cache every jrs process shares (resolve/cache.rs)    *)
(* and repositories that publish, are out of reach, and sit behind         *)
(* connections that damage what they carry.                                *)
(*                                                                         *)
(* A client is a project's jrs process.  The steps of a fetch that read or *)
(* write the cache, or ask a repository, are actions.  A jar's bytes are   *)
(* the number of the build they are of, and so is its checksum.            *)
(***************************************************************************)
EXTENDS Naturals, FiniteSetsExt

CONSTANTS Clients,    \* the projects jrs runs in
          Jars,       \* the coordinates of the jars they want
          Snapshots,  \* those republished under one name
          Group,      \* Group[j]: the group of jar j
          Claims,     \* Claims[r]: the groups the r-th repository lists, {} for none
          Local,      \* the file:// repositories
          Dated,      \* those that name each build of a snapshot
          Damaged,    \* the jars a connection may damage
          Builds      \* bound: builds of a jar a repository may come to serve

Repos == DOMAIN Claims

ASSUME FetcherAssumption ==
  /\ Snapshots \subseteq Jars /\ Damaged \subseteq Jars
  /\ Repos \subseteq Nat \ {0}
  /\ Local \subseteq Repos /\ Dated \subseteq Repos
  /\ Builds \in Nat \ {0}

VARIABLES
  served,   \* served[r][j]: the build repository r serves of j, 0 for none
  cache,    \* cache[j]: the file of a cached jar (a partial function)
  record,   \* record[j]: which build of a snapshot is cached, and is it due
  fetch     \* fetch[c][j]: where client c's fetch of j is

fetcherVars == <<served, cache, record, fetch>>

Cached == DOMAIN cache
Junk == Builds + 1   \* bytes damaged on their way: of no build
NoSum == 0           \* no checksum
Plain == 0           \* a snapshot's plain name, of whatever build it is now
NoRecord == [build |-> Plain, repo |-> 0, fresh |-> FALSE]
NoFetch == [at |-> "none"]

Begin(j, pin, offline, force) ==
  [at |-> "look", pin |-> IF j \in Snapshots THEN NoSum ELSE pin,
   offline |-> offline, force |-> force, repo |-> 0, fallback |-> FALSE,
   name |-> Plain, build |-> 0, verified |-> FALSE, sum |-> NoSum]

At(c, j, step) == fetch[c][j].at = step
Go(c, j, step) == fetch' = [fetch EXCEPT ![c][j].at = step]

\* Mutant of Asked: the repositories without groups are asked for every group.
AskedWithOpen(j) == {r \in Repos : Claims[r] = {} \/ Group[j] \in Claims[r]}

\* repositories_for: those that claim the jar's group; for a group nobody
\* claims, those that claim nothing.  They are asked in declaration order.
Asked(j) ==
  LET claimed == {r \in Repos : Group[j] \in Claims[r]}
  IN  IF claimed # {} THEN claimed ELSE {r \in Repos : Claims[r] = {}}

Repo(c, j) == fetch[c][j].repo
Left(c, j) == {r \in Asked(j) : r > Repo(c, j)}

\* What the repository has under the name the fetch asks for.
There(c, j) == IF fetch[c][j].name # Plain THEN fetch[c][j].name ELSE served[Repo(c, j)][j]

\* A fetch that fails falls back on the cached copy of a snapshot that is due.
GiveUp(c, j) == Go(c, j, IF fetch[c][j].fallback THEN "got" ELSE "failed")

OutOfReach(c, j) == Repo(c, j) \notin Local /\ GiveUp(c, j)

-----------------------------------------------------------------------------
\* snapshot_due: once a day, on every build from a local repository, and
\* whenever jrs update asks.
Due(c, j) == \/ fetch[c][j].force \/ record[j] = NoRecord
             \/ record[j].repo \in Local \/ ~record[j].fresh

\* Fetcher::artifact: the cached file, or a download.
Look(c, j) ==
  /\ At(c, j, "look")
  /\ LET offline == fetch[c][j].offline IN
     \/ /\ j \in Cached /\ (j \notin Snapshots \/ offline \/ ~Due(c, j))
        /\ Go(c, j, "got")
     \/ /\ j \notin Cached /\ (offline \/ Asked(j) = {})
        /\ Go(c, j, "failed")
     \/ /\ ~offline /\ IF j \in Cached THEN j \in Snapshots /\ Due(c, j) ELSE Asked(j) # {}
        /\ fetch' = [fetch EXCEPT ![c][j].at = IF j \in Snapshots THEN "ask" ELSE "get",
                                  ![c][j].repo = Min(Asked(j)), ![c][j].fallback = (j \in Cached)]
  /\ UNCHANGED <<served, cache, record>>

\* The cached build is the one the repository names.
StillCurrent(c, j) == j \in Cached /\ record[j].build = served[Repo(c, j)][j]

\* Of a snapshot the repository's maven-metadata.xml is read first: the build
\* it names may be the one the cache holds.
Ask(c, j) ==
  /\ At(c, j, "ask")
  /\ \/ /\ OutOfReach(c, j)
        /\ UNCHANGED record
     \/ /\ Repo(c, j) \in Dated /\ served[Repo(c, j)][j] # 0
        /\ IF StillCurrent(c, j)
           THEN /\ record' = [record EXCEPT ![j] =
                     [build |-> served[Repo(c, j)][j], repo |-> Repo(c, j), fresh |-> TRUE]]
                /\ Go(c, j, "got")
           ELSE /\ fetch' = [fetch EXCEPT ![c][j].at = "get",
                                          ![c][j].name = served[Repo(c, j)][j]]
                /\ UNCHANGED record
     \/ /\ Repo(c, j) \notin Dated \/ served[Repo(c, j)][j] = 0
        /\ fetch' = [fetch EXCEPT ![c][j].at = "get", ![c][j].name = Plain]
        /\ UNCHANGED record
  /\ UNCHANGED <<served, cache>>

\* fetch_one, its retries over: out of reach, not there (the next repository
\* is asked), or the bytes.
Get(c, j) ==
  /\ At(c, j, "get")
  /\ \/ OutOfReach(c, j)
     \/ /\ There(c, j) = 0
        /\ IF Left(c, j) = {} THEN GiveUp(c, j)
           ELSE fetch' = [fetch EXCEPT ![c][j].repo = Min(Left(c, j)),
                            ![c][j].at = IF j \in Snapshots THEN "ask" ELSE "get"]
     \/ /\ There(c, j) # 0
        /\ \E bytes \in {There(c, j)} \cup (IF j \in Damaged THEN {Junk} ELSE {}) :
             fetch' = [fetch EXCEPT ![c][j].at = "check", ![c][j].build = bytes]
  /\ UNCHANGED <<served, cache, record>>

\* check_pin, of bytes that verified or could not be.
CheckPin(c, j, verified) ==
  IF fetch[c][j].pin \in {NoSum, fetch[c][j].build}
  THEN fetch' = [fetch EXCEPT ![c][j].at = "store", ![c][j].verified = verified]
  ELSE GiveUp(c, j)

\* Fetcher::verify: against the published checksum, where one can be read; a
\* mismatch evicts the cached file.
Check(c, j) ==
  /\ At(c, j, "check")
  /\ \/ CheckPin(c, j, FALSE) /\ UNCHANGED cache
     \/ /\ fetch[c][j].build = There(c, j)
        /\ CheckPin(c, j, TRUE) /\ UNCHANGED cache
     \/ /\ fetch[c][j].build # There(c, j)
        /\ GiveUp(c, j)
        /\ cache' = [k \in Cached \ {j} |-> cache[k]]
  /\ UNCHANGED <<served, record>>

\* The cache with what c fetched as the file of jar j.
With(c, j) ==
  [k \in Cached \cup {j} |->
     IF k = j THEN [build |-> fetch[c][j].build, repo |-> Repo(c, j),
                    verified |-> fetch[c][j].verified]
              ELSE cache[k]]

\* Mutant of Store: a snapshot that is cached is never rewritten.
StoreOnce(c, j) ==
  /\ At(c, j, "store")
  /\ cache' = IF j \in Cached THEN cache ELSE With(c, j)
  /\ Go(c, j, IF j \in Snapshots THEN "note" ELSE "got")
  /\ UNCHANGED <<served, record>>

\* The bytes are stored, by a rename; a snapshot's that are the cached ones
\* are not rewritten.
Store(c, j) ==
  /\ At(c, j, "store")
  /\ cache' = IF j \in Snapshots /\ j \in Cached /\ cache[j].build = fetch[c][j].build
              THEN cache ELSE With(c, j)
  /\ Go(c, j, IF j \in Snapshots THEN "note" ELSE "got")
  /\ UNCHANGED <<served, record>>

\* record_snapshot.
Note(c, j) ==
  /\ At(c, j, "note")
  /\ record' = [record EXCEPT ![j] =
                  [build |-> fetch[c][j].name, repo |-> Repo(c, j), fresh |-> TRUE]]
  /\ Go(c, j, "got")
  /\ UNCHANGED <<served, cache>>

\* fetch_jars_where: the jar's checksum is the locked one, or that of the
\* file; a snapshot has none.
Sum(c, j) ==
  /\ At(c, j, "got")
  /\ fetch' = [fetch EXCEPT ![c][j].at = "in",
                 ![c][j].sum = IF j \in Snapshots THEN NoSum
                               ELSE IF fetch[c][j].pin # NoSum THEN fetch[c][j].pin
                               ELSE IF j \in Cached THEN cache[j].build ELSE NoSum]
  /\ UNCHANGED <<served, cache, record>>

FetchStep(c, j) == \/ Look(c, j) \/ Ask(c, j) \/ Get(c, j) \/ Check(c, j)
                   \/ Store(c, j) \/ Note(c, j) \/ Sum(c, j)

Over(c, j) == fetch[c][j].at \in {"none", "in", "failed"}
=============================================================================
