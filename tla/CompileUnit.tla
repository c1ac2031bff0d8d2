---------------------------- MODULE CompileUnit -----------------------------
(***************************************************************************)
(* Building one Java unit (compile/mod.rs, compile/incremental.rs): is it  *)
(* stale, is it in the build cache, can it be compiled source by source,   *)
(* and what is left on disk by every step, when a build fails, is killed,  *)
(* or when a source is saved while it runs.                                *)
(*                                                                         *)
(* On disk are the sources, the output directory, the fingerprint, the     *)
(* index and the build cache.  Each step of a build that reads or writes   *)
(* one of them is an action.  A content hash is the version it is of.      *)
(***************************************************************************)
EXTENDS Incremental

CONSTANTS Settings,  \* compiler settings: flags, jars
          Rounds,    \* rounds before whatever is reached compiles (ROUNDS)
          Trials     \* bounds: what may happen, and how often

\* cache: the build cache is on; reverts: an edit may bring back an earlier
\* text; killsAt: the steps a build may be killed at; exact: none of what
\* happens is known to leave another build than a whole one.
ASSUME UnitAssumption ==
  /\ Settings \subseteq Nat \ {0} /\ Rounds \in Nat \ {0}
  /\ Trials \subseteq [exact : BOOLEAN, cache : BOOLEAN, reverts : BOOLEAN,
                       settings : SUBSET Settings, killsAt : SUBSET STRING,
                       edits : Nat, saves : Nat, crashes : Nat, clears : Nat]

VARIABLES
  src,       \* src[s]: the version of source s, 0 for none
  settings,  \* the settings a build would use now
  dir,       \* whether the output directory is there
  out,       \* out[s]: the class file of s in it
  print,     \* the fingerprint: settings and source list
  index,     \* the index: settings, and an entry per source
  cache,     \* the build cache: key to class files
  job,       \* the build that runs
  last,      \* how the last one ended, until something changes
  trial      \* what may still happen (chosen in Init)

disk == <<src, settings, dir, out, print, index, cache>>
vars == <<disk, job, last, trial>>

NoPrint == <<>>
NoIndex == [settings |-> 0, of |-> <<>>]
NoJob == [at |-> "idle"]
NoEnd == [result |-> "none"]

Init ==
  /\ trial \in Trials
  /\ src \in [Sources -> {0, 1}] /\ Present(src) # {}
  /\ settings \in trial.settings
  /\ dir = FALSE /\ out = NoClasses
  /\ print = NoPrint /\ index = NoIndex
  /\ cache = <<>>
  /\ job = NoJob /\ last = NoEnd

At(step) == job.at = step
Go(step) == job' = [job EXCEPT !.at = step]
End(result) == job' = NoJob /\ last' = [result |-> result, saved |-> job.saved]

-----------------------------------------------------------------------------
(* What a build looks at.                                                  *)

Fingerprint(unit) == <<settings, unit>>

HoldsAFile == dir /\ \E s \in Sources : out[s].of # 0

\* Index::holds: these sources, with the same contents.
Holds(unit) == DOMAIN index.of = unit /\ \A s \in unit : index.of[s].hash = src[s]

\* is_stale, of a unit that has an index when it has a fingerprint.
IsStale(unit) == \/ ~dir
                 \/ print # Fingerprint(unit)
                 \/ index.settings = 0
                 \/ ~HoldsAFile
                 \/ ~Holds(unit)

\* The build-cache key: settings, and each source's contents.
Key == <<settings, src>>
-----------------------------------------------------------------------------
(* The steps of a build.                                                   *)

\* The sources are listed, and the unit is fresh or stale.
Begin ==
  /\ At("idle")
  /\ LET unit == Present(src) IN
       /\ unit # {}
       /\ IF IsStale(unit)
          THEN /\ job' = [at |-> IF trial.cache THEN "look up" ELSE "track", unit |-> unit,
                          key |-> <<>>, restored |-> FALSE, saved |-> FALSE,
                          cur |-> src, prev |-> <<>>, before |-> <<>>, after |-> <<>>,
                          round |-> {}, compiled |-> {}, rounds |-> 0]
               /\ last' = NoEnd
          ELSE job' = NoJob /\ last' = [result |-> "ok", saved |-> FALSE]
  /\ UNCHANGED <<disk, trial>>

\* restore: the key is worked out, remembered for the store, and looked up.
LookUp ==
  /\ At("look up")
  /\ job' = [job EXCEPT !.key = Key,
               !.at = IF Key \in DOMAIN cache THEN "forget" ELSE "track"]
  /\ UNCHANGED <<disk, last, trial>>

\* A hit: until the entry is in place, nothing may say the output is
\* current.
Forget ==
  /\ At("forget")
  /\ print' = NoPrint
  /\ Go("forget index")
  /\ UNCHANGED <<src, settings, dir, out, index, cache, last, trial>>

\* Mutant of ForgetIndex: the index stays until the entry is in place.
KeepIndex == At("forget index") /\ Go("extract") /\ UNCHANGED <<disk, last, trial>>

ForgetIndex ==
  /\ At("forget index")
  /\ index' = NoIndex
  /\ Go("extract")
  /\ UNCHANGED <<src, settings, dir, out, print, cache, last, trial>>

Extract ==
  /\ At("extract")
  /\ dir' = TRUE /\ out' = cache[job.key]
  /\ job' = [job EXCEPT !.at = "take stock", !.restored = TRUE]
  /\ UNCHANGED <<src, settings, print, index, cache, last, trial>>

\* Tracker::new: the sources as they are now, before the compiler runs, or
\* for the index of a restored unit.
TakeStock ==
  /\ At("take stock")
  /\ job' = [job EXCEPT !.at = "index all", !.cur = src]
  /\ UNCHANGED <<disk, last, trial>>

Track ==
  /\ At("track")
  /\ IF IsStale(job.unit)
     THEN /\ job' = [job EXCEPT !.at = "sweep", !.cur = src,
                       !.prev = IF index.settings = settings /\ dir THEN index.of ELSE <<>>]
          /\ UNCHANGED last
     ELSE End("ok")
  /\ UNCHANGED <<disk, trial>>

\* Mutant of Without: the directory is emptied.
WithoutAny(gone) == NoClasses

Without(gone) == [s \in Sources |-> IF s \in gone THEN NoClass ELSE out[s]]

\* recompile, to its first run: not without an index of these sources; what
\* changed loses its classes, and so does what no unchanged source owns.
Sweep ==
  /\ At("sweep")
  /\ LET first == {s \in job.unit : job.prev[s].hash # job.cur[s]}
         owned == {s \in job.unit \ first : job.prev[s].of # 0} IN
     IF DOMAIN job.prev # job.unit THEN Go("clear") /\ UNCHANGED out
     ELSE IF first = {} THEN Go("stamp") /\ UNCHANGED out
     ELSE /\ out' = Without(Sources \ owned)
          /\ job' = [job EXCEPT !.at = "javac", !.round = first, !.compiled = first,
                                !.after = job.prev]
  /\ UNCHANGED <<src, settings, dir, print, index, cache, last, trial>>

\* The index a failed run leaves: every source compiled by this build has to
\* be compiled again.
Cleared == [s \in job.unit |-> IF s \in job.compiled THEN [job.prev[s] EXCEPT !.hash = 0] ELSE job.prev[s]]

\* The sources of X whose class files javac may have written before it
\* failed, or before the build was killed.
Sound(X) == {s \in X : ~Rejects(s, World(X, src, out))}

\* One run of javac over the sources of the round, against the classes in
\* the output directory.
Javac ==
  /\ At("javac")
  /\ IF Fails(job.round, src, out)
     THEN /\ \E W \in SUBSET Sound(job.round) : out' = Written(job.round, W, src, out, settings)
          /\ index' = [settings |-> settings, of |-> Cleared]
          /\ print' = NoPrint
          /\ End("failed")
     ELSE /\ out' = Written(job.round, job.round, src, out, settings)
          /\ job' = [job EXCEPT !.at = "record", !.rounds = @ + 1]
          /\ UNCHANGED <<print, index, last>>
  /\ UNCHANGED <<src, settings, dir, cache, trial>>

Refers(s) == IF out[s].of = 0 THEN {} ELSE Content[s][out[s].of].supers \cup Content[s][out[s].of].refs

\* record_over: the classes of the sources just compiled are read; those of
\* the others are taken from the index before.
Entry(s, kept) ==
  LET asBefore == s \in kept /\ out[s].of # 0 /\ job.after[s].of # 0 IN
  [hash |-> job.cur[s],
   of |-> IF asBefore THEN job.after[s].of ELSE out[s].of,
   members |-> IF asBefore THEN job.after[s].members ELSE out[s].members,
   deps |-> {u \in IF asBefore THEN job.after[s].deps ELSE Refers(s) :
               u # s /\ out[u].of # 0}]

\* Mutant of Recorded: the sources as they are when the classes are read.
RecordedAsSaved(kept) == [s \in job.unit |-> [Entry(s, kept) EXCEPT !.hash = src[s]]]

Recorded(kept) == [s \in job.unit |-> Entry(s, kept)]

\* The sources a round's changes reach next: whatever refers to what
\* changed, transitively, when it broke or the rounds are over.
GivesUp(changes) == changes.broken # {} \/ job.rounds >= Rounds
Reached(after, changes) ==
  IF GivesUp(changes)
  THEN Dependents(after, Subtypes(after, changes.added \cup changes.broken), job.round)
  ELSE UsersOfAddition(out, after, DirectUsers(after, Subtypes(after, changes.added)) \ job.round,
                       Subtypes(after, changes.added), changes)

\* The classes of the run are read.
Record ==
  /\ At("record")
  /\ job' = [job EXCEPT !.at = "reach", !.before = job.after,
                        !.after = Recorded(job.unit \ job.round)]
  /\ UNCHANGED <<disk, last, trial>>

\* And compared with the index before: a constant or top-level class that
\* moved compiles the unit whole; otherwise what it reaches, whose classes
\* go, is the next round, unless this was the last.
Reach ==
  /\ At("reach")
  /\ LET changes == ChangesOf(job.before, job.after, job.round)
         next == IF job.rounds > Rounds \/ changes.added \cup changes.broken = {} THEN {}
                 ELSE Reached(job.after, changes) IN
     IF job.rounds <= Rounds /\ ~SafeToCompare(job.before, job.after, job.round)
     THEN Go("clear") /\ UNCHANGED out
     ELSE IF next = {} THEN Go("save") /\ UNCHANGED out
     ELSE /\ out' = Without(next)
          /\ job' = [job EXCEPT !.at = "javac", !.round = next,
                       !.compiled = @ \cup next,
                       !.rounds = IF GivesUp(changes) THEN Rounds ELSE @]
  /\ UNCHANGED <<src, settings, dir, print, index, cache, last, trial>>

Save ==
  /\ At("save")
  /\ index' = [settings |-> settings, of |-> job.after]
  /\ Go("stamp")
  /\ UNCHANGED <<src, settings, dir, out, print, cache, last, trial>>

\* The whole unit compiles into an emptied directory.
Clear ==
  /\ At("clear")
  /\ dir' = FALSE /\ out' = NoClasses
  /\ Go("create")
  /\ UNCHANGED <<src, settings, print, index, cache, last, trial>>

Create ==
  /\ At("create")
  /\ dir' = TRUE
  /\ job' = [job EXCEPT !.at = "javac all", !.round = job.unit, !.compiled = job.unit]
  /\ UNCHANGED <<src, settings, out, print, index, cache, last, trial>>

JavacAll ==
  /\ At("javac all")
  /\ IF Fails(job.unit, src, out)
     THEN /\ \E W \in SUBSET Sound(job.unit) : out' = Written(job.unit, W, src, out, settings)
          /\ print' = NoPrint /\ index' = NoIndex
          /\ End("failed")
     ELSE /\ out' = Written(job.unit, job.unit, src, out, settings)
          /\ Go("index all")
          /\ UNCHANGED <<print, index, last>>
  /\ UNCHANGED <<src, settings, dir, cache, trial>>

\* record_all.
IndexAll ==
  /\ At("index all")
  /\ index' = [settings |-> settings, of |-> Recorded({})]
  /\ Go("stamp")
  /\ UNCHANGED <<src, settings, dir, out, print, cache, last, trial>>

\* finish: the fingerprint.
Stamp ==
  /\ At("stamp")
  /\ print' = Fingerprint(job.unit)
  /\ IF trial.cache /\ ~job.restored THEN Go("store") /\ UNCHANGED last ELSE End("ok")
  /\ UNCHANGED <<src, settings, dir, out, index, cache, trial>>

Store ==
  /\ At("store")
  /\ cache' = [key \in DOMAIN cache \cup {job.key} |-> IF key = job.key THEN out ELSE cache[key]]
  /\ End("ok")
  /\ UNCHANGED <<src, settings, dir, out, print, index, trial>>

Step == \/ LookUp \/ Forget \/ ForgetIndex \/ Extract \/ TakeStock \/ Track
        \/ Sweep \/ Javac \/ Record \/ Reach \/ Save \/ Clear \/ Create \/ JavacAll
        \/ IndexAll \/ Stamp \/ Store
-----------------------------------------------------------------------------
(* What happens around a build.                                            *)

Versions(s) == DOMAIN Content[s]
Spend(what) == trial[what] > 0 /\ trial' = [trial EXCEPT ![what] = @ - 1]

\* A source is edited, added or deleted, or a setting changed, while no
\* build runs.
Edit ==
  /\ At("idle") /\ Spend("edits")
  /\ \/ \E s \in Sources : \E v \in Versions(s) \cup {0} :
          /\ v # src[s] /\ (trial.reverts \/ v > src[s])
          /\ src' = [src EXCEPT ![s] = v]
          /\ Present(src') # {} /\ UNCHANGED settings
     \/ \E new \in trial.settings \ {settings} :
          /\ trial.reverts \/ new > settings
          /\ settings' = new /\ UNCHANGED src
  /\ last' = NoEnd
  /\ UNCHANGED <<dir, out, print, index, cache, job>>

\* An editor saves a source while a build runs.
SaveSource ==
  /\ ~At("idle") /\ Spend("saves")
  /\ \E s \in job.unit : \E v \in Versions(s) :
       /\ v # src[s] /\ (trial.reverts \/ v > src[s])
       /\ src' = [src EXCEPT ![s] = v]
  /\ job' = [job EXCEPT !.saved = TRUE]
  /\ UNCHANGED <<settings, dir, out, print, index, cache, last>>

\* The build is killed, perhaps while javac or an extraction writes.
Crash ==
  /\ job.at \in trial.killsAt /\ Spend("crashes")
  /\ \/ UNCHANGED <<dir, out>>
     \/ /\ job.at \in {"javac", "javac all"} /\ UNCHANGED dir
        /\ \E W \in SUBSET Sound(job.round) : out' = Written(job.round, W, src, out, settings)
     \/ /\ At("extract") /\ dir' = TRUE
        /\ \E W \in SUBSET job.unit :
             out' = [s \in Sources |-> IF s \in W THEN cache[job.key][s] ELSE NoClass]
  /\ job' = NoJob /\ last' = NoEnd
  /\ UNCHANGED <<src, settings, print, index, cache>>

\* Somebody deletes the class files and leaves the directory.
ClearOut ==
  /\ At("idle") /\ dir /\ Spend("clears")
  /\ out' = NoClasses /\ last' = NoEnd
  /\ UNCHANGED <<src, settings, dir, print, index, cache, job>>

\* The build cache is cleaned.
Evict ==
  /\ At("idle") /\ cache # <<>>
  /\ cache' = <<>>
  /\ UNCHANGED <<src, settings, dir, out, print, index, job, last, trial>>

Next == Begin \/ Step \/ Edit \/ SaveSource \/ Crash \/ ClearOut \/ Evict

Spec == Init /\ [][Next]_vars
-----------------------------------------------------------------------------
(* Correctness.                                                            *)

Finished == last.result = "ok" /\ ~last.saved

\* SPEC 7.2: "The classes are the ones a whole build would write, byte for
\* byte."  However a build came to its end, what is in the output directory
\* is what compiling every source into an empty one would give.
AsAWholeBuild == trial.exact /\ Finished => out = Whole(src, settings)

\* A build fails only if the sources as they are do not compile: never for
\* a class file that an earlier build, or an earlier round, took away.
GoodBuildsSucceed ==
  trial.exact /\ last.result = "failed" /\ ~last.saved => Fails(Present(src), src, NoClasses)

\* build_cache.rs: a unit's output, "kept by the hash of their inputs": what
\* an entry holds is what the inputs in its key compile to.
EntriesMatchTheirKey == \A key \in DOMAIN cache : cache[key] = Whole(key[2], key[1])

\* Output that is not what the sources compile to is never taken for
\* current by the next build.
NeverFalselyFresh ==
  trial.exact /\ At("idle") /\ ~IsStale(Present(src)) => out = Whole(src, settings)

\* No class taken for current is of another text than its source has, nor of
\* no source any more: a file saved while a build ran is "seen as changed by
\* the next one" (incremental.rs), even of output that lost its files.
NothingSavedIsMissed ==
  At("idle") /\ ~IsStale(Present(src)) => \A s \in Sources : out[s].of \in {0, src[s]}

\* SPEC 7.2: "A change that stays inside method bodies compiles one source."
BodiesCompileAlone ==
  /\ At("save")
  /\ \A s \in job.compiled : /\ job.prev[s].members = job.after[s].members
                             /\ Header(s, job.prev[s]) = Header(s, job.after[s])
  => job.compiled = {s \in job.unit : job.prev[s].hash # job.cur[s]}
=============================================================================
