----------------------------- MODULE WorkerPool -----------------------------
(***************************************************************************)
(* The warm compilers of one command: Worker and Running (compile/         *)
(* worker.rs), the part of Share that says which JVM records its archive   *)
(* (compile/share.rs), and the background threads the command joins.       *)
(*                                                                         *)
(* A compile takes an idle worker JVM, or starts one, sends it a numbered  *)
(* request and reads the answer.  A JVM may die, answer garbage or take    *)
(* longer than the worker's patience: the compile is then forked.  The     *)
(* first JVM of a command that finds no archive records one, which is put  *)
(* in place once the JVM has exited on its own.                            *)
(*                                                                         *)
(* JVMs are numbered in the order they start.  The kotlinc pool is the     *)
(* same code over a pool of its own.                                       *)
(***************************************************************************)
EXTENDS Naturals, Sequences, FiniteSets

CONSTANTS Threads,       \* the members' threads that compile
          First,         \* the first member in build order (warm_up)
          Keys,          \* JDKs: what a worker is known by (Launch::key)
          Commands,      \* the commands to consider
          Compiles,      \* compiles each thread asks for
          Records,       \* may record an archive
          MaxJvms,       \* bound: JVMs that can be started
          MaxFaults      \* bound: deaths, garbage and hangs of JVMs

\* once: serves one command, not a --watch session; restartAfter: compilations
\* a JVM serves (restart_after); prestarted: workers the command starts early
\* (prestart); jdks: those its members may compile with; jvms: the bound on
\* what it starts.
ASSUME PoolAssumption ==
  /\ First \in Threads
  /\ Compiles \in Nat /\ MaxJvms \in Nat \ {0} /\ MaxFaults \in Nat
  /\ Records \in BOOLEAN
  /\ Commands \subseteq [once : BOOLEAN, restartAfter : Nat \ {0}, prestarted : Nat,
                        jdks : SUBSET Keys, jvms : 1..MaxJvms]

Jvms == 1..MaxJvms

\* What a request is for: a prime, or compile n of thread t.
Prime == <<"prime", 0>>
Junk == <<"junk", 0>>

VARIABLES
  command,   \* the command that runs (chosen in Init)
  jdk,       \* jdk[t]: the JDK thread t compiles with (chosen in Init)
  started,   \* how many JVMs have been started
  jvm,       \* jvm[j]: process j and what the command knows of it
  pool,      \* idle workers (running)
  stopping,  \* workers being stopped: in the background, or waited for
  claimed,   \* the JDKs whose archive a run of this command records (CLAIMED)
  archives,  \* the JDKs whose worker archive is in place
  settling,  \* recordings being assembled in the background (finish)
  pc,        \* pc[t]: where thread t's compile is
  mine,      \* mine[t]: the JVM thread t holds, 0 for none
  old,       \* old[t]: the stale JVMs thread t stops before it goes on
  got,       \* got[t]: what thread t's compiles came to
  main,      \* where the command's main thread is
  faults     \* how many times a JVM failed so far

chosen == <<command, jdk>>
processes == <<started, jvm, faults>>
archiving == <<claimed, archives, settling>>
callers == <<pc, mine, old, got>>
vars == <<chosen, processes, pool, stopping, archiving, callers, main>>

\* A JVM and its pipes: requests in, answers out.
NoJvm == [state |-> "none", key |-> CHOOSE k \in Keys : TRUE, compilations |-> 0,
          requests |-> 0, primed |-> 0, dumps |-> FALSE, closed |-> FALSE,
          hung |-> FALSE, in |-> <<>>, out |-> <<>>]

Init ==
  /\ command \in Commands
  /\ jdk \in [Threads -> command.jdks]
  /\ started = 0 /\ faults = 0
  /\ jvm = [j \in Jvms |-> NoJvm]
  /\ pool = {} /\ stopping = {}
  /\ claimed = {} /\ settling = {}
  /\ archives \in SUBSET command.jdks
  /\ pc = [t \in Threads |-> "ready"]
  /\ mine = [t \in Threads |-> 0]
  /\ old = [t \in Threads |-> {}]
  /\ got = [t \in Threads |-> <<>>]
  /\ main = "prestart"

Alive(j) == jvm[j].state = "alive"

-----------------------------------------------------------------------------
(* Starting JVMs.                                                          *)

\* Mutant of Recording: the claim is looked at and not taken.
RecordingUnclaimed(k) == Records /\ k \notin archives

\* Share::for_worker: the first worker of a command that finds no archive
\* records it; the others read one, or none.
Recording(k) == Records /\ k \notin archives /\ k \notin claimed

\* A JVM with settings k is started; `request` is what it is primed with.
Spawn(k, request) ==
  /\ started < command.jvms
  /\ started' = started + 1
  /\ jvm' = [jvm EXCEPT ![started + 1] =
               [NoJvm EXCEPT !.state = "alive", !.key = k, !.dumps = Recording(k),
                             !.requests = Len(request), !.primed = Len(request),
                             !.in = request]]
  /\ claimed' = IF Records /\ k \notin archives THEN claimed \cup {k} ELSE claimed

\* The command's first workers, all on the first member's JDK, each primed
\* with a compile nobody waits for.  A prime that cannot be written is not
\* sent, and a worker that cannot be started is the last one tried.
Prestart ==
  /\ main = "prestart"
  /\ \/ /\ started < command.prestarted
        /\ \E request \in {<<>>, <<[id |-> 1, of |-> Prime]>>} :
             Spawn(jdk[First], request)
        /\ pool' = pool \cup {started + 1}
        /\ UNCHANGED <<main, faults>>
     \/ /\ started = command.prestarted
        /\ main' = "compiling"
        /\ UNCHANGED <<started, jvm, pool, claimed, faults>>
     \/ /\ started < command.prestarted /\ faults < MaxFaults
        /\ faults' = faults + 1 /\ main' = "compiling"
        /\ UNCHANGED <<started, jvm, pool, claimed>>
  /\ UNCHANGED <<chosen, stopping, archives, settling, callers>>
-----------------------------------------------------------------------------
(* Worker::serve: one compile of thread t.                                 *)

\* The idle workers a request with settings k may take.
Fresh(k) == {j \in pool : jvm[j].key = k /\ jvm[j].compilations < command.restartAfter}

\* The warmest of them: most compiles answered, then the longest running.
Warmest(k) ==
  {w \in Fresh(k) : \A j \in Fresh(k) :
      \/ jvm[w].compilations > jvm[j].compilations
      \/ (jvm[w].compilations = jvm[j].compilations /\ w <= j)}

\* With the pool's lock: the stale workers leave it, and the warmest fresh
\* one is taken.
Take(t) ==
  /\ main = "compiling" /\ pc[t] = "ready" /\ Len(got[t]) < Compiles
  /\ LET stale == pool \ Fresh(jdk[t]) IN
       /\ mine' = [mine EXCEPT ![t] = IF Warmest(jdk[t]) = {} THEN 0
                                      ELSE CHOOSE w \in Warmest(jdk[t]) : TRUE]
       /\ pool' = Fresh(jdk[t]) \ Warmest(jdk[t])
       /\ old' = [old EXCEPT ![t] = stale]
       /\ stopping' = stopping \cup stale
  /\ pc' = [pc EXCEPT ![t] = "stop"]
  /\ UNCHANGED <<chosen, processes, archiving, got, main>>

\* The stale ones are stopped, and waited for, first.
Stopped(t) ==
  /\ pc[t] = "stop" /\ old[t] \cap stopping = {}
  /\ old' = [old EXCEPT ![t] = {}]
  /\ pc' = [pc EXCEPT ![t] = IF mine[t] = 0 THEN "start"
                             ELSE IF jvm[mine[t]].primed # 0 THEN "drain" ELSE "send"]
  /\ UNCHANGED <<chosen, processes, pool, stopping, archiving, mine, got, main>>

\* No worker is idle: one is started.
StartOne(t) ==
  /\ pc[t] = "start"
  /\ Spawn(jdk[t], <<>>)
  /\ mine' = [mine EXCEPT ![t] = started + 1]
  /\ pc' = [pc EXCEPT ![t] = "send"]
  /\ UNCHANGED <<chosen, faults, pool, stopping, archives, settling, old, got, main>>

\* It cannot be started: the compile is forked, or goes on without a
\* replacement.
StartFails(t) ==
  /\ started = command.jvms \/ faults < MaxFaults
  /\ faults' = IF started = command.jvms THEN faults ELSE faults + 1
  /\ \/ /\ pc[t] = "start"
        /\ got' = [got EXCEPT ![t] = Append(@, <<"forked", t>>)]
     \/ /\ pc[t] = "replace"
        /\ UNCHANGED got
  /\ pc' = [pc EXCEPT ![t] = "ready"]
  /\ UNCHANGED <<chosen, started, jvm, pool, stopping, archiving, mine, old, main>>

Compile(t) == <<t, Len(got[t]) + 1>>

\* Running::request, past the prime: the request is counted and written.
SendRequest(t) ==
  /\ pc[t] = "send" /\ Alive(mine[t])
  /\ LET j == mine[t] IN
       jvm' = [jvm EXCEPT ![j].compilations = @ + 1, ![j].requests = @ + 1,
                 ![j].in = Append(@, [id |-> jvm[j].requests + 1, of |-> Compile(t)])]
  /\ pc' = [pc EXCEPT ![t] = "wait"]
  /\ UNCHANGED <<chosen, started, faults, pool, stopping, archiving, mine, old, got, main>>

\* The id of the answer thread t reads: its prime's, or its last request's.
Expected(t) == IF pc[t] = "drain" THEN jvm[mine[t]].primed ELSE jvm[mine[t]].requests

\* Mutant of Matches: any answer will do.
MatchesAny(t) == pc[t] \in {"drain", "wait"} /\ jvm[mine[t]].out # <<>>

\* read_answer: the next answer is the one to the request sent.
Matches(t) == /\ pc[t] \in {"drain", "wait"} /\ jvm[mine[t]].out # <<>>
              /\ Head(jvm[mine[t]].out).id = Expected(t)

\* The prime's answer is read and forgotten.
Drain(t) ==
  /\ pc[t] = "drain" /\ Matches(t)
  /\ jvm' = [jvm EXCEPT ![mine[t]].out = Tail(@), ![mine[t]].primed = 0]
  /\ pc' = [pc EXCEPT ![t] = "send"]
  /\ UNCHANGED <<chosen, started, faults, pool, stopping, archiving, mine, old, got, main>>

\* Mutant of Receive: the worker goes back to the pool while it is stopped.
ReceiveTwice(t) ==
  /\ pc[t] = "wait" /\ Matches(t)
  /\ LET j == mine[t]
         done == command.once /\ jvm[j].dumps IN
       /\ jvm' = [jvm EXCEPT ![j].out = Tail(@)]
       /\ got' = [got EXCEPT ![t] = Append(@, Head(jvm[j].out).of)]
       /\ stopping' = IF done THEN stopping \cup {j} ELSE stopping
       /\ pool' = pool \cup {j}
       /\ pc' = [pc EXCEPT ![t] = IF done THEN "replace" ELSE "ready"]
  /\ mine' = [mine EXCEPT ![t] = 0]
  /\ UNCHANGED <<chosen, started, faults, archiving, old, main>>

\* The answer: the worker is idle again, unless it was recording for one
\* command, when it is stopped beside the rest and replaced.
Receive(t) ==
  /\ pc[t] = "wait" /\ Matches(t)
  /\ LET j == mine[t]
         done == command.once /\ jvm[j].dumps IN
       /\ jvm' = [jvm EXCEPT ![j].out = Tail(@)]
       /\ got' = [got EXCEPT ![t] = Append(@, Head(jvm[j].out).of)]
       /\ IF done THEN stopping' = stopping \cup {j} /\ UNCHANGED pool
                  ELSE pool' = pool \cup {j} /\ UNCHANGED stopping
       /\ pc' = [pc EXCEPT ![t] = IF done THEN "replace" ELSE "ready"]
  /\ mine' = [mine EXCEPT ![t] = 0]
  /\ UNCHANGED <<chosen, started, faults, archiving, old, main>>

Replace(t) ==
  /\ pc[t] = "replace"
  /\ Spawn(jdk[t], <<>>)
  /\ pool' = pool \cup {started + 1}
  /\ pc' = [pc EXCEPT ![t] = "ready"]
  /\ UNCHANGED <<chosen, faults, stopping, archives, settling, mine, old, got, main>>

\* Mutant of Broken: no patience.
BrokenDead(t) ==
  LET j == mine[t] IN
  \/ pc[t] = "send" /\ ~Alive(j)
  \/ pc[t] \in {"drain", "wait"} /\ jvm[j].out = <<>> /\ ~Alive(j)
  \/ pc[t] \in {"drain", "wait"} /\ jvm[j].out # <<>> /\ ~Matches(t)

\* The request cannot be written, the worker exited before its answer, the
\* answer is not the one asked for, or its patience is over.
Broken(t) ==
  LET j == mine[t] IN
  \/ pc[t] = "send" /\ ~Alive(j)
  \/ pc[t] \in {"drain", "wait"} /\ jvm[j].out = <<>> /\ (~Alive(j) \/ jvm[j].hung)
  \/ pc[t] \in {"drain", "wait"} /\ jvm[j].out # <<>> /\ ~Matches(t)

\* The worker is killed, what it recorded dropped, and the compile forked.
Fork(t) ==
  /\ pc[t] \in {"send", "drain", "wait"} /\ Broken(t)
  /\ jvm' = [jvm EXCEPT ![mine[t]].state = "killed"]
  /\ got' = [got EXCEPT ![t] = Append(@, <<"forked", t>>)]
  /\ mine' = [mine EXCEPT ![t] = 0]
  /\ pc' = [pc EXCEPT ![t] = "ready"]
  /\ UNCHANGED <<chosen, started, faults, pool, stopping, archiving, old, main>>

Caller(t) == \/ Take(t) \/ Stopped(t) \/ StartOne(t) \/ StartFails(t)
             \/ SendRequest(t) \/ Drain(t) \/ Receive(t) \/ Replace(t) \/ Fork(t)
-----------------------------------------------------------------------------
(* The JVMs: JavacWorker.java answers its requests in order, and exits     *)
(* when its stdin closes.                                                  *)

Answer(j) ==
  /\ Alive(j) /\ jvm[j].in # <<>>
  /\ jvm' = [jvm EXCEPT ![j].in = Tail(@), ![j].out = Append(@, Head(jvm[j].in)),
                        ![j].hung = FALSE]
  /\ UNCHANGED <<chosen, started, faults, pool, stopping, archiving, callers, main>>

\* With its stdin closed and no request left the JVM exits, and its record
\* is written.
Exit(j) ==
  /\ Alive(j) /\ jvm[j].closed /\ jvm[j].in = <<>> /\ ~jvm[j].hung
  /\ jvm' = [jvm EXCEPT ![j].state = "exited"]
  /\ UNCHANGED <<chosen, started, faults, pool, stopping, archiving, callers, main>>

\* What can go wrong with one: it dies, answers garbage, or takes too long.
Fail(j) ==
  /\ Alive(j) /\ faults < MaxFaults
  /\ faults' = faults + 1
  /\ \/ jvm' = [jvm EXCEPT ![j].state = "died"]
     \/ /\ jvm[j].in # <<>>
        /\ jvm' = [jvm EXCEPT ![j].in = Tail(@),
                              ![j].out = Append(@, [id |-> 0, of |-> Junk])]
     \/ jvm' = [jvm EXCEPT ![j].hung = TRUE]
  /\ UNCHANGED <<chosen, started, pool, stopping, archiving, callers, main>>
-----------------------------------------------------------------------------
(* Running::stop and Share::finish.                                        *)

\* Mutant of KilledAtOnce: a JVM that compiled nothing may leave its archive.
KilledUnlessDumps(j) == ~jvm[j].dumps

\* A worker that writes no archive, or compiled nothing, is killed.
KilledAtOnce(j) == jvm[j].compilations = 0 \/ ~jvm[j].dumps

Kill(j) ==
  /\ j \in stopping /\ KilledAtOnce(j)
  /\ jvm' = [jvm EXCEPT ![j].state = IF Alive(j) THEN "killed" ELSE @]
  /\ stopping' = stopping \ {j}
  /\ UNCHANGED <<chosen, started, faults, pool, archiving, callers, main>>

\* The others have their stdin closed, and ten seconds to exit.
Close(j) ==
  /\ j \in stopping /\ ~KilledAtOnce(j) /\ ~jvm[j].closed
  /\ jvm' = [jvm EXCEPT ![j].closed = TRUE]
  /\ UNCHANGED <<chosen, started, faults, pool, stopping, archiving, callers, main>>

\* It has exited by itself: what it recorded is settled, an AOT cache by a
\* thread of its own.  Otherwise it is killed and its record dropped.
Reap(j) ==
  /\ j \in stopping /\ jvm[j].closed
  /\ \/ jvm[j].state = "exited" /\ settling' = settling \cup {j} /\ UNCHANGED jvm
     \/ jvm[j].state = "died" /\ UNCHANGED <<jvm, settling>>
     \/ /\ Alive(j)
        /\ jvm' = [jvm EXCEPT ![j].state = "killed"]
        /\ UNCHANGED settling
  /\ stopping' = stopping \ {j}
  /\ UNCHANGED <<chosen, started, faults, pool, claimed, archives, callers, main>>

\* The archive is renamed into place, or could not be assembled.
Settle(j) ==
  /\ j \in settling
  /\ settling' = settling \ {j}
  /\ archives' \in {archives, archives \cup {jvm[j].key}}
  /\ UNCHANGED <<chosen, processes, pool, stopping, claimed, callers, main>>

Background(j) == Kill(j) \/ Close(j) \/ Reap(j) \/ Settle(j)
-----------------------------------------------------------------------------
(* The end of the command.                                                 *)

\* No compile is under way: all are done, or one failed and the members'
\* threads have ended.
Quiet == \A t \in Threads : pc[t] = "ready"

\* retire: jrs build and jrs run have nothing left to compile, and stop the
\* idle workers in the background.
Retire ==
  /\ main = "compiling" /\ Quiet
  /\ stopping' = stopping \cup pool /\ pool' = {}
  /\ main' = "retired"
  /\ UNCHANGED <<chosen, processes, archiving, callers>>

\* Drop for Worker: whatever is idle when the command ends is stopped.
Drop ==
  /\ main \in {"compiling", "retired"} /\ Quiet
  /\ stopping' = stopping \cup pool /\ pool' = {}
  /\ main' = "joining"
  /\ UNCHANGED <<chosen, processes, archiving, callers>>

\* Mutant of Join: an assembly started by a stopping worker is not counted.
JoinStops ==
  /\ main = "joining" /\ stopping = {}
  /\ main' = "ended"
  /\ UNCHANGED <<chosen, processes, pool, stopping, archiving, callers>>

\* join_background: every thread in the background, and every one those
\* started in turn.
Join ==
  /\ main = "joining" /\ stopping = {} /\ settling = {}
  /\ main' = "ended"
  /\ UNCHANGED <<chosen, processes, pool, stopping, archiving, callers>>

Ended == main = "ended" /\ UNCHANGED vars

Next == \/ Prestart \/ Retire \/ Drop \/ Join \/ Ended
        \/ \E t \in Threads : Caller(t)
        \/ \E j \in Jvms : Answer(j) \/ Exit(j) \/ Fail(j) \/ Background(j)

\* The command's threads run, a JVM that is not stuck answers and exits; no
\* JVM has to fail, and a stuck one never has to answer.
Fairness ==
  /\ WF_vars(Prestart \/ Drop \/ Join)
  /\ \A t \in Threads : WF_vars(Caller(t))
  /\ \A j \in Jvms : WF_vars(Background(j)) /\ WF_vars(~jvm[j].hung /\ Answer(j))
                     /\ WF_vars(Exit(j))

Spec == Init /\ [][Next]_vars /\ Fairness
-----------------------------------------------------------------------------
(* Correctness.                                                            *)

TypeOK ==
  /\ command \in Commands /\ jdk \in [Threads -> command.jdks] /\ started \in 0..MaxJvms /\ faults \in 0..MaxFaults
  /\ \A j \in Jvms :
       /\ jvm[j].state \in {"none", "alive", "died", "killed", "exited"}
       /\ jvm[j].key \in Keys /\ jvm[j].primed \in 0..1
       /\ jvm[j].compilations \in Nat /\ jvm[j].requests \in Nat
       /\ {jvm[j].dumps, jvm[j].closed, jvm[j].hung} \subseteq BOOLEAN
  /\ pool \subseteq Jvms /\ stopping \subseteq Jvms /\ settling \subseteq Jvms
  /\ claimed \subseteq Keys /\ archives \subseteq Keys
  /\ pc \in [Threads -> {"ready", "stop", "start", "drain", "send", "wait", "replace"}]
  /\ mine \in [Threads -> 0..MaxJvms] /\ old \in [Threads -> SUBSET Jvms]
  /\ \A t \in Threads :
       /\ pc[t] \in {"ready", "start", "replace"} => mine[t] = 0
       /\ pc[t] \in {"drain", "send", "wait"} => mine[t] # 0
  /\ main \in {"prestart", "compiling", "retired", "joining", "ended"}

\* A worker is idle, or held by one compile, or being stopped, never two of
\* these: two members never write requests to one pipe, and none is sent to
\* a JVM on its way out, nor to one of another JDK than its member's.
OneOwner ==
  /\ pool \cap stopping = {}
  /\ \A t \in Threads : mine[t] # 0 => /\ mine[t] \notin pool \cup stopping
                                   /\ jvm[mine[t]].key = jdk[t]
  /\ \A s, t \in Threads : mine[s] = mine[t] /\ mine[s] # 0 => s = t

\* What a compile returns is what its own request came to, or a forked
\* compiler's output: never a prime's answer, another member's, or garbage.
OwnAnswer ==
  \A t \in Threads : \A n \in 1..Len(got[t]) : got[t][n] \in {<<t, n>>, <<"forked", t>>}

\* share.rs: "Each archive has one recorder per command"; and worker.rs: in
\* one that is not --watch the recorder "records its first compile alone".
OneRecorder ==
  \A i, j \in Jvms : jvm[i].dumps =>
    /\ jvm[j].dumps /\ jvm[i].key = jvm[j].key => i = j
    /\ command.once => jvm[i].compilations <= 1

\* An archive comes only from a JVM that compiled and exited by itself.
ArchiveFromGoodExit ==
  \A j \in settling : jvm[j].state = "exited" /\ jvm[j].compilations > 0

\* SPEC 1.2: no process, and no thread that writes the cache, outlives the
\* command.
NothingOutlives ==
  main = "ended" => settling = {} /\ \A j \in Jvms : ~Alive(j)

\* Every compile is answered, by a worker or a forked compiler, and the
\* command ends, whatever its JVMs do.
EveryCompileEnds == <>(main = "ended")
=============================================================================
