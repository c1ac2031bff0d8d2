-------------------------- MODULE WorkerPoolProofs --------------------------
(***************************************************************************)
(* What holds of the warm compilers for any members, JDKs, commands and    *)
(* bounds.  Every JVM that runs has one owner (Owned), which knows where   *)
(* in its conversation with it it is (Answers); one that is stopped has    *)
(* left for good (Leaving).                                                *)
(***************************************************************************)
EXTENDS WorkerPool, TLAPS

USE PoolAssumption DEF PoolAssumption

\* What a pipe holds.
Elements(s) == {s[i] : i \in 1..Len(s)}

\* The types of messages, of JVMs and of what compiles come to.
Message == [id : Nat, of : {Prime, Junk} \cup (Threads \X Nat)]
States == {"none", "alive", "died", "killed", "exited"}
Jvm == [state : States, key : Keys, compilations : Nat, requests : Nat, primed : 0..1,
        dumps : BOOLEAN, closed : BOOLEAN, hung : BOOLEAN,
        in : Seq(Message), out : Seq(Message)]
Steps == {"ready", "stop", "start", "drain", "send", "wait", "replace"}

Outcome == (Threads \X Nat) \cup ({"forked"} \X Threads)

Shape ==
  /\ command \in Commands /\ jdk \in [Threads -> command.jdks]
  /\ started \in 0..command.jvms /\ faults \in 0..MaxFaults
  /\ claimed \subseteq Keys /\ archives \subseteq Keys
  /\ main \in {"prestart", "compiling", "retired", "joining", "ended"}
  /\ jvm \in [Jvms -> Jvm]
  /\ pool \subseteq 1..started /\ stopping \subseteq 1..started /\ settling \subseteq 1..started
  /\ pc \in [Threads -> Steps]
  /\ mine \in [Threads -> 0..started]
  /\ old \in [Threads -> SUBSET Jvms]
  /\ got \in [Threads -> Seq(Outcome)]

\* Where a thread has a JVM, where it has none, and when threads compile.
Places ==
  /\ \A t \in Threads : /\ pc[t] \in {"ready", "start", "replace"} => mine[t] = 0
                        /\ pc[t] \in {"drain", "send", "wait"} => mine[t] # 0
  /\ main # "compiling" => \A t \in Threads : pc[t] = "ready"
  /\ main \in {"joining", "ended"} => pool = {}
  /\ main = "ended" => stopping = {} /\ settling = {}

\* Every JVM that runs is somebody's.
Owned ==
  \A j \in 1..started : Alive(j) => j \in pool \cup stopping \/ \E t \in Threads : mine[t] = j

\* A number no JVM has yet.
Unborn == \A j \in Jvms : j > started =>
            jvm[j].state = "none" /\ jvm[j].dumps = FALSE /\ jvm[j].closed = FALSE

\* One that is told to exit has compiled, and nobody sends it anything again.
Leaving ==
  /\ \A j \in Jvms : jvm[j].closed =>
       jvm[j].compilations > 0 /\ j \notin pool /\ \A t \in Threads : mine[t] # j
  /\ \A j \in settling : jvm[j].closed /\ jvm[j].state = "exited" /\ j \notin stopping

\* A recorder has claimed its archive; where it records for one command, no
\* thread that holds it sends it a second compile.
Recorders ==
  \A j \in Jvms : jvm[j].dumps =>
    /\ jvm[j].key \in claimed
    /\ command.once /\ jvm[j].compilations > 0 =>
         j \notin pool /\ \A t \in Threads : mine[t] = j => pc[t] = "wait"

\* What JVM j was asked and has not answered, or has answered and nobody read.
Pending(j) == Elements(jvm[j].in) \cup Elements(jvm[j].out)

\* Requests are numbered; what carries the number of the last one, while a
\* thread waits for it, is that thread's.
Answers ==
  /\ \A j \in Jvms : \A m \in Pending(j) : m.id \in 0..jvm[j].requests
  /\ \A t \in Threads : pc[t] = "wait" =>
       /\ jvm[mine[t]].requests > 0
       /\ \A m \in Pending(mine[t]) : m.id = jvm[mine[t]].requests => m.of = Compile(t)

IInv == /\ Shape /\ Places /\ OneOwner /\ Owned /\ Unborn /\ Leaving /\ OneRecorder
        /\ Recorders /\ Answers /\ OwnAnswer

-----------------------------------------------------------------------------
(* What the steps make of JVMs and their pipes.                            *)

\* A message written to a pipe is in it beside what was there.
LEMMA Appended ==
  ASSUME NEW S, NEW s \in Seq(S), NEW e \in S
  PROVE  Append(s, e) \in Seq(S) /\ Elements(Append(s, e)) = Elements(s) \cup {e}
  BY DEF Elements

\* One read from a pipe was in it, and the others stay.
LEMMA Dropped ==
  ASSUME NEW S, NEW s \in Seq(S), s # <<>>
  PROVE  /\ Tail(s) \in Seq(S) /\ Head(s) \in S
         /\ Elements(Tail(s)) \subseteq Elements(s) /\ Head(s) \in Elements(s)
  BY DEF Elements

\* What threads hold are JVMs that were started.
LEMMA InRange ==
  ASSUME Shape
  PROVE  /\ started \in 0..MaxJvms /\ command.jvms \in 1..MaxJvms /\ 1..started \subseteq Jvms
         /\ \A t \in Threads : mine[t] # 0 => mine[t] \in Jvms /\ mine[t] \in 1..started
  BY DEF Shape, Jvms

\* Nothing was asked: at most garbage came, or another JVM.
LEMMA NothingNew ==
  ASSUME Shape, Places, Answers,
         \A t \in Threads : pc'[t] = "wait" =>
           pc[t] = "wait" /\ mine'[t] = mine[t] /\ Len(got'[t]) = Len(got[t]),
         \A i \in Jvms :
           \/ /\ jvm'[i].requests = jvm[i].requests
              /\ \A m \in Pending(i)' : m.id = 0 \/ m \in Pending(i)
           \/ i > started /\ \A m \in Pending(i)' : m.id \in 0..jvm'[i].requests
  PROVE  Answers'
<1>1. \A t \in Threads : pc[t] = "wait" => mine[t] \in Jvms /\ mine[t] \in 1..started
  BY InRange DEF Places
<1>2. \A i \in Jvms : jvm[i].requests \in Nat
  BY DEF Shape, Jvm
<1>3. started \in Nat
  BY InRange
<1>4. ASSUME NEW i \in Jvms, NEW m \in Pending(i)' PROVE m.id \in 0..jvm'[i].requests
  BY <1>2, <1>4 DEF Answers
<1>5. ASSUME NEW t \in Threads, pc'[t] = "wait"
      PROVE  /\ jvm'[mine'[t]].requests > 0
             /\ \A m \in Pending(mine[t])' : m.id = jvm'[mine'[t]].requests => m.of = Compile(t)'
  <2> DEFINE j == mine[t]
  <2>1. /\ j \in Jvms /\ ~(j > started) /\ mine'[t] = j /\ pc[t] = "wait"
        /\ Compile(t)' = Compile(t)
    BY <1>1, <1>3, <1>5 DEF Compile
  <2>2. jvm'[j].requests = jvm[j].requests /\ jvm[j].requests > 0
    BY <2>1 DEF Answers
  <2>3. Pending(mine[t])' = Pending(j)'
    BY <2>1 DEF Pending
  <2>4. ASSUME NEW m \in Pending(j)', m.id = jvm'[j].requests PROVE m.of = Compile(t)
    BY <1>2, <2>1, <2>2, <2>4 DEF Answers
  <2> HIDE DEF j
  <2> QED BY <2>1, <2>2, <2>3, <2>4
<1> QED BY <1>4, <1>5 DEF Answers

\* A compile is told its own outcome.
LEMMA Told ==
  ASSUME Shape, OwnAnswer, NEW t \in Threads, NEW a \in {Compile(t), <<"forked", t>>},
         got' = [got EXCEPT ![t] = Append(@, a)]
  PROVE  /\ got' \in [Threads -> Seq(Outcome)] /\ OwnAnswer'
         /\ \A s \in Threads : s # t => got'[s] = got[s]
<1>1. got \in [Threads -> Seq(Outcome)] /\ got[t] \in Seq(Outcome) /\ Len(got[t]) \in Nat
  BY DEF Shape
<1>2. a \in Outcome /\ a \in {<<t, Len(got[t]) + 1>>, <<"forked", t>>}
  BY <1>1 DEF Outcome, Compile
<1>3. Append(got[t], a) \in Seq(Outcome)
  BY <1>1, <1>2
<1>4. /\ got' \in [Threads -> Seq(Outcome)] /\ got'[t] = Append(got[t], a)
      /\ \A s \in Threads : s # t => got'[s] = got[s]
  BY <1>1, <1>3
<1>5. ASSUME NEW n \in 1..Len(got'[t]) PROVE got'[t][n] \in {<<t, n>>, <<"forked", t>>}
  <2>1. CASE n = Len(got[t]) + 1
    BY <1>1, <1>2, <1>4, <2>1
  <2>2. CASE n \in 1..Len(got[t])
    BY <1>1, <1>2, <1>4, <2>2 DEF OwnAnswer
  <2> QED BY <1>1, <1>2, <1>4, <1>5, <2>1, <2>2
<1> QED BY <1>4, <1>5 DEF OwnAnswer

\* Only the state of a JVM changed.
LEMMA Became ==
  ASSUME jvm \in [Jvms -> Jvm], NEW j \in Jvms, NEW s \in States,
         jvm' = [jvm EXCEPT ![j].state = s]
  PROVE  /\ jvm' \in [Jvms -> Jvm] /\ \A i \in Jvms : i # j => jvm'[i] = jvm[i]
         /\ jvm'[j].key = jvm[j].key /\ jvm'[j].compilations = jvm[j].compilations
         /\ jvm'[j].requests = jvm[j].requests /\ jvm'[j].primed = jvm[j].primed
         /\ jvm'[j].dumps = jvm[j].dumps /\ jvm'[j].closed = jvm[j].closed
         /\ jvm'[j].in = jvm[j].in /\ jvm'[j].out = jvm[j].out /\ jvm'[j].state = s
<1> DEFINE r == [jvm[j] EXCEPT !.state = s]
<1>1. r \in Jvm
  BY DEF Jvm
<1>2. /\ r.key = jvm[j].key /\ r.compilations = jvm[j].compilations
      /\ r.requests = jvm[j].requests /\ r.primed = jvm[j].primed
      /\ r.dumps = jvm[j].dumps /\ r.closed = jvm[j].closed
      /\ r.in = jvm[j].in /\ r.out = jvm[j].out /\ r.state = s
  BY DEF Jvm
<1> HIDE DEF r
<1>3. jvm' = [jvm EXCEPT ![j] = r]
  BY DEF r
<1> QED BY <1>1, <1>2, <1>3

\* A JVM that starts has compiled nothing, and was asked at most its prime.
LEMMA Born ==
  ASSUME Shape, NEW k \in command.jdks, NEW request \in {<<>>, <<[id |-> 1, of |-> Prime]>>},
         Spawn(k, request), NEW j, j = started + 1
  PROVE  /\ started' = j /\ j \in Jvms /\ j \in 1..command.jvms
         /\ jvm' \in [Jvms -> Jvm] /\ \A i \in Jvms : i # j => jvm'[i] = jvm[i]
         /\ jvm'[j].state = "alive" /\ jvm'[j].key = k /\ jvm'[j].dumps = Recording(k)
         /\ jvm'[j].compilations = 0 /\ ~jvm'[j].closed
         /\ \A m \in Pending(j)' : m.id \in 0..jvm'[j].requests
         /\ claimed' = IF Records /\ k \notin archives THEN claimed \cup {k} ELSE claimed
<1> DEFINE new == [NoJvm EXCEPT !.state = "alive", !.key = k, !.dumps = Recording(k),
                                !.requests = Len(request), !.primed = Len(request),
                                !.in = request]
<1>1. started' = j /\ j \in Jvms /\ j \in 1..command.jvms
  BY DEF Shape, Spawn, Jvms
<1>2. jvm' = [jvm EXCEPT ![j] = new]
  BY DEF Spawn
<1>3. k \in Keys
  BY DEF Shape
<1>4. Recording(k) \in BOOLEAN
  BY DEF Recording
<1>5. /\ request \in Seq(Message) /\ Len(request) \in 0..1
      /\ \A m \in Elements(request) : m.id \in 0..Len(request)
  <2>1. CASE request = <<>>
    BY <2>1 DEF Elements
  <2>2. CASE request = <<[id |-> 1, of |-> Prime]>>
    BY <2>2 DEF Elements, Message
  <2> QED BY <2>1, <2>2
<1>6. /\ new.state = "alive" /\ new.key = k /\ new.dumps = Recording(k)
      /\ new.compilations = 0 /\ new.closed = FALSE /\ new.requests = Len(request)
      /\ new.in = request /\ new.out = <<>>
  BY DEF NoJvm
<1>7. new \in Jvm
  <2> DEFINE c == CHOOSE x \in Keys : TRUE
  <2>1. NoJvm = [state |-> "none", key |-> c, compilations |-> 0, requests |-> 0, primed |-> 0,
                 dumps |-> FALSE, closed |-> FALSE, hung |-> FALSE, in |-> <<>>, out |-> <<>>]
    BY Zenon DEF NoJvm
  <2>2. c \in Keys /\ <<>> \in Seq(Message) /\ "none" \in States /\ "alive" \in States
    BY <1>3 DEF States
  <2>3. NoJvm \in Jvm
    <3> HIDE DEF c
    <3> QED BY <2>1, <2>2 DEF Jvm
  <2> QED BY <1>3, <1>4, <1>5, <2>2, <2>3, Len(request) \in Nat DEF Jvm
<1>8. Elements(new.out) = {}
  BY <1>6 DEF Elements
<1> HIDE DEF new
<1>9. jvm' \in [Jvms -> Jvm] /\ jvm'[j] = new /\ \A i \in Jvms : i # j => jvm'[i] = jvm[i]
  BY <1>1, <1>2, <1>7 DEF Shape
<1>10. claimed' = IF Records /\ k \notin archives THEN claimed \cup {k} ELSE claimed
  BY DEF Spawn
<1>11. \A m \in Pending(j)' : m.id \in 0..jvm'[j].requests
  BY <1>5, <1>6, <1>8, <1>9 DEF Pending
<1> QED BY <1>1, <1>6, <1>9, <1>10, <1>11

-----------------------------------------------------------------------------
(* Every action keeps the invariant: those of the JVMs and of the threads  *)
(* that stop them first.  A step <1>cN is the invariant's Nth part.        *)

LEMMA ExitKeeps ==
  ASSUME IInv, NEW j \in Jvms, Exit(j)
  PROVE  IInv'
<1>0. /\ Shape /\ Places /\ OneOwner /\ Owned /\ Unborn /\ Leaving
      /\ OneRecorder /\ Recorders /\ Answers /\ OwnAnswer
  BY DEF IInv
<1>1. /\ Alive(j) /\ jvm' = [jvm EXCEPT ![j].state = "exited"]
      /\ UNCHANGED <<command, jdk, started, faults, pool, stopping, claimed, archives,
                     settling, pc, mine, old, got, main>>
  BY DEF Exit, chosen, processes, archiving, callers
<1>2. jvm \in [Jvms -> Jvm] /\ "exited" \in States
  BY <1>0 DEF Shape, States
<1>c1. Shape'
  BY <1>0, <1>1, <1>2, Became DEF Shape
<1>c2. Places'
  BY <1>0, <1>1, <1>2, Became DEF Places
<1>c3. OneOwner'
  BY <1>0, <1>1, <1>2, Became DEF OneOwner
<1>c4. Owned'
  BY <1>0, <1>1, <1>2, Became DEF Owned, Alive
<1>c5. Unborn'
  BY <1>0, <1>1, <1>2, Became DEF Unborn, Alive
<1>c6. Leaving'
  BY <1>0, <1>1, <1>2, Became DEF Leaving
<1>c7. OneRecorder'
  BY <1>0, <1>1, <1>2, Became DEF OneRecorder
<1>c8. Recorders'
  BY <1>0, <1>1, <1>2, Became DEF Recorders
<1>c10. OwnAnswer'
  BY <1>0, <1>1, <1>2, Became DEF OwnAnswer
<1>c9. Answers'
  BY <1>0, <1>1, <1>2, Became, NothingNew DEF Pending
<1> QED BY <1>c1, <1>c2, <1>c3, <1>c4, <1>c5, <1>c6, <1>c7, <1>c8, <1>c9, <1>c10 DEF IInv


LEMMA KillKeeps ==
  ASSUME IInv, NEW j \in Jvms, Kill(j)
  PROVE  IInv'
<1>0. /\ Shape /\ Places /\ OneOwner /\ Owned /\ Unborn /\ Leaving
      /\ OneRecorder /\ Recorders /\ Answers /\ OwnAnswer
  BY DEF IInv
<1> DEFINE s == IF Alive(j) THEN "killed" ELSE jvm[j].state
<1>1. /\ j \in stopping /\ stopping' = stopping \ {j} /\ jvm' = [jvm EXCEPT ![j].state = s]
      /\ UNCHANGED <<command, jdk, started, faults, pool, claimed, archives, settling,
                     pc, mine, old, got, main>>
  BY DEF Kill, chosen, processes, archiving, callers
<1>2. /\ jvm \in [Jvms -> Jvm] /\ s \in States /\ s # "alive"
      /\ s = "exited" <=> jvm[j].state = "exited"
  BY <1>0 DEF Shape, Jvm, Alive, States
<1> HIDE DEF s
<1>c1. Shape'
  BY <1>0, <1>1, <1>2, Became DEF Shape
<1>c2. Places'
  BY <1>0, <1>1, <1>2, Became DEF Places
<1>c3. OneOwner'
  BY <1>0, <1>1, <1>2, Became DEF OneOwner
<1>c4. Owned'
  BY <1>0, <1>1, <1>2, Became DEF Owned, Alive
<1>c5. Unborn'
  BY <1>0, <1>1, <1>2, Became, InRange DEF Unborn, Alive, Shape, Jvms
<1>c6. Leaving'
  BY <1>0, <1>1, <1>2, Became DEF Leaving
<1>c7. OneRecorder'
  BY <1>0, <1>1, <1>2, Became DEF OneRecorder
<1>c8. Recorders'
  BY <1>0, <1>1, <1>2, Became DEF Recorders
<1>c10. OwnAnswer'
  BY <1>0, <1>1, <1>2, Became DEF OwnAnswer
<1>c9. Answers'
  BY <1>0, <1>1, <1>2, Became, NothingNew DEF Pending
<1> QED BY <1>c1, <1>c2, <1>c3, <1>c4, <1>c5, <1>c6, <1>c7, <1>c8, <1>c9, <1>c10 DEF IInv


LEMMA CloseKeeps ==
  ASSUME IInv, NEW j \in Jvms, Close(j)
  PROVE  IInv'
<1>0. /\ Shape /\ Places /\ OneOwner /\ Owned /\ Unborn /\ Leaving
      /\ OneRecorder /\ Recorders /\ Answers /\ OwnAnswer
  BY DEF IInv
<1>1. /\ j \in stopping /\ jvm[j].compilations # 0 /\ jvm[j].dumps
      /\ jvm' = [jvm EXCEPT ![j].closed = TRUE]
      /\ UNCHANGED <<command, jdk, started, faults, pool, stopping, claimed, archives,
                     settling, pc, mine, old, got, main>>
  BY DEF Close, KilledAtOnce, chosen, processes, archiving, callers
<1>2. /\ jvm' \in [Jvms -> Jvm] /\ \A i \in Jvms : i # j => jvm'[i] = jvm[i]
      /\ jvm'[j].state = jvm[j].state /\ jvm'[j].key = jvm[j].key
      /\ jvm'[j].compilations = jvm[j].compilations /\ jvm'[j].requests = jvm[j].requests
      /\ jvm'[j].primed = jvm[j].primed /\ jvm'[j].dumps = jvm[j].dumps
      /\ jvm'[j].hung = jvm[j].hung /\ jvm'[j].in = jvm[j].in /\ jvm'[j].out = jvm[j].out
      /\ jvm'[j].closed = TRUE
  <2> DEFINE r == [jvm[j] EXCEPT !.closed = TRUE]
  <2>1. jvm[j] \in Jvm /\ j \in Jvms
    BY <1>0 DEF Shape
  <2>2. jvm' = [jvm EXCEPT ![j] = r]
    BY <1>1
  <2>3. r \in Jvm
    BY <2>1 DEF Jvm, States
  <2>4. /\ r.state = jvm[j].state /\ r.key = jvm[j].key
        /\ r.compilations = jvm[j].compilations /\ r.requests = jvm[j].requests
        /\ r.primed = jvm[j].primed /\ r.dumps = jvm[j].dumps /\ r.hung = jvm[j].hung
        /\ r.in = jvm[j].in /\ r.out = jvm[j].out
        /\ r.closed = TRUE
    BY <2>1 DEF Jvm
  <2> HIDE DEF r
  <2> QED BY <1>0, <2>1, <2>2, <2>3, <2>4 DEF Shape
<1>c1. Shape'
  BY <1>0, <1>1, <1>2 DEF Shape
<1>c2. Places'
  BY <1>0, <1>1, <1>2 DEF Places
<1>c3. OneOwner'
  BY <1>0, <1>1, <1>2 DEF OneOwner
<1>c4. Owned'
  BY <1>0, <1>1, <1>2 DEF Owned, Alive
<1>c5. Unborn'
  BY <1>0, <1>1, <1>2 DEF Unborn, Alive
<1>c7. OneRecorder'
  BY <1>0, <1>1, <1>2 DEF OneRecorder
<1>c8. Recorders'
  BY <1>0, <1>1, <1>2 DEF Recorders
<1>c10. OwnAnswer'
  BY <1>0, <1>1, <1>2 DEF OwnAnswer
<1>c6. Leaving'
  <2>1. j \notin pool /\ \A t \in Threads : mine[t] # j
    BY <1>0, <1>1 DEF OneOwner, Shape, Jvms
  <2>2. jvm[j].compilations > 0
    BY <1>0, <1>1 DEF Shape, Jvm
  <2>3. \A i \in Jvms : /\ jvm'[i].closed => i = j \/ jvm[i].closed
                        /\ jvm'[i].compilations = jvm[i].compilations
                        /\ jvm'[i].state = jvm[i].state
                        /\ jvm[i].closed => jvm'[i].closed
    BY <1>2
  <2>4. settling \subseteq Jvms
    BY <1>0, InRange DEF Shape
  <2> QED BY <1>0, <1>1, <2>1, <2>2, <2>3, <2>4 DEF Leaving
<1>c9. Answers'
  BY <1>0, <1>1, <1>2, NothingNew DEF Pending
<1> QED BY <1>c1, <1>c2, <1>c3, <1>c4, <1>c5, <1>c6, <1>c7, <1>c8, <1>c9, <1>c10 DEF IInv


LEMMA ReapKeeps ==
  ASSUME IInv, NEW j \in Jvms, Reap(j)
  PROVE  IInv'
<1>0. /\ Shape /\ Places /\ OneOwner /\ Owned /\ Unborn /\ Leaving
      /\ OneRecorder /\ Recorders /\ Answers /\ OwnAnswer
  BY DEF IInv
<1>1. /\ j \in stopping /\ jvm[j].closed /\ stopping' = stopping \ {j}
      /\ \/ jvm[j].state = "exited" /\ settling' = settling \cup {j} /\ jvm' = jvm
         \/ ~Alive(j) /\ settling' = settling /\ jvm' = jvm
         \/ Alive(j) /\ settling' = settling /\ jvm' = [jvm EXCEPT ![j].state = "killed"]
      /\ UNCHANGED <<command, jdk, started, faults, pool, claimed, archives, pc, mine,
                     old, got, main>>
  BY DEF Reap, Alive, chosen, processes, archiving, callers
<1>2. /\ jvm' \in [Jvms -> Jvm] /\ \A i \in Jvms : i # j => jvm'[i] = jvm[i]
      /\ jvm'[j].key = jvm[j].key /\ jvm'[j].compilations = jvm[j].compilations
      /\ jvm'[j].requests = jvm[j].requests /\ jvm'[j].dumps = jvm[j].dumps
      /\ jvm'[j].closed = jvm[j].closed /\ jvm'[j].in = jvm[j].in /\ jvm'[j].out = jvm[j].out
      /\ jvm'[j].state # "alive" /\ (jvm'[j].state = "exited" <=> jvm[j].state = "exited")
      /\ jvm'[j].state = "none" => jvm[j].state = "none"
  <2>1. jvm \in [Jvms -> Jvm] /\ "killed" \in States
    BY <1>0 DEF Shape, States
  <2>2. CASE jvm' = jvm /\ ~Alive(j)
    BY <1>1, <2>1, <2>2 DEF Alive
  <2>3. CASE Alive(j) /\ jvm' = [jvm EXCEPT ![j].state = "killed"]
    BY <2>1, <2>3, Became DEF Alive
  <2> QED BY <1>1, <2>2, <2>3 DEF Alive
<1>3. \A i \in Jvms : /\ jvm'[i].key = jvm[i].key /\ jvm'[i].dumps = jvm[i].dumps
                      /\ jvm'[i].compilations = jvm[i].compilations
                      /\ jvm'[i].closed = jvm[i].closed
                      /\ jvm[i].state = "exited" => jvm'[i].state = "exited"
  BY <1>2
<1>c3. OneOwner'
  <2>1. \A s \in Threads : mine[s] # 0 => jvm'[mine[s]].key = jvm[mine[s]].key
    BY <1>0, <1>3, InRange
  <2> QED BY <1>0, <1>1, <2>1 DEF OneOwner
<1>c1. Shape'
  BY <1>0, <1>1, <1>2 DEF Shape
<1>c2. Places'
  BY <1>0, <1>1, <1>2 DEF Places
<1>c4. Owned'
  BY <1>0, <1>1, <1>2, InRange DEF Owned, Alive, Shape, Jvms
<1>c5. Unborn'
  BY <1>0, <1>1, <1>2 DEF Unborn, Alive
<1>c10. OwnAnswer'
  BY <1>0, <1>1, <1>2 DEF OwnAnswer
<1>c6. Leaving'
  BY <1>0, <1>1, <1>3, InRange DEF Leaving, Shape, Jvms
<1>c7. OneRecorder'
  BY <1>0, <1>1, <1>3 DEF OneRecorder
<1>c8. Recorders'
  BY <1>0, <1>1, <1>3 DEF Recorders
<1>c9. Answers'
  BY <1>0, <1>1, <1>2, NothingNew DEF Pending
<1> QED BY <1>c1, <1>c2, <1>c3, <1>c4, <1>c5, <1>c6, <1>c7, <1>c8, <1>c9, <1>c10 DEF IInv


LEMMA SettleKeeps ==
  ASSUME IInv, NEW j \in Jvms, Settle(j)
  PROVE  IInv'
<1>0. /\ Shape /\ Places /\ OneOwner /\ Owned /\ Unborn /\ Leaving
      /\ OneRecorder /\ Recorders /\ Answers /\ OwnAnswer
  BY DEF IInv
<1>1. /\ j \in settling /\ settling' = settling \ {j}
      /\ archives' \in {archives, archives \cup {jvm[j].key}}
      /\ UNCHANGED <<command, jdk, started, faults, jvm, pool, stopping, claimed, pc,
                     mine, old, got, main>>
  BY DEF Settle, chosen, processes, archiving, callers
<1>2. jvm[j].key \in Keys
  BY <1>0 DEF Shape, Jvm
<1>c1. Shape'
  BY <1>0, <1>1, <1>2 DEF Shape
<1>c2. Places'
  BY <1>0, <1>1, <1>2 DEF Places
<1>c3. OneOwner'
  BY <1>0, <1>1, <1>2 DEF OneOwner
<1>c4. Owned'
  BY <1>0, <1>1, <1>2 DEF Owned, Alive
<1>c5. Unborn'
  BY <1>0, <1>1, <1>2 DEF Unborn, Alive
<1>c6. Leaving'
  BY <1>0, <1>1, <1>2 DEF Leaving
<1>c7. OneRecorder'
  BY <1>0, <1>1, <1>2 DEF OneRecorder
<1>c8. Recorders'
  BY <1>0, <1>1, <1>2 DEF Recorders
<1>c10. OwnAnswer'
  BY <1>0, <1>1, <1>2 DEF OwnAnswer
<1>c9. Answers'
  BY <1>0, <1>1, NothingNew DEF Pending
<1> QED BY <1>c1, <1>c2, <1>c3, <1>c4, <1>c5, <1>c6, <1>c7, <1>c8, <1>c9, <1>c10 DEF IInv


LEMMA AnswerKeeps ==
  ASSUME IInv, NEW j \in Jvms, Answer(j)
  PROVE  IInv'
<1>0. /\ Shape /\ Places /\ OneOwner /\ Owned /\ Unborn /\ Leaving
      /\ OneRecorder /\ Recorders /\ Answers /\ OwnAnswer
  BY DEF IInv
<1>1. /\ Alive(j) /\ jvm[j].in # <<>>
      /\ UNCHANGED <<command, jdk, started, faults, pool, stopping, claimed, archives,
                     settling, pc, mine, old, got, main>>
  BY DEF Answer, chosen, processes, archiving, callers
<1>5. jvm' = [jvm EXCEPT ![j].in = Tail(@), ![j].out = Append(@, Head(jvm[j].in)),
                         ![j].hung = FALSE]
  BY DEF Answer
<1>2. /\ Tail(jvm[j].in) \in Seq(Message) /\ Append(jvm[j].out, Head(jvm[j].in)) \in Seq(Message)
      /\ Elements(Tail(jvm[j].in)) \subseteq Pending(j)
      /\ Elements(Append(jvm[j].out, Head(jvm[j].in))) \subseteq Pending(j)
  <2>1. jvm[j].in \in Seq(Message) /\ jvm[j].out \in Seq(Message)
    BY <1>0 DEF Shape, Jvm
  <2> QED BY <1>1, <2>1, Appended, Dropped DEF Pending
<1>3. /\ jvm' \in [Jvms -> Jvm] /\ \A i \in Jvms : i # j => jvm'[i] = jvm[i]
      /\ jvm'[j].state = jvm[j].state /\ jvm'[j].key = jvm[j].key
      /\ jvm'[j].compilations = jvm[j].compilations /\ jvm'[j].requests = jvm[j].requests
      /\ jvm'[j].primed = jvm[j].primed /\ jvm'[j].dumps = jvm[j].dumps
      /\ jvm'[j].closed = jvm[j].closed
      /\ jvm'[j].in = Tail(jvm[j].in)
      /\ jvm'[j].out = Append(jvm[j].out, Head(jvm[j].in))
  <2> DEFINE r == [jvm[j] EXCEPT !.in = Tail(@), !.out = Append(@, Head(jvm[j].in)), !.hung = FALSE]
  <2>1. jvm[j] \in Jvm /\ j \in Jvms
    BY <1>0 DEF Shape
  <2>2. jvm' = [jvm EXCEPT ![j] = r]
    BY <1>1, <1>2, <1>5
  <2>3. r \in Jvm
    BY <2>1, <1>2, <1>5 DEF Jvm, States
  <2>4. /\ r.state = jvm[j].state /\ r.key = jvm[j].key
        /\ r.compilations = jvm[j].compilations /\ r.requests = jvm[j].requests
        /\ r.primed = jvm[j].primed /\ r.dumps = jvm[j].dumps /\ r.closed = jvm[j].closed
        /\ r.in = Tail(jvm[j].in)
        /\ r.out = Append(jvm[j].out, Head(jvm[j].in))
    BY <2>1 DEF Jvm
  <2> HIDE DEF r
  <2> QED BY <1>0, <2>1, <2>2, <2>3, <2>4 DEF Shape
<1>4. \A i \in Jvms : /\ jvm'[i].key = jvm[i].key /\ jvm'[i].dumps = jvm[i].dumps
                      /\ jvm'[i].compilations = jvm[i].compilations
                      /\ jvm'[i].closed = jvm[i].closed
                      /\ jvm'[i].state = jvm[i].state
  BY <1>3
<1>c1. Shape'
  BY <1>0, <1>1, <1>3 DEF Shape
<1>c2. Places'
  BY <1>0, <1>1, <1>3 DEF Places
<1>c10. OwnAnswer'
  BY <1>0, <1>1, <1>3 DEF OwnAnswer
<1>c3. OneOwner'
  BY <1>0, <1>1, <1>4, InRange DEF OneOwner, Shape, Jvms
<1>c4. Owned'
  BY <1>0, <1>1, <1>4, InRange DEF Owned, Alive, Shape, Jvms
<1>c5. Unborn'
  BY <1>0, <1>1, <1>4 DEF Unborn, Alive
<1>c6. Leaving'
  BY <1>0, <1>1, <1>4, InRange DEF Leaving, Shape, Jvms
<1>c7. OneRecorder'
  BY <1>0, <1>1, <1>4 DEF OneRecorder
<1>c8. Recorders'
  BY <1>0, <1>1, <1>4 DEF Recorders
<1>c9. Answers'
  BY <1>0, <1>1, <1>2, <1>3, NothingNew DEF Pending
<1> QED BY <1>c1, <1>c2, <1>c3, <1>c4, <1>c5, <1>c6, <1>c7, <1>c8, <1>c9, <1>c10 DEF IInv


LEMMA FailKeeps ==
  ASSUME IInv, NEW j \in Jvms, Fail(j)
  PROVE  IInv'
<1>0. /\ Shape /\ Places /\ OneOwner /\ Owned /\ Unborn /\ Leaving
      /\ OneRecorder /\ Recorders /\ Answers /\ OwnAnswer
  BY DEF IInv
<1>1. /\ Alive(j) /\ faults < MaxFaults /\ faults' = faults + 1
      /\ UNCHANGED <<command, jdk, started, pool, stopping, claimed, archives,
                     settling, pc, mine, old, got, main>>
  BY DEF Fail, chosen, processes, archiving, callers
<1>2. jvm \in [Jvms -> Jvm] /\ jvm[j] \in Jvm
  BY <1>0 DEF Shape
<1>3. /\ jvm' \in [Jvms -> Jvm] /\ \A i \in Jvms : i # j => jvm'[i] = jvm[i]
      /\ jvm'[j].key = jvm[j].key /\ jvm'[j].compilations = jvm[j].compilations
      /\ jvm'[j].requests = jvm[j].requests /\ jvm'[j].dumps = jvm[j].dumps
      /\ jvm'[j].closed = jvm[j].closed /\ jvm'[j].state \in {"alive", "died"}
      /\ \A m \in Pending(j)' : m.id = 0 \/ m \in Pending(j)
  <2>1. CASE jvm' = [jvm EXCEPT ![j].state = "died"]
    BY <1>2, <2>1, Became, "died" \in States DEF Pending, States
  <2>2. CASE /\ jvm[j].in # <<>>
             /\ jvm' = [jvm EXCEPT ![j].in = Tail(@),
                                   ![j].out = Append(@, [id |-> 0, of |-> Junk])]
    <3> DEFINE junk == [id |-> 0, of |-> Junk]
               r == [jvm[j] EXCEPT !.in = Tail(@), !.out = Append(@, junk)]
    <3>1. junk \in Message /\ junk.id = 0
      BY DEF Message
    <3>2. jvm[j].in \in Seq(Message) /\ jvm[j].out \in Seq(Message)
      BY <1>2 DEF Jvm
    <3>3. jvm' = [jvm EXCEPT ![j] = r]
      BY <2>2
    <3> HIDE DEF junk
    <3>4. /\ Tail(jvm[j].in) \in Seq(Message) /\ Append(jvm[j].out, junk) \in Seq(Message)
          /\ Elements(Tail(jvm[j].in)) \subseteq Pending(j)
          /\ Elements(Append(jvm[j].out, junk)) \subseteq Pending(j) \cup {junk}
      BY <2>2, <3>1, <3>2, Appended, Dropped DEF Pending
    <3>5. r \in Jvm
      BY <1>2, <3>4 DEF Jvm
    <3>6. /\ r.key = jvm[j].key /\ r.compilations = jvm[j].compilations
          /\ r.requests = jvm[j].requests /\ r.dumps = jvm[j].dumps /\ r.closed = jvm[j].closed
          /\ r.state = jvm[j].state /\ r.in = Tail(jvm[j].in) /\ r.out = Append(jvm[j].out, junk)
      BY <1>2 DEF Jvm
    <3> HIDE DEF r
    <3>7. jvm'[j] = r /\ jvm' \in [Jvms -> Jvm] /\ \A i \in Jvms : i # j => jvm'[i] = jvm[i]
      BY <1>2, <3>3, <3>5
    <3>8. \A m \in Pending(j)' : m.id = 0 \/ m \in Pending(j)
      BY <3>1, <3>4, <3>6, <3>7 DEF Pending
    <3> QED BY <1>1, <3>6, <3>7, <3>8 DEF Alive
  <2>3. CASE jvm' = [jvm EXCEPT ![j].hung = TRUE]
    <3> DEFINE r == [jvm[j] EXCEPT !.hung = TRUE]
    <3>1. jvm' = [jvm EXCEPT ![j] = r]
      BY <2>3
    <3>2. r \in Jvm
      BY <1>2 DEF Jvm
    <3>3. /\ r.key = jvm[j].key /\ r.compilations = jvm[j].compilations
          /\ r.requests = jvm[j].requests /\ r.dumps = jvm[j].dumps /\ r.closed = jvm[j].closed
          /\ r.state = jvm[j].state /\ r.in = jvm[j].in /\ r.out = jvm[j].out
      BY <1>2 DEF Jvm
    <3> HIDE DEF r
    <3> QED BY <1>1, <1>2, <3>1, <3>2, <3>3 DEF Pending, Alive
  <2> QED BY <1>1, <2>1, <2>2, <2>3 DEF Fail
<1>4. \A i \in Jvms : /\ jvm'[i].key = jvm[i].key /\ jvm'[i].dumps = jvm[i].dumps
                      /\ jvm'[i].compilations = jvm[i].compilations
                      /\ jvm'[i].closed = jvm[i].closed
                      /\ jvm[i].state = "exited" => jvm'[i].state = "exited"
  BY <1>1, <1>3 DEF Alive
<1>c2. Places'
  BY <1>0, <1>1, <1>3 DEF Places
<1>c3. OneOwner'
  BY <1>0, <1>1, <1>3, InRange DEF OneOwner, Shape, Jvms
<1>c4. Owned'
  BY <1>0, <1>1, <1>3, InRange DEF Owned, Alive, Shape, Jvms
<1>c5. Unborn'
  BY <1>0, <1>1, <1>3 DEF Unborn, Alive
<1>c10. OwnAnswer'
  BY <1>0, <1>1, <1>3 DEF OwnAnswer
<1>c6. Leaving'
  BY <1>0, <1>1, <1>4, InRange DEF Leaving, Shape, Jvms
<1>c8. Recorders'
  BY <1>0, <1>1, <1>4 DEF Recorders
<1>c7. OneRecorder'
  BY <1>0, <1>1, <1>4 DEF OneRecorder
<1>c1. Shape'
  <2>1. faults' \in 0..MaxFaults
    BY <1>0, <1>1 DEF Shape
  <2> QED BY <1>0, <1>1, <1>3, <2>1 DEF Shape
<1>c9. Answers'
  BY <1>0, <1>1, <1>3, NothingNew DEF Pending
<1> QED BY <1>c1, <1>c2, <1>c3, <1>c4, <1>c5, <1>c6, <1>c7, <1>c8, <1>c9, <1>c10 DEF IInv


-----------------------------------------------------------------------------
(* The threads that start JVMs, and the command.                           *)

\* A JVM is started: what it does to the others' records, and to the claims.
LEMMA SpawnKeeps ==
  ASSUME IInv, NEW k \in command.jdks, NEW request \in {<<>>, <<[id |-> 1, of |-> Prime]>>},
         Spawn(k, request), UNCHANGED <<command, archives>>, NEW j, j = started + 1,
         pool' \subseteq pool \cup {j},
         \A t \in Threads : /\ mine'[t] \in {mine[t], j}
                            /\ mine'[t] # 0 /\ mine'[t] # j => pc'[t] = pc[t]
  PROVE  OneRecorder' /\ Recorders' /\ Unborn'
<1>1. /\ Shape /\ Unborn /\ OneRecorder /\ Recorders /\ started \in Nat /\ claimed' \subseteq Keys
      /\ Places
  BY InRange DEF IInv, Shape, Spawn
<1>2. /\ started' = j /\ j \in Jvms /\ \A i \in Jvms : i # j => jvm'[i] = jvm[i]
      /\ jvm'[j].key = k /\ jvm'[j].dumps = Recording(k) /\ jvm'[j].compilations = 0
      /\ claimed' = IF Records /\ k \notin archives THEN claimed \cup {k} ELSE claimed
  BY <1>1, Born
<1>3. Unborn'
  BY <1>1, <1>2 DEF Unborn, Jvms
<1>4. claimed \subseteq claimed' /\ (jvm'[j].dumps => k \in claimed' /\ k \notin claimed)
  BY <1>2 DEF Recording
<1>5. \A i \in Jvms : i # j => /\ jvm'[i].key = jvm[i].key /\ jvm'[i].dumps = jvm[i].dumps
                               /\ jvm'[i].compilations = jvm[i].compilations
  BY <1>2
<1>6. OneRecorder'
  <2>1. ASSUME NEW a \in Jvms, NEW b \in Jvms, jvm'[a].dumps, jvm'[b].dumps,
               jvm'[a].key = jvm'[b].key
        PROVE  a = b
    BY <1>1, <1>2, <1>4, <1>5, <2>1 DEF OneRecorder, Recorders
  <2>2. ASSUME NEW a \in Jvms, jvm'[a].dumps, command.once PROVE jvm'[a].compilations <= 1
    <3>1. CASE a = j
      BY <1>2, <3>1
    <3>2. CASE a # j
      BY <1>1, <1>5, <2>2, <3>2 DEF OneRecorder
    <3> QED BY <3>1, <3>2
  <2> QED BY <2>1, <2>2 DEF OneRecorder
<1>7. Recorders'
  <2>1. ASSUME NEW a \in Jvms, jvm'[a].dumps PROVE jvm'[a].key \in claimed'
    BY <1>1, <1>2, <1>4, <1>5, <2>1 DEF Recorders
  <2>2. ASSUME NEW a \in Jvms, jvm'[a].dumps, command.once, jvm'[a].compilations > 0
        PROVE  a \notin pool' /\ \A t \in Threads : mine'[t] = a => pc'[t] = "wait"
    <3>1. a # j /\ jvm[a].dumps /\ jvm[a].compilations > 0
      BY <1>2, <1>5, <2>2
    <3>2. a \notin pool /\ \A t \in Threads : mine[t] = a => pc[t] = "wait"
      BY <1>1, <2>2, <3>1 DEF Recorders
    <3> QED BY <3>1, <3>2 DEF Jvms
  <2> QED BY <2>1, <2>2 DEF Recorders
<1> QED BY <1>3, <1>6, <1>7

LEMMA PrestartOneKeeps ==
  ASSUME IInv, NEW request \in {<<>>, <<[id |-> 1, of |-> Prime]>>}, main = "prestart",
         Spawn(jdk[First], request), pool' = pool \cup {started + 1},
         UNCHANGED <<main, faults, chosen, stopping, archives, settling, callers>>
  PROVE  IInv'
<1>0. /\ Shape /\ Places /\ OneOwner /\ Owned /\ Unborn /\ Leaving
      /\ OneRecorder /\ Recorders /\ Answers /\ OwnAnswer
  BY DEF IInv
<1>1. PICK j : j = started + 1
  OBVIOUS
<1>2. /\ Spawn(jdk[First], request) /\ pool' = pool \cup {j} /\ main = "prestart"
      /\ UNCHANGED <<command, jdk, faults, stopping, archives, settling, pc, mine, old,
                     got, main>>
  BY <1>0, <1>1 DEF chosen, callers, archiving, processes
<1>3. /\ jdk[First] \in command.jdks /\ command.jdks \subseteq Keys /\ started \in Nat
  BY <1>0, InRange DEF Shape
<1>4. /\ started' = j /\ j \in Jvms /\ j \in 1..command.jvms
      /\ jvm' \in [Jvms -> Jvm] /\ \A i \in Jvms : i # j => jvm'[i] = jvm[i]
      /\ jvm'[j].state = "alive" /\ jvm'[j].key = jdk[First] /\ jvm'[j].compilations = 0
      /\ ~jvm'[j].closed
      /\ claimed' = IF Records /\ jdk[First] \notin archives THEN claimed \cup {jdk[First]} ELSE claimed
      /\ \A m \in Pending(j)' : m.id \in 0..jvm'[j].requests
  BY <1>0, <1>1, <1>2, <1>3, Born
<1>5. /\ j \notin pool \cup stopping \cup settling /\ j > started /\ 0..started \subseteq 0..j
      /\ 1..started \subseteq 1..j /\ \A t_1 \in Threads : mine[t_1] # j /\ mine[t_1] \in 0..started
  BY <1>0, <1>1, InRange DEF Shape
<1>6. OneRecorder' /\ Recorders' /\ Unborn'
  <2>1. /\ pool' \subseteq pool \cup {j}
        /\ \A s \in Threads : /\ mine'[s] \in {mine[s], j}
                              /\ mine'[s] # 0 /\ mine'[s] # j => pc'[s] = pc[s]
    BY <1>0, <1>2 DEF Shape, Places
  <2> QED BY <1>1, <1>2, <1>3, <2>1, SpawnKeeps
<1>c5. Unborn'
  BY <1>6
<1>c7. OneRecorder'
  BY <1>6
<1>c8. Recorders'
  BY <1>6
<1>c1. Shape'
  BY <1>0, <1>1, <1>2, <1>3, <1>4, <1>5 DEF Shape
<1>c2. Places'
  BY <1>0, <1>1, <1>2, <1>3, <1>4, <1>5 DEF Places
<1>c3. OneOwner'
  BY <1>0, <1>1, <1>2, <1>3, <1>4, <1>5 DEF OneOwner
<1>c4. Owned'
  BY <1>0, <1>1, <1>2, <1>3, <1>4, <1>5, InRange DEF Owned, Alive, Shape, Jvms
<1>c6. Leaving'
  BY <1>0, <1>1, <1>2, <1>3, <1>4, <1>5, InRange DEF Leaving, Shape, Jvms
<1>c10. OwnAnswer'
  BY <1>0, <1>1, <1>2, <1>3, <1>4, <1>5 DEF OwnAnswer
<1>c9. Answers'
  BY <1>0, <1>1, <1>2, <1>3, <1>4, <1>5, NothingNew DEF Pending
<1> QED BY <1>c1, <1>c2, <1>c3, <1>c4, <1>c5, <1>c6, <1>c7, <1>c8, <1>c9, <1>c10 DEF IInv


LEMMA StartOneKeeps ==
  ASSUME IInv, NEW t \in Threads, StartOne(t)
  PROVE  IInv'
<1>0. /\ Shape /\ Places /\ OneOwner /\ Owned /\ Unborn /\ Leaving
      /\ OneRecorder /\ Recorders /\ Answers /\ OwnAnswer
  BY DEF IInv
<1>1. PICK j : j = started + 1
  OBVIOUS
<1>2. /\ Spawn(jdk[t], <<>>) /\ pc[t] = "start"
      /\ mine' = [mine EXCEPT ![t] = j] /\ pc' = [pc EXCEPT ![t] = "send"]
      /\ UNCHANGED <<command, jdk, faults, pool, stopping, archives, settling, old,
                     got, main>>
  BY <1>0, <1>1 DEF StartOne, chosen, callers, archiving, processes
<1>3. /\ jdk[t] \in command.jdks /\ command.jdks \subseteq Keys /\ started \in Nat
  BY <1>0, InRange DEF Shape
<1>4. /\ started' = j /\ j \in Jvms /\ j \in 1..command.jvms
      /\ jvm' \in [Jvms -> Jvm] /\ \A i \in Jvms : i # j => jvm'[i] = jvm[i]
      /\ jvm'[j].state = "alive" /\ jvm'[j].key = jdk[t] /\ jvm'[j].compilations = 0
      /\ ~jvm'[j].closed
      /\ claimed' = IF Records /\ jdk[t] \notin archives THEN claimed \cup {jdk[t]} ELSE claimed
      /\ \A m \in Pending(j)' : m.id \in 0..jvm'[j].requests
  BY <1>0, <1>1, <1>2, <1>3, Born
<1>5. /\ j \notin pool \cup stopping \cup settling /\ j > started /\ 0..started \subseteq 0..j
      /\ 1..started \subseteq 1..j /\ \A t_1 \in Threads : mine[t_1] # j /\ mine[t_1] \in 0..started
  BY <1>0, <1>1, InRange DEF Shape
<1>6. OneRecorder' /\ Recorders' /\ Unborn'
  <2>1. /\ pool' \subseteq pool \cup {j}
        /\ \A s \in Threads : /\ mine'[s] \in {mine[s], j}
                              /\ mine'[s] # 0 /\ mine'[s] # j => pc'[s] = pc[s]
    BY <1>0, <1>2 DEF Shape, Places
  <2> QED BY <1>1, <1>2, <1>3, <2>1, SpawnKeeps
<1>c5. Unborn'
  BY <1>6
<1>c7. OneRecorder'
  BY <1>6
<1>c8. Recorders'
  BY <1>6
<1>c3. OneOwner'
  <2>1. mine'[t] = j /\ \A s \in Threads : s # t => mine'[s] = mine[s]
    BY <1>0, <1>2 DEF Shape
  <2>2. \A s \in Threads : mine[s] # 0 => jvm'[mine[s]].key = jvm[mine[s]].key
    BY <1>0, <1>4, <1>5, InRange
  <2> QED BY <1>0, <1>2, <1>4, <1>5, <2>1, <2>2 DEF OneOwner
<1>c2. Places'
  BY <1>0, <1>1, <1>2, <1>3, <1>4, <1>5, InRange DEF Places, Shape, Jvms
<1>c6. Leaving'
  BY <1>0, <1>1, <1>2, <1>3, <1>4, <1>5, InRange DEF Leaving, Shape, Jvms
<1>c10. OwnAnswer'
  BY <1>0, <1>1, <1>2, <1>3, <1>4, <1>5 DEF OwnAnswer
<1>c4. Owned'
  <2>1. mine'[t] = j /\ mine[t] = 0 /\ \A s \in Threads : s # t => mine'[s] = mine[s]
    BY <1>0, <1>2 DEF Shape, Places
  <2>2. ASSUME NEW i \in 1..started, jvm'[i].state = "alive"
        PROVE  i \in pool \cup stopping \/ \E s \in Threads : mine'[s] = i
    BY <1>0, <1>1, <1>4, <2>1, <2>2, InRange DEF Owned, Alive
  <2> QED BY <1>1, <1>2, <1>3, <1>4, <2>1, <2>2 DEF Owned, Alive
<1>c1. Shape'
  <2>1. mine' \in [Threads -> 0..j] /\ pc' \in [Threads -> Steps]
    BY <1>0, <1>2, <1>4, <1>5, j \in 0..j DEF Shape, Steps
  <2> QED BY <1>0, <1>1, <1>2, <1>3, <1>4, <1>5, <2>1 DEF Shape
<1>c9. Answers'
  BY <1>0, <1>1, <1>2, <1>3, <1>4, <1>5, NothingNew DEF Pending
<1> QED BY <1>c1, <1>c2, <1>c3, <1>c4, <1>c5, <1>c6, <1>c7, <1>c8, <1>c9, <1>c10 DEF IInv


LEMMA ReplaceKeeps ==
  ASSUME IInv, NEW t \in Threads, Replace(t)
  PROVE  IInv'
<1>0. /\ Shape /\ Places /\ OneOwner /\ Owned /\ Unborn /\ Leaving
      /\ OneRecorder /\ Recorders /\ Answers /\ OwnAnswer
  BY DEF IInv
<1>1. PICK j : j = started + 1
  OBVIOUS
<1>2. /\ Spawn(jdk[t], <<>>) /\ pc[t] = "replace"
      /\ pool' = pool \cup {j} /\ pc' = [pc EXCEPT ![t] = "ready"]
      /\ UNCHANGED <<command, jdk, faults, stopping, archives, settling, mine, old,
                     got, main>>
  BY <1>0, <1>1 DEF Replace, chosen, callers, archiving, processes
<1>3. /\ jdk[t] \in command.jdks /\ command.jdks \subseteq Keys /\ started \in Nat
  BY <1>0, InRange DEF Shape
<1>4. /\ started' = j /\ j \in Jvms /\ j \in 1..command.jvms
      /\ jvm' \in [Jvms -> Jvm] /\ \A i \in Jvms : i # j => jvm'[i] = jvm[i]
      /\ jvm'[j].state = "alive" /\ jvm'[j].key = jdk[t] /\ jvm'[j].compilations = 0
      /\ ~jvm'[j].closed
      /\ claimed' = IF Records /\ jdk[t] \notin archives THEN claimed \cup {jdk[t]} ELSE claimed
      /\ \A m \in Pending(j)' : m.id \in 0..jvm'[j].requests
  BY <1>0, <1>1, <1>2, <1>3, Born
<1>5. /\ j \notin pool \cup stopping \cup settling /\ j > started /\ 0..started \subseteq 0..j
      /\ 1..started \subseteq 1..j /\ \A t_1 \in Threads : mine[t_1] # j /\ mine[t_1] \in 0..started
  BY <1>0, <1>1, InRange DEF Shape
<1>6. OneRecorder' /\ Recorders' /\ Unborn'
  <2>1. /\ pool' \subseteq pool \cup {j}
        /\ \A s \in Threads : /\ mine'[s] \in {mine[s], j}
                              /\ mine'[s] # 0 /\ mine'[s] # j => pc'[s] = pc[s]
    BY <1>0, <1>2 DEF Shape, Places
  <2> QED BY <1>1, <1>2, <1>3, <2>1, SpawnKeeps
<1>c5. Unborn'
  BY <1>6
<1>c7. OneRecorder'
  BY <1>6
<1>c8. Recorders'
  BY <1>6
<1>c3. OneOwner'
  <2>1. \A s \in Threads : mine[s] # 0 => jvm'[mine[s]].key = jvm[mine[s]].key
    BY <1>0, <1>4, <1>5, InRange
  <2> QED BY <1>0, <1>2, <1>5, <2>1 DEF OneOwner
<1>c2. Places'
  BY <1>0, <1>1, <1>2, <1>3, <1>4, <1>5 DEF Places
<1>c4. Owned'
  BY <1>0, <1>1, <1>2, <1>3, <1>4, <1>5, InRange DEF Owned, Alive, Shape, Jvms
<1>c6. Leaving'
  BY <1>0, <1>1, <1>2, <1>3, <1>4, <1>5, InRange DEF Leaving, Shape, Jvms
<1>c10. OwnAnswer'
  BY <1>0, <1>1, <1>2, <1>3, <1>4, <1>5 DEF OwnAnswer
<1>c1. Shape'
  <2>1. pc' \in [Threads -> Steps] /\ 1..j \subseteq 1..command.jvms /\ j \in 1..j
    BY <1>0, <1>1, <1>2, <1>3, <1>4 DEF Shape, Steps
  <2>2. pool' \subseteq 1..j /\ stopping \subseteq 1..j /\ settling \subseteq 1..j
        /\ mine \in [Threads -> 0..j] /\ claimed' \subseteq Keys
    BY <1>0, <1>2, <1>3, <1>4, <1>5, <2>1 DEF Shape
  <2>3. started' = j /\ j \in 0..command.jvms /\ jvm' \in [Jvms -> Jvm]
    BY <1>0, <1>4 DEF Shape
  <2>4. UNCHANGED <<command, jdk, faults, stopping, archives, settling, mine, old, got, main>>
    BY <1>2
  <2> QED BY <1>0, <2>1, <2>2, <2>3, <2>4 DEF Shape
<1>c9. Answers'
  BY <1>0, <1>1, <1>2, <1>3, <1>4, <1>5, NothingNew DEF Pending
<1> QED BY <1>c1, <1>c2, <1>c3, <1>c4, <1>c5, <1>c6, <1>c7, <1>c8, <1>c9, <1>c10 DEF IInv


LEMMA PrestartEndsKeeps ==
  ASSUME IInv, main = "prestart", main' = "compiling", faults' \in 0..MaxFaults,
         UNCHANGED <<chosen, started, jvm, pool, claimed, stopping, archives, settling, callers>>
  PROVE  IInv'
<1>0. /\ Shape /\ Places /\ OneOwner /\ Owned /\ Unborn /\ Leaving
      /\ OneRecorder /\ Recorders /\ Answers /\ OwnAnswer
  BY DEF IInv
<1>1. TRUE
      /\ UNCHANGED <<command, jdk, started, jvm, pool, stopping, claimed, archives,
                     settling, pc, mine, old, got>>
  BY DEF chosen, callers
<1>c1. Shape'
  BY <1>0, <1>1 DEF Shape
<1>c2. Places'
  BY <1>0, <1>1 DEF Places
<1>c3. OneOwner'
  BY <1>0, <1>1 DEF OneOwner
<1>c4. Owned'
  BY <1>0, <1>1 DEF Owned, Alive
<1>c5. Unborn'
  BY <1>0, <1>1 DEF Unborn, Alive
<1>c6. Leaving'
  BY <1>0, <1>1 DEF Leaving
<1>c7. OneRecorder'
  BY <1>0, <1>1 DEF OneRecorder
<1>c8. Recorders'
  BY <1>0, <1>1 DEF Recorders
<1>c10. OwnAnswer'
  BY <1>0, <1>1 DEF OwnAnswer
<1>c9. Answers'
  BY <1>0, <1>1, NothingNew DEF Pending
<1> QED BY <1>c1, <1>c2, <1>c3, <1>c4, <1>c5, <1>c6, <1>c7, <1>c8, <1>c9, <1>c10 DEF IInv


LEMMA RetireKeeps ==
  ASSUME IInv, Retire
  PROVE  IInv'
<1>0. /\ Shape /\ Places /\ OneOwner /\ Owned /\ Unborn /\ Leaving
      /\ OneRecorder /\ Recorders /\ Answers /\ OwnAnswer
  BY DEF IInv
<1>1. /\ main = "compiling" /\ main' = "retired" /\ stopping' = stopping \cup pool /\ pool' = {}
      /\ \A t \in Threads : pc[t] = "ready"
      /\ UNCHANGED <<command, jdk, started, faults, jvm, claimed, archives, settling,
                     pc, mine, old, got>>
  BY DEF Retire, Quiet, chosen, processes, archiving, callers
<1>c1. Shape'
  BY <1>0, <1>1 DEF Shape
<1>c2. Places'
  BY <1>0, <1>1 DEF Places
<1>c3. OneOwner'
  BY <1>0, <1>1 DEF OneOwner
<1>c4. Owned'
  BY <1>0, <1>1 DEF Owned, Alive
<1>c5. Unborn'
  BY <1>0, <1>1 DEF Unborn, Alive
<1>c6. Leaving'
  BY <1>0, <1>1, InRange DEF Leaving, Shape, Jvms
<1>c7. OneRecorder'
  BY <1>0, <1>1 DEF OneRecorder
<1>c8. Recorders'
  BY <1>0, <1>1 DEF Recorders
<1>c10. OwnAnswer'
  BY <1>0, <1>1 DEF OwnAnswer
<1>c9. Answers'
  BY <1>0, <1>1, NothingNew DEF Pending
<1> QED BY <1>c1, <1>c2, <1>c3, <1>c4, <1>c5, <1>c6, <1>c7, <1>c8, <1>c9, <1>c10 DEF IInv


LEMMA DropKeeps ==
  ASSUME IInv, Drop
  PROVE  IInv'
<1>0. /\ Shape /\ Places /\ OneOwner /\ Owned /\ Unborn /\ Leaving
      /\ OneRecorder /\ Recorders /\ Answers /\ OwnAnswer
  BY DEF IInv
<1>1. /\ main' = "joining" /\ stopping' = stopping \cup pool /\ pool' = {}
      /\ \A t \in Threads : pc[t] = "ready"
      /\ UNCHANGED <<command, jdk, started, faults, jvm, claimed, archives, settling,
                     pc, mine, old, got>>
  BY DEF Drop, Quiet, chosen, processes, archiving, callers
<1>c1. Shape'
  BY <1>0, <1>1 DEF Shape
<1>c2. Places'
  BY <1>0, <1>1 DEF Places
<1>c3. OneOwner'
  BY <1>0, <1>1 DEF OneOwner
<1>c4. Owned'
  BY <1>0, <1>1 DEF Owned, Alive
<1>c5. Unborn'
  BY <1>0, <1>1 DEF Unborn, Alive
<1>c6. Leaving'
  BY <1>0, <1>1, InRange DEF Leaving, Shape, Jvms
<1>c7. OneRecorder'
  BY <1>0, <1>1 DEF OneRecorder
<1>c8. Recorders'
  BY <1>0, <1>1 DEF Recorders
<1>c10. OwnAnswer'
  BY <1>0, <1>1 DEF OwnAnswer
<1>c9. Answers'
  BY <1>0, <1>1, NothingNew DEF Pending
<1> QED BY <1>c1, <1>c2, <1>c3, <1>c4, <1>c5, <1>c6, <1>c7, <1>c8, <1>c9, <1>c10 DEF IInv


LEMMA JoinKeeps ==
  ASSUME IInv, Join
  PROVE  IInv'
<1>0. /\ Shape /\ Places /\ OneOwner /\ Owned /\ Unborn /\ Leaving
      /\ OneRecorder /\ Recorders /\ Answers /\ OwnAnswer
  BY DEF IInv
<1>1. /\ main = "joining" /\ main' = "ended" /\ stopping = {} /\ settling = {}
      /\ UNCHANGED <<command, jdk, started, faults, jvm, pool, stopping, claimed,
                     archives, settling, pc, mine, old, got>>
  BY DEF Join, chosen, processes, archiving, callers
<1>c1. Shape'
  BY <1>0, <1>1 DEF Shape
<1>c2. Places'
  BY <1>0, <1>1 DEF Places
<1>c3. OneOwner'
  BY <1>0, <1>1 DEF OneOwner
<1>c4. Owned'
  BY <1>0, <1>1 DEF Owned, Alive
<1>c5. Unborn'
  BY <1>0, <1>1 DEF Unborn, Alive
<1>c6. Leaving'
  BY <1>0, <1>1 DEF Leaving
<1>c7. OneRecorder'
  BY <1>0, <1>1 DEF OneRecorder
<1>c8. Recorders'
  BY <1>0, <1>1 DEF Recorders
<1>c10. OwnAnswer'
  BY <1>0, <1>1 DEF OwnAnswer
<1>c9. Answers'
  BY <1>0, <1>1, NothingNew DEF Pending
<1> QED BY <1>c1, <1>c2, <1>c3, <1>c4, <1>c5, <1>c6, <1>c7, <1>c8, <1>c9, <1>c10 DEF IInv


LEMMA StoppedKeeps ==
  ASSUME IInv, NEW t \in Threads, Stopped(t)
  PROVE  IInv'
<1>0. /\ Shape /\ Places /\ OneOwner /\ Owned /\ Unborn /\ Leaving
      /\ OneRecorder /\ Recorders /\ Answers /\ OwnAnswer
  BY DEF IInv
<1>1. /\ pc[t] = "stop" /\ old' = [old EXCEPT ![t] = {}]
      /\ pc' = [pc EXCEPT ![t] = IF mine[t] = 0 THEN "start"
                                 ELSE IF jvm[mine[t]].primed # 0 THEN "drain" ELSE "send"]
      /\ UNCHANGED <<command, jdk, started, faults, jvm, pool, stopping, claimed,
                     archives, settling, mine, got, main>>
  BY DEF Stopped, chosen, processes, archiving
<1>c1. Shape'
  BY <1>0, <1>1, InRange DEF Shape, Steps
<1>c2. Places'
  BY <1>0, <1>1 DEF Places
<1>c3. OneOwner'
  BY <1>0, <1>1 DEF OneOwner
<1>c4. Owned'
  BY <1>0, <1>1 DEF Owned, Alive
<1>c5. Unborn'
  BY <1>0, <1>1 DEF Unborn, Alive
<1>c6. Leaving'
  BY <1>0, <1>1 DEF Leaving
<1>c7. OneRecorder'
  BY <1>0, <1>1 DEF OneRecorder
<1>c8. Recorders'
  BY <1>0, <1>1 DEF Recorders
<1>c10. OwnAnswer'
  BY <1>0, <1>1 DEF OwnAnswer
<1>c9. Answers'
  BY <1>0, <1>1, NothingNew DEF Pending
<1> QED BY <1>c1, <1>c2, <1>c3, <1>c4, <1>c5, <1>c6, <1>c7, <1>c8, <1>c9, <1>c10 DEF IInv


LEMMA StartFailsKeeps ==
  ASSUME IInv, NEW t \in Threads, StartFails(t)
  PROVE  IInv'
<1>0. /\ Shape /\ Places /\ OneOwner /\ Owned /\ Unborn /\ Leaving
      /\ OneRecorder /\ Recorders /\ Answers /\ OwnAnswer
  BY DEF IInv
<1>1. /\ faults' \in 0..MaxFaults /\ pc[t] \in {"start", "replace"}
      /\ pc' = [pc EXCEPT ![t] = "ready"]
      /\ got' = got \/ got' = [got EXCEPT ![t] = Append(@, <<"forked", t>>)]
      /\ UNCHANGED <<command, jdk, started, jvm, pool, stopping, claimed, archives,
                     settling, mine, old, main>>
  BY <1>0 DEF StartFails, Shape, chosen, archiving
<1>2. /\ got' \in [Threads -> Seq(Outcome)] /\ OwnAnswer'
      /\ \A s \in Threads : s # t => got'[s] = got[s]
  <2>1. CASE got' = got
    BY <1>0, <2>1 DEF Shape, OwnAnswer
  <2>2. CASE got' = [got EXCEPT ![t] = Append(@, <<"forked", t>>)]
    BY <1>0, <2>2, Told
  <2> QED BY <1>1, <2>1, <2>2
<1>c2. Places'
  BY <1>0, <1>1, <1>2 DEF Places
<1>c3. OneOwner'
  BY <1>0, <1>1, <1>2 DEF OneOwner
<1>c4. Owned'
  BY <1>0, <1>1, <1>2 DEF Owned, Alive
<1>c5. Unborn'
  BY <1>0, <1>1, <1>2 DEF Unborn, Alive
<1>c6. Leaving'
  BY <1>0, <1>1, <1>2 DEF Leaving
<1>c7. OneRecorder'
  BY <1>0, <1>1, <1>2 DEF OneRecorder
<1>c8. Recorders'
  BY <1>0, <1>1, <1>2 DEF Recorders
<1>c1. Shape'
  BY <1>0, <1>1, <1>2, InRange DEF Shape, Steps
<1>c10. OwnAnswer'
  BY <1>2
<1>c9. Answers'
  BY <1>0, <1>1, <1>2, NothingNew DEF Pending
<1> QED BY <1>c1, <1>c2, <1>c3, <1>c4, <1>c5, <1>c6, <1>c7, <1>c8, <1>c9, <1>c10 DEF IInv


-----------------------------------------------------------------------------
(* The threads that compile.                                               *)

LEMMA TakeKeeps ==
  ASSUME IInv, NEW t \in Threads, Take(t)
  PROVE  IInv'
<1>0. /\ Shape /\ Places /\ OneOwner /\ Owned /\ Unborn /\ Leaving
      /\ OneRecorder /\ Recorders /\ Answers /\ OwnAnswer
  BY DEF IInv
<1> DEFINE w == IF Warmest(jdk[t]) = {} THEN 0 ELSE CHOOSE x \in Warmest(jdk[t]) : TRUE
<1>1. /\ main = "compiling" /\ pc[t] = "ready" /\ mine' = [mine EXCEPT ![t] = w]
      /\ pool' = Fresh(jdk[t]) \ Warmest(jdk[t]) /\ old' = [old EXCEPT ![t] = pool \ Fresh(jdk[t])]
      /\ stopping' = stopping \cup (pool \ Fresh(jdk[t])) /\ pc' = [pc EXCEPT ![t] = "stop"]
      /\ UNCHANGED <<command, jdk, started, faults, jvm, claimed, archives, settling,
                     got, main>>
  BY DEF Take, chosen, processes, archiving
<1>2. \A a, b \in Warmest(jdk[t]) : a = b
  <2>1. \A a \in Warmest(jdk[t]) : a \in Jvms
    BY <1>0, InRange DEF Warmest, Fresh, Shape
  <2>2. \A a \in Jvms : a \in Nat /\ jvm[a].compilations \in Nat
    BY <1>0 DEF Shape, Jvm, Jvms
  <2> QED BY <2>1, <2>2 DEF Warmest
<1>3. Warmest(jdk[t]) \subseteq Fresh(jdk[t]) /\ Fresh(jdk[t]) \subseteq pool
  BY DEF Warmest, Fresh
<1>4. \/ w = 0 /\ Warmest(jdk[t]) = {}
      \/ Warmest(jdk[t]) = {w} /\ w \in pool /\ jvm[w].key = jdk[t] /\ w # 0 /\ w \in 1..started
  <2>1. CASE Warmest(jdk[t]) # {}
    <3>1. w \in Warmest(jdk[t])
      BY <2>1
    <3> HIDE DEF w
    <3>2. w \in pool /\ jvm[w].key = jdk[t]
      BY <1>3, <3>1 DEF Fresh
    <3>3. w \in 1..started /\ w # 0
      BY <1>0, <3>2, InRange DEF Shape
    <3> QED BY <1>2, <3>1, <3>2, <3>3
  <2> QED BY <2>1
<1> HIDE DEF w
<1>5. /\ pool' \subseteq pool /\ stopping \subseteq stopping' /\ stopping' \subseteq stopping \cup pool
      /\ pool' \cap stopping' = {} /\ pool \subseteq pool' \cup stopping' \cup {w}
      /\ w # 0 => /\ w \in pool /\ w \notin pool' \cup stopping' /\ jvm[w].key = jdk[t]
      /\ w \in 0..started /\ pool \subseteq Jvms
  <2>1. pool \cap stopping = {} /\ pool \subseteq 1..started /\ pool \subseteq Jvms /\ 0 \in 0..started
        /\ 1..started \subseteq 0..started
    BY <1>0, InRange DEF OneOwner, Shape
  <2> QED BY <1>1, <1>3, <1>4, <2>1
<1>6. /\ mine' \in [Threads -> 0..started] /\ pc' \in [Threads -> Steps]
      /\ old' \in [Threads -> SUBSET Jvms] /\ pool' \subseteq 1..started /\ stopping' \subseteq 1..started
      /\ mine'[t] = w /\ pc'[t] = "stop" /\ mine[t] = 0
      /\ \A s \in Threads : s # t => mine'[s] = mine[s] /\ pc'[s] = pc[s]
  <2>1. /\ mine' \in [Threads -> 0..started] /\ mine'[t] = w /\ mine[t] = 0
        /\ \A s \in Threads : s # t => mine'[s] = mine[s]
    BY <1>0, <1>1, <1>5 DEF Shape, Places
  <2>2. /\ pc' \in [Threads -> Steps] /\ pc'[t] = "stop"
        /\ \A s \in Threads : s # t => pc'[s] = pc[s]
    BY <1>0, <1>1 DEF Shape, Steps
  <2>3. old' \in [Threads -> SUBSET Jvms] /\ pool' \subseteq 1..started /\ stopping' \subseteq 1..started
    BY <1>0, <1>1, <1>5 DEF Shape
  <2> QED BY <2>1, <2>2, <2>3
<1>c2. Places'
  BY <1>0, <1>1, <1>5, <1>6 DEF Places
<1>c5. Unborn'
  BY <1>0, <1>1, <1>5, <1>6 DEF Unborn, Alive
<1>c7. OneRecorder'
  BY <1>0, <1>1, <1>5, <1>6 DEF OneRecorder
<1>c10. OwnAnswer'
  BY <1>0, <1>1, <1>5, <1>6 DEF OwnAnswer
<1>c1. Shape'
  BY <1>0, <1>1, <1>6 DEF Shape
<1>c3. OneOwner'
  BY <1>0, <1>1, <1>5, <1>6 DEF OneOwner
<1>c4. Owned'
  BY <1>0, <1>1, <1>5, <1>6, InRange DEF Owned, Alive, Shape
<1>c6. Leaving'
  BY <1>0, <1>1, <1>5, <1>6, InRange DEF Leaving, Shape
<1>c8. Recorders'
  <2>1. ASSUME NEW i \in Jvms, jvm[i].dumps, command.once, jvm[i].compilations > 0
        PROVE  i \notin pool' /\ \A s \in Threads : mine'[s] = i => pc'[s] = "wait"
    <3>1. i \notin pool /\ i # 0 /\ \A s \in Threads : mine[s] = i => pc[s] = "wait"
      BY <1>0, <2>1 DEF Recorders, Jvms
    <3> QED BY <1>5, <1>6, <3>1
  <2>2. jvm' = jvm /\ claimed' = claimed /\ command' = command
    BY <1>1
  <2> QED BY <1>0, <2>1, <2>2 DEF Recorders
<1>c9. Answers'
  BY <1>0, <1>1, <1>6, NothingNew DEF Pending
<1> QED BY <1>c1, <1>c2, <1>c3, <1>c4, <1>c5, <1>c6, <1>c7, <1>c8, <1>c9, <1>c10 DEF IInv


LEMMA SendRequestKeeps ==
  ASSUME IInv, NEW t \in Threads, SendRequest(t)
  PROVE  IInv'
<1>0. /\ Shape /\ Places /\ OneOwner /\ Owned /\ Unborn /\ Leaving
      /\ OneRecorder /\ Recorders /\ Answers /\ OwnAnswer
  BY DEF IInv
<1>1. PICK j : j = mine[t]
  OBVIOUS
<1> DEFINE m == [id |-> jvm[j].requests + 1, of |-> Compile(t)]
<1>2. /\ pc[t] = "send" /\ pc' = [pc EXCEPT ![t] = "wait"]
      /\ jvm' = [jvm EXCEPT ![j].compilations = @ + 1, ![j].requests = @ + 1,
                            ![j].in = Append(@, m)]
      /\ UNCHANGED <<command, jdk, started, faults, pool, stopping, claimed, archives,
                     settling, mine, old, got, main>>
  BY <1>1 DEF SendRequest, chosen, archiving
<1>3. /\ j \in Jvms /\ j \in 1..started /\ j # 0 /\ jvm[j] \in Jvm /\ jvm[j].key \in Keys
      /\ jvm[j].requests \in Nat /\ jvm[j].compilations \in Nat /\ jvm[j].in \in Seq(Message)
  BY <1>0, <1>1, <1>2, InRange DEF Places, Shape, Jvm
<1>4. /\ m \in Message /\ m.id = jvm[j].requests + 1 /\ m.of = Compile(t)
  <2>1. Len(got[t]) + 1 \in Nat
    BY <1>0 DEF Shape
  <2> QED BY <1>3, <2>1 DEF Message, Compile
<1> HIDE DEF m
<1>5. /\ Append(jvm[j].in, m) \in Seq(Message) /\ jvm[j].requests + 1 \in Nat
      /\ jvm[j].compilations + 1 \in Nat
      /\ Elements(Append(jvm[j].in, m)) = Elements(jvm[j].in) \cup {m}
  BY <1>3, <1>4, Appended
<1>6. /\ jvm' \in [Jvms -> Jvm] /\ \A i \in Jvms : i # j => jvm'[i] = jvm[i]
      /\ jvm'[j].state = jvm[j].state /\ jvm'[j].key = jvm[j].key
      /\ jvm'[j].dumps = jvm[j].dumps /\ jvm'[j].closed = jvm[j].closed
      /\ jvm'[j].compilations = jvm[j].compilations + 1
      /\ jvm'[j].requests = jvm[j].requests + 1
      /\ jvm'[j].in = Append(jvm[j].in, m) /\ jvm'[j].out = jvm[j].out
  <2> DEFINE r == [jvm[j] EXCEPT !.compilations = @ + 1, !.requests = @ + 1, !.in = Append(@, m)]
  <2>1. r \in Jvm
    BY <1>3, <1>5 DEF Jvm
  <2>2. /\ r.state = jvm[j].state /\ r.key = jvm[j].key /\ r.dumps = jvm[j].dumps
        /\ r.closed = jvm[j].closed /\ r.compilations = jvm[j].compilations + 1
        /\ r.requests = jvm[j].requests + 1 /\ r.in = Append(jvm[j].in, m) /\ r.out = jvm[j].out
    BY <1>3 DEF Jvm
  <2>3. jvm' = [jvm EXCEPT ![j] = r]
    BY <1>2
  <2> HIDE DEF r
  <2> QED BY <1>0, <1>3, <2>1, <2>2, <2>3 DEF Shape
<1>7. /\ \A i \in Jvms : /\ jvm'[i].key = jvm[i].key /\ jvm'[i].dumps = jvm[i].dumps
                         /\ jvm'[i].closed = jvm[i].closed /\ jvm'[i].state = jvm[i].state
                         /\ i # j => jvm'[i].compilations = jvm[i].compilations
      /\ \A s \in Threads : s # t => pc'[s] = pc[s] /\ mine[s] # j
      /\ pc' \in [Threads -> Steps] /\ pc'[t] = "wait" /\ j \notin pool /\ ~jvm[j].closed
      /\ jvm[j].dumps /\ command.once => jvm[j].compilations = 0
  <2>1. j \notin pool /\ \A s \in Threads : s # t => mine[s] # j
    BY <1>0, <1>1, <1>3 DEF OneOwner
  <2>2. ~jvm[j].closed
    BY <1>0, <1>1, <1>3 DEF Leaving
  <2>3. jvm[j].dumps /\ command.once => jvm[j].compilations = 0
    BY <1>0, <1>1, <1>2, <1>3 DEF Recorders
  <2>4. /\ \A s \in Threads : s # t => pc'[s] = pc[s]
        /\ pc' \in [Threads -> Steps] /\ pc'[t] = "wait"
    BY <1>0, <1>2 DEF Shape, Steps
  <2> QED BY <1>6, <2>1, <2>2, <2>3, <2>4
<1>c3. OneOwner'
  <2>1. \A s \in Threads : mine[s] # 0 => jvm'[mine[s]].key = jvm[mine[s]].key
    BY <1>0, <1>7, InRange
  <2> QED BY <1>0, <1>2, <2>1 DEF OneOwner
<1>c2. Places'
  BY <1>0, <1>1, <1>2, <1>3, <1>7 DEF Places
<1>c4. Owned'
  BY <1>0, <1>1, <1>2, <1>3, <1>7, InRange DEF Owned, Alive, Shape, Jvms
<1>c5. Unborn'
  BY <1>0, <1>1, <1>2, <1>3, <1>7, InRange DEF Unborn, Alive, Shape, Jvms
<1>c10. OwnAnswer'
  BY <1>0, <1>1, <1>2, <1>3, <1>7 DEF OwnAnswer
<1>c1. Shape'
  BY <1>0, <1>2, <1>6, <1>7 DEF Shape
<1>c6. Leaving'
  <2>1. \A i \in Jvms : jvm'[i].closed =>
          i # j /\ jvm[i].closed /\ jvm'[i].compilations = jvm[i].compilations
    BY <1>7
  <2>2. settling \subseteq Jvms
    BY <1>0, InRange DEF Shape
  <2>3. \A i \in settling : jvm'[i].closed /\ jvm'[i].state = "exited" /\ i \notin stopping
    BY <1>0, <1>7, <2>2 DEF Leaving
  <2> QED BY <1>0, <1>2, <2>1, <2>3 DEF Leaving
<1>c7. OneRecorder'
  BY <1>0, <1>2, <1>3, <1>6, <1>7 DEF OneRecorder
<1>c8. Recorders'
  <2>1. ASSUME NEW i \in Jvms, jvm'[i].dumps
        PROVE  jvm[i].dumps /\ jvm'[i].key = jvm[i].key /\ jvm[i].key \in claimed
    BY <1>0, <1>7, <2>1 DEF Recorders
  <2>2. ASSUME NEW i \in Jvms, jvm'[i].dumps, command.once, jvm'[i].compilations > 0
        PROVE  i \notin pool /\ \A s \in Threads : mine[s] = i => pc'[s] = "wait"
    <3>1. CASE i = j
      BY <1>7, <3>1
    <3>2. CASE i # j
      <4>1. i \notin pool /\ \A s \in Threads : mine[s] = i => pc[s] = "wait"
        BY <1>0, <1>7, <2>1, <2>2, <3>2 DEF Recorders
      <4> QED BY <1>1, <1>7, <3>2, <4>1
    <3> QED BY <3>1, <3>2
  <2>3. mine' = mine /\ pool' = pool /\ claimed' = claimed /\ command' = command
    BY <1>2
  <2> QED BY <2>1, <2>2, <2>3 DEF Recorders
<1>c9. Answers'
  <2>1. ASSUME NEW i \in Jvms, i # j PROVE Pending(i)' = Pending(i) /\ jvm'[i].requests = jvm[i].requests
    BY <1>6, <2>1 DEF Pending
  <2>2. Pending(j)' = Pending(j) \cup {m}
    BY <1>5, <1>6 DEF Pending
  <2>3. ASSUME NEW i \in Jvms, NEW n \in Pending(i)' PROVE n.id \in 0..jvm'[i].requests
    BY <1>0, <1>3, <1>4, <1>6, <2>1, <2>2, <2>3 DEF Answers
  <2>4. ASSUME NEW s \in Threads, pc'[s] = "wait"
        PROVE  /\ jvm'[mine'[s]].requests > 0
               /\ \A n \in Pending(mine[s])' :
                    n.id = jvm'[mine'[s]].requests => n.of = Compile(s)'
    <3>1. mine' = mine /\ Compile(s)' = Compile(s)
      BY <1>2 DEF Compile
    <3>2. CASE s = t
      <4>1. Pending(mine[s])' = Pending(j)' /\ mine'[s] = j
        BY <1>1, <3>1, <3>2 DEF Pending
      <4>2. jvm'[j].requests > 0
        BY <1>3, <1>6
      <4>3. \A n \in Pending(j) : n.id # jvm'[j].requests
        BY <1>0, <1>3, <1>6 DEF Answers
      <4> QED BY <1>4, <2>2, <3>1, <3>2, <4>1, <4>2, <4>3
    <3>3. CASE s # t
      <4>1. mine[s] \in Jvms /\ mine[s] # j /\ pc[s] = "wait"
        BY <1>0, <1>7, <2>4, <3>3, InRange DEF Places
      <4>2. Pending(mine[s])' = Pending(mine[s])
        BY <1>6, <3>1, <4>1 DEF Pending
      <4> QED BY <1>0, <2>1, <3>1, <4>1, <4>2 DEF Answers
    <3> QED BY <3>2, <3>3
  <2> QED BY <2>3, <2>4 DEF Answers
<1> QED BY <1>c1, <1>c2, <1>c3, <1>c4, <1>c5, <1>c6, <1>c7, <1>c8, <1>c9, <1>c10 DEF IInv


LEMMA ForkKeeps ==
  ASSUME IInv, NEW t \in Threads, Fork(t)
  PROVE  IInv'
<1>0. /\ Shape /\ Places /\ OneOwner /\ Owned /\ Unborn /\ Leaving
      /\ OneRecorder /\ Recorders /\ Answers /\ OwnAnswer
  BY DEF IInv
<1>1. PICK j : j = mine[t]
  OBVIOUS
<1>2. /\ pc[t] \in {"send", "drain", "wait"} /\ pc' = [pc EXCEPT ![t] = "ready"]
      /\ mine' = [mine EXCEPT ![t] = 0] /\ jvm' = [jvm EXCEPT ![j].state = "killed"]
      /\ got' = [got EXCEPT ![t] = Append(@, <<"forked", t>>)]
      /\ UNCHANGED <<command, jdk, started, faults, pool, stopping, claimed, archives,
                     settling, old, main>>
  BY <1>1 DEF Fork, chosen, archiving
<1>3. /\ j \in Jvms /\ j # 0 /\ jvm \in [Jvms -> Jvm] /\ "killed" \in States
  BY <1>0, <1>1, <1>2, InRange DEF Places, Shape, States
<1>4. /\ \A i \in Jvms : /\ jvm'[i].key = jvm[i].key /\ jvm'[i].dumps = jvm[i].dumps
                         /\ jvm'[i].compilations = jvm[i].compilations
                         /\ jvm'[i].closed = jvm[i].closed /\ jvm'[i].requests = jvm[i].requests
                         /\ jvm'[i].in = jvm[i].in /\ jvm'[i].out = jvm[i].out
                         /\ jvm'[i].state = IF i = j THEN "killed" ELSE jvm[i].state
      /\ jvm' \in [Jvms -> Jvm]
  <2>1. /\ jvm' \in [Jvms -> Jvm] /\ \A i \in Jvms : i # j => jvm'[i] = jvm[i]
        /\ jvm'[j].key = jvm[j].key /\ jvm'[j].dumps = jvm[j].dumps
        /\ jvm'[j].compilations = jvm[j].compilations
        /\ jvm'[j].closed = jvm[j].closed /\ jvm'[j].requests = jvm[j].requests
        /\ jvm'[j].in = jvm[j].in /\ jvm'[j].out = jvm[j].out /\ jvm'[j].state = "killed"
    BY <1>2, <1>3, Became
  <2> QED BY <2>1
<1>5. /\ \A s \in Threads : s # t => pc'[s] = pc[s] /\ mine'[s] = mine[s] /\ mine[s] # j
      /\ pc' \in [Threads -> Steps] /\ pc'[t] = "ready" /\ mine'[t] = 0
      /\ mine' \in [Threads -> 0..started] /\ ~jvm[j].closed
  <2>1. \A s \in Threads : s # t => mine[s] # j
    BY <1>0, <1>1, <1>3 DEF OneOwner
  <2>2. ~jvm[j].closed
    BY <1>0, <1>1, <1>3 DEF Leaving
  <2>3. /\ \A s \in Threads : s # t => pc'[s] = pc[s] /\ mine'[s] = mine[s]
        /\ pc' \in [Threads -> Steps] /\ pc'[t] = "ready" /\ mine'[t] = 0
        /\ mine' \in [Threads -> 0..started]
    BY <1>0, <1>2, InRange DEF Shape, Steps
  <2> QED BY <2>1, <2>2, <2>3
<1>6. /\ got' \in [Threads -> Seq(Outcome)] /\ OwnAnswer'
      /\ \A s \in Threads : s # t => got'[s] = got[s]
  BY <1>0, <1>2, Told
<1>c1. Shape'
  BY <1>0, <1>2, <1>4, <1>5, <1>6 DEF Shape
<1>c2. Places'
  BY <1>0, <1>2, <1>5 DEF Places
<1>c3. OneOwner'
  BY <1>0, <1>2, <1>4, <1>5, InRange DEF OneOwner
<1>c4. Owned'
  BY <1>0, <1>1, <1>2, <1>4, <1>5, InRange DEF Owned, Alive
<1>c5. Unborn'
  BY <1>0, <1>1, <1>2, <1>3, <1>4, InRange DEF Unborn, Jvms, Shape
<1>c6. Leaving'
  <2>1. \A i \in Jvms : jvm'[i].closed => i # j /\ jvm[i].closed /\ jvm'[i].compilations > 0
    BY <1>0, <1>4, <1>5 DEF Leaving
  <2>2. \A i \in Jvms : jvm'[i].closed => i \notin pool /\ \A s \in Threads : mine'[s] # i
    <3>1. \A i \in Jvms : jvm'[i].closed => i \notin pool /\ \A s \in Threads : mine[s] # i
      BY <1>0, <2>1 DEF Leaving
    <3>2. 0 \notin Jvms
      BY DEF Jvms
    <3> QED BY <1>5, <3>1, <3>2
  <2>3. settling \subseteq Jvms
    BY <1>0, InRange DEF Shape
  <2>4. \A i \in settling : jvm'[i].closed /\ jvm'[i].state = "exited" /\ i \notin stopping
    BY <1>0, <1>4, <1>5, <2>3 DEF Leaving
  <2> QED BY <1>2, <2>1, <2>2, <2>4 DEF Leaving
<1>c7. OneRecorder'
  BY <1>0, <1>2, <1>4 DEF OneRecorder
<1>c8. Recorders'
  <2>1. ASSUME NEW i \in Jvms, jvm'[i].dumps
        PROVE  jvm[i].dumps /\ jvm'[i].key = jvm[i].key /\ jvm[i].key \in claimed
    BY <1>0, <1>4, <2>1 DEF Recorders
  <2>2. ASSUME NEW i \in Jvms, jvm'[i].dumps, command.once, jvm'[i].compilations > 0
        PROVE  i \notin pool /\ \A s \in Threads : mine'[s] = i => pc'[s] = "wait"
    <3>1. i \notin pool /\ \A s \in Threads : mine[s] = i => pc[s] = "wait"
      BY <1>0, <1>4, <2>1, <2>2 DEF Recorders
    <3>2. i # 0
      BY DEF Jvms
    <3> QED BY <1>5, <3>1, <3>2
  <2> QED BY <1>2, <2>1, <2>2 DEF Recorders
<1>c10. OwnAnswer'
  BY <1>6
<1>c9. Answers'
  BY <1>0, <1>2, <1>4, <1>5, <1>6, NothingNew DEF Pending
<1> QED BY <1>c1, <1>c2, <1>c3, <1>c4, <1>c5, <1>c6, <1>c7, <1>c8, <1>c9, <1>c10 DEF IInv


LEMMA DrainKeeps ==
  ASSUME IInv, NEW t \in Threads, Drain(t)
  PROVE  IInv'
<1>0. /\ Shape /\ Places /\ OneOwner /\ Owned /\ Unborn /\ Leaving
      /\ OneRecorder /\ Recorders /\ Answers /\ OwnAnswer
  BY DEF IInv
<1>1. PICK j : j = mine[t]
  OBVIOUS
<1>2. /\ pc[t] = "drain" /\ jvm[j].out # <<>> /\ pc' = [pc EXCEPT ![t] = "send"]
      /\ UNCHANGED <<command, jdk, started, faults, pool, stopping, claimed, archives,
                     settling, mine, old, got, main>>
  BY <1>1 DEF Drain, Matches, chosen, archiving
<1>7. jvm' = [jvm EXCEPT ![j].out = Tail(@), ![j].primed = 0]
  BY <1>1 DEF Drain
<1>3. /\ j \in Jvms /\ j # 0 /\ jvm[j] \in Jvm /\ jvm[j].out \in Seq(Message)
  BY <1>0, <1>1, <1>2, InRange DEF Places, Shape, Jvm
<1>4. Tail(jvm[j].out) \in Seq(Message) /\ Elements(Tail(jvm[j].out)) \subseteq Elements(jvm[j].out)
  BY <1>2, <1>3, Dropped
<1>5. /\ jvm' \in [Jvms -> Jvm] /\ \A i \in Jvms : i # j => jvm'[i] = jvm[i]
      /\ jvm'[j].state = jvm[j].state /\ jvm'[j].key = jvm[j].key
      /\ jvm'[j].dumps = jvm[j].dumps /\ jvm'[j].closed = jvm[j].closed
      /\ jvm'[j].compilations = jvm[j].compilations /\ jvm'[j].requests = jvm[j].requests
      /\ jvm'[j].in = jvm[j].in /\ jvm'[j].out = Tail(jvm[j].out)
  <2> DEFINE r == [jvm[j] EXCEPT !.out = Tail(@), !.primed = 0]
  <2>1. r \in Jvm
    BY <1>3, <1>4, 0 \in 0..1 DEF Jvm
  <2>2. /\ r.state = jvm[j].state /\ r.key = jvm[j].key /\ r.dumps = jvm[j].dumps
        /\ r.closed = jvm[j].closed /\ r.compilations = jvm[j].compilations
        /\ r.requests = jvm[j].requests /\ r.in = jvm[j].in /\ r.out = Tail(jvm[j].out)
    BY <1>3 DEF Jvm
  <2>3. jvm' = [jvm EXCEPT ![j] = r]
    BY <1>7
  <2> HIDE DEF r
  <2> QED BY <1>0, <1>3, <2>1, <2>2, <2>3 DEF Shape
<1>6. \A i \in Jvms : /\ jvm'[i].key = jvm[i].key /\ jvm'[i].dumps = jvm[i].dumps
                      /\ jvm'[i].compilations = jvm[i].compilations
                      /\ jvm'[i].closed = jvm[i].closed /\ jvm'[i].state = jvm[i].state
  BY <1>5
<1>c1. Shape'
  BY <1>0, <1>1, <1>2, <1>5, InRange DEF Shape, Steps
<1>c2. Places'
  BY <1>0, <1>1, <1>2, <1>5 DEF Places
<1>c3. OneOwner'
  <2>1. \A s \in Threads : mine[s] # 0 => jvm'[mine[s]].key = jvm[mine[s]].key
    BY <1>0, <1>6, InRange
  <2> QED BY <1>0, <1>2, <2>1 DEF OneOwner
<1>c6. Leaving'
  <2>1. settling \subseteq Jvms
    BY <1>0, InRange DEF Shape
  <2> QED BY <1>0, <1>2, <1>6, <2>1 DEF Leaving
<1>c8. Recorders'
  <2>1. ASSUME NEW i \in Jvms, jvm[i].dumps, command.once, jvm[i].compilations > 0
        PROVE  i \notin pool /\ \A s \in Threads : mine[s] = i => pc'[s] = "wait"
    <3>1. i # j /\ i \notin pool /\ \A s \in Threads : mine[s] = i => pc[s] = "wait"
      BY <1>0, <1>1, <1>2, <2>1 DEF Recorders
    <3>2. \A s \in Threads : s # t => pc'[s] = pc[s]
      BY <1>0, <1>2 DEF Shape
    <3> QED BY <1>1, <3>1, <3>2
  <2>2. mine' = mine /\ pool' = pool /\ claimed' = claimed /\ command' = command
    BY <1>2
  <2> QED BY <1>0, <1>6, <2>1, <2>2 DEF Recorders
<1>c4. Owned'
  BY <1>0, <1>2, <1>6, InRange DEF Owned, Alive, Shape, Jvms
<1>c5. Unborn'
  BY <1>0, <1>2, <1>6 DEF Unborn, Alive
<1>c7. OneRecorder'
  BY <1>0, <1>2, <1>6 DEF OneRecorder
<1>c10. OwnAnswer'
  BY <1>0, <1>2, <1>6 DEF OwnAnswer
<1>c9. Answers'
  BY <1>0, <1>2, <1>4, <1>5, NothingNew DEF Pending
<1> QED BY <1>c1, <1>c2, <1>c3, <1>c4, <1>c5, <1>c6, <1>c7, <1>c8, <1>c9, <1>c10 DEF IInv


LEMMA ReceiveKeeps ==
  ASSUME IInv, NEW t \in Threads, Receive(t)
  PROVE  IInv'
<1>0. /\ Shape /\ Places /\ OneOwner /\ Owned /\ Unborn /\ Leaving
      /\ OneRecorder /\ Recorders /\ Answers /\ OwnAnswer
  BY DEF IInv
<1>1. PICK j : j = mine[t]
  OBVIOUS
<1> DEFINE done == command.once /\ jvm[j].dumps
<1>2. /\ pc[t] = "wait" /\ jvm[j].out # <<>> /\ Head(jvm[j].out).id = jvm[j].requests
      /\ jvm' = [jvm EXCEPT ![j].out = Tail(@)]
      /\ got' = [got EXCEPT ![t] = Append(@, Head(jvm[j].out).of)]
      /\ \/ done /\ stopping' = stopping \cup {j} /\ pool' = pool
         \/ ~done /\ stopping' = stopping /\ pool' = pool \cup {j}
      /\ pc' = [pc EXCEPT ![t] = IF done THEN "replace" ELSE "ready"]
      /\ mine' = [mine EXCEPT ![t] = 0]
      /\ UNCHANGED <<command, jdk, started, faults, claimed, archives, settling, old,
                     main>>
  BY <1>1 DEF Receive, Matches, Expected, chosen, archiving
<1>3. /\ j \in Jvms /\ j # 0 /\ j \in 1..started /\ jvm[j] \in Jvm /\ jvm[j].out \in Seq(Message)
      /\ main = "compiling"
  BY <1>0, <1>1, <1>2, InRange DEF Places, Shape, Jvm
<1>4. /\ Tail(jvm[j].out) \in Seq(Message) /\ Elements(Tail(jvm[j].out)) \subseteq Elements(jvm[j].out)
      /\ Head(jvm[j].out) \in Pending(j)
  BY <1>2, <1>3, Dropped DEF Pending
<1>5. /\ jvm' \in [Jvms -> Jvm] /\ \A i \in Jvms : i # j => jvm'[i] = jvm[i]
      /\ jvm'[j].state = jvm[j].state /\ jvm'[j].key = jvm[j].key
      /\ jvm'[j].dumps = jvm[j].dumps /\ jvm'[j].closed = jvm[j].closed
      /\ jvm'[j].compilations = jvm[j].compilations /\ jvm'[j].requests = jvm[j].requests
      /\ jvm'[j].in = jvm[j].in /\ jvm'[j].out = Tail(jvm[j].out)
  <2> DEFINE r == [jvm[j] EXCEPT !.out = Tail(@)]
  <2>1. r \in Jvm
    BY <1>3, <1>4 DEF Jvm
  <2>2. /\ r.state = jvm[j].state /\ r.key = jvm[j].key /\ r.dumps = jvm[j].dumps
        /\ r.closed = jvm[j].closed /\ r.compilations = jvm[j].compilations
        /\ r.requests = jvm[j].requests /\ r.in = jvm[j].in /\ r.out = Tail(jvm[j].out)
    BY <1>3 DEF Jvm
  <2>3. jvm' = [jvm EXCEPT ![j] = r]
    BY <1>2
  <2> HIDE DEF r
  <2> QED BY <1>0, <1>3, <2>1, <2>2, <2>3 DEF Shape
<1>6. \A i \in Jvms : /\ jvm'[i].key = jvm[i].key /\ jvm'[i].dumps = jvm[i].dumps
                      /\ jvm'[i].compilations = jvm[i].compilations
                      /\ jvm'[i].closed = jvm[i].closed /\ jvm'[i].state = jvm[i].state
  BY <1>5
<1>7. Head(jvm[j].out).of = Compile(t)
  BY <1>0, <1>1, <1>2, <1>4 DEF Answers
<1>8. /\ got' \in [Threads -> Seq(Outcome)] /\ OwnAnswer'
      /\ \A s \in Threads : s # t => got'[s] = got[s]
  BY <1>0, <1>2, <1>7, Told
<1>9. /\ \A s \in Threads : s # t => pc'[s] = pc[s] /\ mine'[s] = mine[s] /\ mine[s] # j
      /\ pc' \in [Threads -> Steps] /\ pc'[t] \in {"ready", "replace"} /\ mine'[t] = 0
      /\ mine' \in [Threads -> 0..started] /\ ~jvm[j].closed /\ j \notin pool \cup stopping
  <2>1. j \notin pool \cup stopping /\ \A s \in Threads : s # t => mine[s] # j
    BY <1>0, <1>1, <1>3 DEF OneOwner
  <2>2. ~jvm[j].closed
    BY <1>0, <1>1, <1>3 DEF Leaving
  <2>3. /\ \A s \in Threads : s # t => pc'[s] = pc[s] /\ mine'[s] = mine[s]
        /\ pc' \in [Threads -> Steps] /\ pc'[t] \in {"ready", "replace"} /\ mine'[t] = 0
        /\ mine' \in [Threads -> 0..started]
    BY <1>0, <1>2, InRange DEF Shape, Steps
  <2> QED BY <2>1, <2>2, <2>3
<1>10. /\ pool' \subseteq pool \cup {j} /\ stopping' \subseteq stopping \cup {j}
       /\ pool \subseteq pool' /\ stopping \subseteq stopping' /\ j \in pool' \cup stopping'
       /\ pool' \cap stopping' = {} /\ (j \in pool' => ~(command.once /\ jvm[j].dumps))
  BY <1>0, <1>2, <1>9 DEF OneOwner
<1> HIDE DEF done
<1>c1. Shape'
  BY <1>0, <1>2, <1>3, <1>5, <1>8, <1>9, <1>10 DEF Shape
<1>c2. Places'
  BY <1>0, <1>2, <1>3, <1>9 DEF Places
<1>c3. OneOwner'
  <2>1. \A s \in Threads : mine[s] # 0 => jvm'[mine[s]].key = jvm[mine[s]].key
    BY <1>0, <1>6, InRange
  <2> QED BY <1>0, <1>2, <1>9, <1>10, <2>1 DEF OneOwner
<1>c4. Owned'
  BY <1>0, <1>1, <1>2, <1>6, <1>9, <1>10, InRange DEF Owned, Alive
<1>c5. Unborn'
  BY <1>0, <1>2, <1>6 DEF Unborn
<1>c6. Leaving'
  <2>1. settling \subseteq Jvms
    BY <1>0, InRange DEF Shape
  <2>2. \A i \in Jvms : jvm'[i].closed => /\ i # j /\ jvm'[i].compilations > 0
                                          /\ i \notin pool' /\ \A s \in Threads : mine'[s] # i
    BY <1>0, <1>6, <1>9, <1>10 DEF Leaving, Jvms
  <2>3. \A i \in settling : jvm'[i].closed /\ jvm'[i].state = "exited" /\ i \notin stopping'
    BY <1>0, <1>6, <1>9, <1>10, <2>1 DEF Leaving
  <2> QED BY <1>2, <2>2, <2>3 DEF Leaving
<1>c7. OneRecorder'
  BY <1>0, <1>2, <1>6 DEF OneRecorder
<1>c8. Recorders'
  <2>1. ASSUME NEW i \in Jvms, jvm'[i].dumps
        PROVE  jvm[i].dumps /\ jvm'[i].key = jvm[i].key /\ jvm[i].key \in claimed
    BY <1>0, <1>6, <2>1 DEF Recorders
  <2>2. ASSUME NEW i \in Jvms, jvm'[i].dumps, command.once, jvm'[i].compilations > 0
        PROVE  i \notin pool' /\ \A s \in Threads : mine'[s] = i => pc'[s] = "wait"
    <3>1. i \notin pool /\ \A s \in Threads : mine[s] = i => pc[s] = "wait"
      BY <1>0, <1>6, <2>1, <2>2 DEF Recorders
    <3>2. i # 0
      BY DEF Jvms
    <3> QED BY <1>9, <1>10, <2>1, <2>2, <3>1, <3>2
  <2>3. claimed' = claimed /\ command' = command
    BY <1>2
  <2> QED BY <2>1, <2>2, <2>3 DEF Recorders
<1>c10. OwnAnswer'
  BY <1>8
<1>c9. Answers'
  BY <1>0, <1>2, <1>4, <1>5, <1>8, <1>9, NothingNew DEF Pending
<1> QED BY <1>c1, <1>c2, <1>c3, <1>c4, <1>c5, <1>c6, <1>c7, <1>c8, <1>c9, <1>c10 DEF IInv


-----------------------------------------------------------------------------
(* The invariant.                                                          *)

LEMMA InitIInv == Init => IInv
<1> SUFFICES ASSUME Init PROVE IInv
  OBVIOUS
<1>1. PICK k \in Keys : k \in command.jdks
  BY DEF Init
<1>2. \A j \in Jvms : jvm[j] = NoJvm
  BY DEF Init
<1>3. NoJvm \in Jvm
  <2> DEFINE c == CHOOSE x \in Keys : TRUE
  <2>1. NoJvm = [state |-> "none", key |-> c, compilations |-> 0, requests |-> 0, primed |-> 0,
                 dumps |-> FALSE, closed |-> FALSE, hung |-> FALSE, in |-> <<>>, out |-> <<>>]
    BY Zenon DEF NoJvm
  <2>2. c \in Keys /\ <<>> \in Seq(Message) /\ "none" \in States
    BY <1>1 DEF States
  <2> HIDE DEF c
  <2> QED BY <2>1, <2>2 DEF Jvm
<1>4. /\ NoJvm.state = "none" /\ NoJvm.dumps = FALSE /\ NoJvm.closed = FALSE
      /\ NoJvm.in = <<>> /\ NoJvm.out = <<>>
  BY DEF NoJvm
<1>5. \A j \in Jvms : jvm[j].dumps = FALSE /\ jvm[j].closed = FALSE /\ jvm[j].state = "none"
  BY <1>2, <1>4
<1>c1. Shape
  <2>1. got \in [Threads -> Seq(Outcome)]
    BY DEF Init
  <2>2. command.jvms \in Nat
    BY DEF Init
  <2> QED BY <1>3, <2>1, <2>2 DEF Init, Shape, Steps
<1>c2. Places
  BY DEF Init, Places
<1>c3. OneOwner
  BY DEF Init, OneOwner
<1>c4. Owned
  BY DEF Init, Owned
<1>c5. Unborn
  BY <1>5 DEF Unborn
<1>c6. Leaving
  BY <1>5 DEF Init, Leaving
<1>c7. OneRecorder
  BY <1>5 DEF OneRecorder
<1>c8. Recorders
  BY <1>5 DEF Recorders
<1>c9. Answers
  <2>1. \A j \in Jvms : Pending(j) = {}
    BY <1>2, <1>4 DEF Pending, Elements
  <2> QED BY <2>1 DEF Init, Answers
<1>c10. OwnAnswer
  BY DEF Init, OwnAnswer
<1> QED BY <1>c1, <1>c2, <1>c3, <1>c4, <1>c5, <1>c6, <1>c7, <1>c8, <1>c9, <1>c10 DEF IInv

LEMMA PrestartKeeps ==
  ASSUME IInv, Prestart
  PROVE  IInv'
<1>0. /\ main = "prestart" /\ UNCHANGED <<chosen, stopping, archives, settling, callers>>
      /\ faults \in 0..MaxFaults
  BY DEF Prestart, IInv, Shape
<1>1. CASE /\ \E request \in {<<>>, <<[id |-> 1, of |-> Prime]>>} : Spawn(jdk[First], request)
           /\ pool' = pool \cup {started + 1} /\ UNCHANGED <<main, faults>>
  BY <1>0, <1>1, PrestartOneKeeps
<1>2. CASE main' = "compiling" /\ UNCHANGED <<started, jvm, pool, claimed, faults>>
  BY <1>0, <1>2, PrestartEndsKeeps
<1>3. CASE /\ faults < MaxFaults /\ faults' = faults + 1 /\ main' = "compiling"
           /\ UNCHANGED <<started, jvm, pool, claimed>>
  BY <1>0, <1>3, faults' \in 0..MaxFaults, PrestartEndsKeeps
<1> QED BY <1>1, <1>2, <1>3 DEF Prestart

LEMMA NextIInv == IInv /\ [Next]_vars => IInv'
<1> SUFFICES ASSUME IInv, [Next]_vars PROVE IInv'
  OBVIOUS
<1>1. CASE Prestart \/ Retire \/ Drop \/ Join
  BY <1>1, PrestartKeeps, RetireKeeps, DropKeeps, JoinKeeps
<1>2. ASSUME NEW t \in Threads, Caller(t) PROVE IInv'
  BY <1>2, TakeKeeps, StoppedKeeps, StartOneKeeps, StartFailsKeeps, SendRequestKeeps,
     DrainKeeps, ReceiveKeeps, ReplaceKeeps, ForkKeeps DEF Caller
<1>3. ASSUME NEW j \in Jvms, Answer(j) \/ Exit(j) \/ Fail(j) \/ Background(j) PROVE IInv'
  BY <1>3, AnswerKeeps, ExitKeeps, FailKeeps, KillKeeps, CloseKeeps, ReapKeeps, SettleKeeps
     DEF Background
<1>4. CASE UNCHANGED vars
  <2>1. UNCHANGED <<command, jdk, started, faults, jvm, pool, stopping, claimed, archives,
                    settling, pc, mine, old, got, main>>
    BY <1>4 DEF vars, chosen, processes, archiving, callers
  <2>2. Shape' /\ Places' /\ OneOwner' /\ Owned' /\ Unborn'
    BY <2>1 DEF IInv, Shape, Places, OneOwner, Owned, Unborn, Alive
  <2>3. Leaving' /\ OneRecorder' /\ Recorders' /\ OwnAnswer'
    BY <2>1 DEF IInv, Leaving, OneRecorder, Recorders, OwnAnswer
  <2>4. Answers'
    BY <2>1 DEF IInv, Answers, Pending, Compile
  <2> QED BY <2>2, <2>3, <2>4 DEF IInv
<1> QED BY <1>1, <1>2, <1>3, <1>4 DEF Next, Ended

\* The invariant holds as long as the command runs.
THEOREM SpecIInv == Spec => []IInv
BY InitIInv, NextIInv, PTL DEF Spec

\* Every variable keeps its type, and a thread holds a JVM where its compile
\* needs one, whatever the commands, the members and the bounds.
THEOREM SpecTypeOK == Spec => []TypeOK
<1>1. IInv => TypeOK
  <2> SUFFICES ASSUME Shape, Places PROVE TypeOK
    BY DEF IInv
  <2>1. command.jvms \in 1..MaxJvms /\ started \in Nat /\ 1..started \subseteq Jvms
        /\ 0..started \subseteq 0..MaxJvms
    BY InRange DEF Jvms
  <2>2. \A j \in Jvms :
       /\ jvm[j].state \in {"none", "alive", "died", "killed", "exited"}
       /\ jvm[j].key \in Keys /\ jvm[j].primed \in 0..1
       /\ jvm[j].compilations \in Nat /\ jvm[j].requests \in Nat
       /\ {jvm[j].dumps, jvm[j].closed, jvm[j].hung} \subseteq BOOLEAN
    BY DEF Shape, Jvm, States
  <2> QED BY <2>1, <2>2, InRange DEF Shape, Places, TypeOK, Steps
<1> QED BY <1>1, SpecIInv, PTL

\* No JVM serves two compiles, or one while it is stopped, or one of another
\* JDK: what Worker::serve takes from the pool and gives back (worker.rs).
THEOREM SpecOneOwner == Spec => []OneOwner
<1>1. IInv => OneOwner
  BY DEF IInv
<1> QED BY <1>1, SpecIInv, PTL

\* However JVMs die, hang and answer garbage, a compile gets what its own
\* request came to, or a forked compiler's output (read_answer, fallback).
THEOREM SpecOwnAnswer == Spec => []OwnAnswer
<1>1. IInv => OwnAnswer
  BY DEF IInv
<1> QED BY <1>1, SpecIInv, PTL

\* An archive has one recorder per command, and outside --watch it records
\* one compile alone (Share::for_worker, Worker::serve).
THEOREM SpecOneRecorder == Spec => []OneRecorder
<1>1. IInv => OneRecorder
  BY DEF IInv
<1> QED BY <1>1, SpecIInv, PTL

\* An archive is put in place only for a JVM that compiled and exited by
\* itself (Running::stop, Share::finish).
THEOREM SpecArchiveFromGoodExit == Spec => []ArchiveFromGoodExit
<1>1. IInv => ArchiveFromGoodExit
  <2> SUFFICES ASSUME Shape, Leaving, NEW j \in settling
               PROVE  jvm[j].state = "exited" /\ jvm[j].compilations > 0
    BY DEF IInv, ArchiveFromGoodExit
  <2>1. j \in Jvms
    BY InRange DEF Shape
  <2> QED BY <2>1 DEF Leaving
<1> QED BY <1>1, SpecIInv, PTL

\* When the command has ended no JVM of its runs and none is left to settle
\* (Drop for Worker, join_background).
THEOREM SpecNothingOutlives == Spec => []NothingOutlives
<1>1. IInv => NothingOutlives
  <2> SUFFICES ASSUME IInv, main = "ended" PROVE settling = {} /\ \A j \in Jvms : ~Alive(j)
    BY DEF NothingOutlives
  <2>1. /\ settling = {} /\ stopping = {} /\ pool = {} /\ \A t \in Threads : mine[t] = 0
    BY DEF IInv, Places
  <2>2. ASSUME NEW j \in Jvms PROVE ~Alive(j)
    <3>1. CASE j > started
      BY <3>1 DEF IInv, Unborn, Alive
    <3>2. CASE j \in 1..started
      BY <2>1, <3>2 DEF IInv, Owned, Jvms
    <3> QED BY <3>1, <3>2, InRange DEF IInv, Jvms
  <2> QED BY <2>1, <2>2
<1> QED BY <1>1, SpecIInv, PTL
=============================================================================
