---------------------------- MODULE MembersProofs ----------------------------
(***************************************************************************)
(* What Members keeps for every number of members and of jobs, every graph *)
(* and every course the members' work may take.  The inductive invariant   *)
(* is about who is where (Places), about the head and the gates behind it  *)
(* (Gates), and about the lines already said (Lines).                      *)
(*                                                                         *)
(* The second part is about how a command ends: nothing a member said is   *)
(* lost or repeated, the error reported is the first in build order, and   *)
(* only a failure leaves a member unbuilt.  To the invariant it adds what  *)
(* stands on the terminal (Displayed), what the last two loops have opened *)
(* and found (Opened, Collected), and why a member is still waiting        *)
(* (Exhausted).                                                            *)
(*                                                                         *)
(* The third part is the safety half of AsOneAfterTheOther: when every     *)
(* member's work ends well each step maps to a step of BuildLog or to a    *)
(* stutter.  The transcript is every member's lines in build order         *)
(* (TranscriptIs); the terminal's lines are in that order too and leave no *)
(* earlier one out (EarlierAreShown), so they are a beginning of it.  That *)
(* needs what a member has left to say (Said) and where the head rests     *)
(* (HeadRests).                                                            *)
(***************************************************************************)
EXTENDS Members, FiniteSetTheorems, WellFoundedInduction, TLAPS

USE NAssumption DEF NAssumption

\* Where the members are: a started one is running until its result is
\* received, its result waits in the channel once, and it is finished then.
Places ==
  /\ \A k \in waiting : thread[k] = "none"
  /\ \A k \in running : thread[k] # "none" /\ k \notin finished
  /\ \A k \in finished : thread[k] = "ended"
  /\ \A k \in Todo : thread[k] # "none" => k \in running \cup finished
  /\ \A i \in 1..Len(channel) : /\ channel[i] \in running
                                /\ thread[channel[i]] = "ended"
  /\ \A i, j \in 1..Len(channel) : channel[i] = channel[j] => i = j
  /\ pc \in {"hold", "setup", "flush", "results", "done"} => running = {}
  /\ pc \in {"hold", "setup"} => finished = {}

\* A started member's upstream members are received, and not failed.
Upstreams ==
  \A k \in Todo : thread[k] # "none" =>
    \A u \in upstream[k] : u \in finished /\ work[u].ending # "err"

Jobful == IsFiniteSet(running) /\ Cardinality(running) <= Jobs

\* Everything before the head is done, and everything behind it holds its
\* lines back until the loop is over; the flush opens gates in order.
Gates ==
  /\ \A k \in 1..(head - 1) : k \in finished
  /\ pc \in {"hold", "setup"} => head = 1
  /\ \A k \in Todo : k <= head => k \notin held
  /\ pc \in {"setup", "schedule", "receive", "advance"} =>
       \A k \in Todo : k > head => k \in held
  /\ pc = "flush" => \A k \in Todo : (k > head /\ k >= next) => k \in held
  /\ \A k \in Todo : thread[k] = "holding" => k \in held /\ k \in gateLock
  /\ \A k \in Todo : thread[k] = "writing" => k \notin held /\ k \in gateLock

AllBefore(s) == \A i, j \in 1..Len(s) : i < j => Before(s[i], s[j])

\* The lines a member said so far.
Saying(k) == [i \in 1..said[k] |-> <<k, i>>]

\* A closed gate keeps every line its member said, an open one none.
Buffers ==
  /\ \A k \in Todo : k \in held => /\ buffer[k] = Saying(k)
                                /\ \A i \in 1..Len(screen) : screen[i][1] # k
  /\ \A k \in Todo : k \notin held => buffer[k] = <<>>
  /\ \A i \in 1..Len(screen) : screen[i][2] \in 1..said[screen[i][1]]

\* Where the loops over the members begin.
Begin ==
  /\ pc = "hold" => next = 1 /\ held = {}
  /\ pc \in {"hold", "setup"} => \A k \in Todo : k >= next => said[k] = 0

\* Until the results are looked at every line on the terminal is in order.
Lines ==
  /\ pc \notin {"results", "done"} => AllBefore(screen)
  /\ RanInBuildOrder

IInv == /\ TypeOK /\ Places /\ Upstreams /\ Jobful
        /\ Gates /\ Begin /\ Buffers /\ Lines
-----------------------------------------------------------------------------
(* Type correctness.                                                       *)

LEMMA InitTypeOK == Init => TypeOK
<1> SUFFICES ASSUME Init PROVE TypeOK
  OBVIOUS
<1>1. work \in [Todo -> Works] /\ upstream \in Graphs
  BY DEF Init
<1>2. pc = "hold" /\ next = 1 /\ head = 1 /\ verdict = 0 /\ failed = FALSE
  BY DEF Init
<1>3. next \in 1..(N + 1) /\ head \in 1..(N + 1) /\ verdict \in 0..N
  BY <1>2
<1>4. /\ waiting \subseteq Todo /\ running \subseteq Todo
      /\ finished \subseteq Todo /\ gateLock \subseteq Todo
      /\ channel \in Seq(Todo)
  BY DEF Init
<1>5. /\ said \in [Todo -> Nat] /\ held \subseteq Todo
      /\ thread \in [Todo -> {"none", "working", "holding", "writing", "ended"}]
  BY DEF Init
<1>6. buffer \in [Todo -> Seq(Line)] /\ screen \in Seq(Line)
  BY DEF Init
<1> QED BY <1>1, <1>2, <1>3, <1>4, <1>5, <1>6 DEF TypeOK

\* What a member says is a natural number of lines.
LEMMA SaysNat ==
  ASSUME TypeOK, NEW k \in Todo
  PROVE  work[k].setup \in Nat /\ work[k].lines \in Nat /\ work[k].ending \in Endings
<1>1. work[k] \in Works
  BY DEF TypeOK
<1> QED BY <1>1, WorksAssumption DEF WorksAssumption

LEMMA ReleaseTypes ==
  ASSUME TypeOK, NEW k \in Todo, Release(k)
  PROVE  /\ held' \subseteq Todo
         /\ buffer' \in [Todo -> Seq(Line)]
         /\ screen' \in Seq(Line)
<1>1. /\ held \subseteq Todo /\ buffer \in [Todo -> Seq(Line)]
      /\ screen \in Seq(Line) /\ buffer[k] \in Seq(Line)
  BY DEF TypeOK
<1>2. CASE k \in held
  <2>1. /\ held' = held \ {k}
        /\ buffer' = [buffer EXCEPT ![k] = <<>>]
        /\ screen' = screen \o buffer[k]
    BY <1>2 DEF Release
  <2> QED BY <1>1, <2>1
<1>3. CASE k \notin held
  BY <1>1, <1>3 DEF Release, output
<1> QED BY <1>2, <1>3

LEMMA StepTypeOK == TypeOK /\ [Next]_vars => TypeOK'
<1> SUFFICES ASSUME TypeOK, [Next]_vars PROVE TypeOK'
  OBVIOUS
<1> USE DEF chosen, schedule, speech, output
<1>1. ASSUME NEW k \in Todo, TakeGate(k) PROVE TypeOK'
  BY <1>1 DEF TypeOK, TakeGate
<1>2. ASSUME NEW k \in Todo, WriteLine(k) PROVE TypeOK'
  <2>1. <<k, said[k] + 1>> \in Line
    BY DEF TypeOK, Line
  <2>2. /\ held \subseteq Todo /\ buffer \in [Todo -> Seq(Line)]
        /\ screen \in Seq(Line) /\ buffer[k] \in Seq(Line)
    BY DEF TypeOK
  <2>3. CASE thread[k] = "holding"
    <3>1. /\ buffer' = [buffer EXCEPT ![k] = Append(@, <<k, said[k] + 1>>)]
          /\ UNCHANGED <<held, screen>>
      BY <1>2, <2>3 DEF WriteLine
    <3>2. buffer' \in [Todo -> Seq(Line)]
      BY <2>1, <2>2, <3>1
    <3> QED BY <1>2, <2>2, <3>1, <3>2 DEF TypeOK, WriteLine
  <2>4. CASE thread[k] = "writing"
    <3>1. /\ screen' = Append(screen, <<k, said[k] + 1>>)
          /\ UNCHANGED <<held, buffer>>
      BY <1>2, <2>4 DEF WriteLine
    <3>2. screen' \in Seq(Line)
      BY <2>1, <2>2, <3>1
    <3> QED BY <1>2, <2>2, <3>1, <3>2 DEF TypeOK, WriteLine
  <2> QED BY <1>2, <2>3, <2>4 DEF WriteLine
<1>3. ASSUME NEW k \in Todo, Send(k) PROVE TypeOK'
  BY <1>3 DEF TypeOK, Send
<1>4. CASE Hold
  BY <1>4 DEF TypeOK, Hold
<1>5. CASE SetUp
  <2> DEFINE lines == [i \in 1..work[next].setup |-> <<next, i>>]
  <2>1. next \in Todo /\ next + 1 \in 1..(N + 1)
    BY <1>5 DEF TypeOK, SetUp, Todo
  <2>2. work[next].setup \in Nat
    BY <2>1, SaysNat
  <2>3. lines \in Seq(Line)
    BY <2>1, <2>2 DEF Line
  <2>4. said' \in [Todo -> Nat] /\ waiting' \subseteq Todo
    BY <1>5, <2>1, <2>2 DEF TypeOK, SetUp
  <2>5. /\ held \subseteq Todo /\ buffer \in [Todo -> Seq(Line)]
        /\ screen \in Seq(Line)
    BY DEF TypeOK
  <2>6. IF next \in held THEN /\ buffer' = [buffer EXCEPT ![next] = @ \o lines]
                           /\ UNCHANGED <<held, screen>>
                      ELSE /\ screen' = screen \o lines
                           /\ UNCHANGED <<held, buffer>>
    BY <1>5 DEF SetUp
  <2> HIDE DEF lines
  <2>7. /\ held' \subseteq Todo /\ buffer' \in [Todo -> Seq(Line)]
        /\ screen' \in Seq(Line)
    <3>1. CASE next \in held
      <4>1. buffer[next] \o lines \in Seq(Line)
        BY <2>1, <2>3, <2>5
      <4> QED BY <2>1, <2>5, <2>6, <3>1, <4>1
    <3>2. CASE next \notin held
      <4>1. screen \o lines \in Seq(Line)
        BY <2>3, <2>5
      <4> QED BY <2>5, <2>6, <3>2, <4>1
    <3> QED BY <3>1, <3>2
  <2>8. next' \in 1..(N + 1) /\ pc' \in {"setup", "schedule"}
    BY <1>5, <2>1 DEF SetUp
  <2> QED BY <1>5, <2>4, <2>7, <2>8 DEF TypeOK, SetUp
<1>6. CASE \E k \in Todo : Start(k)
  BY <1>6 DEF TypeOK, Start
<1>7. CASE Settle
  BY <1>7 DEF TypeOK, Settle
<1>8. CASE Receive
  BY <1>8 DEF TypeOK, Receive
<1>9. CASE Advance
  <2>1. CASE head \in finished
    <3>1. head \in Todo /\ head + 1 \in 1..(N + 1)
      BY <2>1 DEF TypeOK, Todo
    <3>2. ASSUME head < N PROVE head + 1 \in Todo /\ Release(head + 1)
      BY <1>9, <2>1, <3>1, <3>2 DEF Advance, Todo
    <3>3. /\ held' \subseteq Todo /\ buffer' \in [Todo -> Seq(Line)]
          /\ screen' \in Seq(Line)
      <4>1. CASE head < N
        BY <3>2, <4>1, ReleaseTypes
      <4>2. CASE ~(head < N)
        BY <1>9, <2>1, <4>2 DEF Advance, TypeOK
      <4> QED BY <4>1, <4>2
    <3> QED BY <1>9, <2>1, <3>1, <3>3 DEF TypeOK, Advance
  <2>2. CASE head \notin finished
    BY <1>9, <2>2 DEF TypeOK, Advance
  <2> QED BY <2>1, <2>2
<1>10. CASE Flush
  <2>1. /\ held' \subseteq Todo /\ buffer' \in [Todo -> Seq(Line)]
        /\ screen' \in Seq(Line)
    <3>1. CASE next \in finished
      <4>1. next \in Todo /\ Release(next)
        BY <1>10, <3>1 DEF TypeOK, Flush
      <4> QED BY <4>1, ReleaseTypes
    <3>2. CASE next \notin finished
      BY <1>10, <3>2 DEF Flush, TypeOK
    <3> QED BY <3>1, <3>2
  <2>2. next' \in 1..(N + 1) /\ pc' \in {"flush", "results"}
    BY <1>10 DEF TypeOK, Flush
  <2> QED BY <1>10, <2>1, <2>2 DEF TypeOK, Flush
<1>11. CASE Collect
  <2>1. next \in 1..(N + 1)
    BY DEF TypeOK
  <2>2. /\ next' \in 1..(N + 1) /\ pc' \in {"results", "done"}
    BY <1>11, <2>1 DEF Collect
  <2>3. CASE next \in finished
    <3>1. next \in 0..N
      BY <2>3 DEF TypeOK, Todo
    <3>2. verdict' \in 0..N
      BY <1>11, <2>3, <3>1 DEF Collect, TypeOK
    <3> QED BY <1>11, <2>2, <2>3, <3>2 DEF TypeOK, Collect
  <2>4. CASE next \notin finished
    <3>1. next \in Todo
      BY <1>11, <2>1 DEF Collect, Todo
    <3> QED BY <1>11, <2>2, <2>4, <3>1, ReleaseTypes DEF TypeOK, Collect
  <2> QED BY <2>3, <2>4
<1>12. CASE UNCHANGED vars
  BY <1>12 DEF TypeOK, vars
<1> QED BY <1>1, <1>2, <1>3, <1>4, <1>5, <1>6, <1>7, <1>8, <1>9, <1>10,
           <1>11, <1>12 DEF Next, Main, Member, Returned

\* Every reachable state is well typed.
THEOREM TypeCorrect == Spec => []TypeOK
BY InitTypeOK, StepTypeOK, PTL DEF Spec
-----------------------------------------------------------------------------
(* Who is where.                                                           *)

LEMMA StepPlaces == TypeOK /\ Places /\ [Next]_vars => Places'
<1> SUFFICES ASSUME TypeOK, Places, [Next]_vars PROVE Places'
  OBVIOUS
<1> USE DEF chosen, schedule, speech, output
<1>1. ASSUME NEW k \in Todo, TakeGate(k) PROVE Places'
  BY <1>1 DEF Places, TypeOK, TakeGate
<1>2. ASSUME NEW k \in Todo, WriteLine(k) PROVE Places'
  BY <1>2 DEF Places, TypeOK, WriteLine
<1>3. ASSUME NEW k \in Todo, Send(k) PROVE Places'
  <2>1. /\ thread[k] = "working" /\ thread' = [thread EXCEPT ![k] = "ended"]
        /\ channel' = Append(channel, k)
        /\ UNCHANGED <<waiting, running, finished, pc>>
    BY <1>3 DEF Send
  <2>2. /\ k \in running /\ k \notin finished
        /\ \A i \in 1..Len(channel) : channel[i] # k
    BY <2>1 DEF Places
  <2>3. /\ channel \in Seq(Todo) /\ Len(channel') = Len(channel) + 1
        /\ \A i \in 1..Len(channel) : channel'[i] = channel[i]
        /\ channel'[Len(channel) + 1] = k
    BY <2>1 DEF TypeOK
  <2>4. \A i \in 1..Len(channel') : /\ channel'[i] \in running'
                                   /\ thread'[channel'[i]] = "ended"
    BY <2>1, <2>2, <2>3 DEF Places, TypeOK
  <2>5. \A i, j \in 1..Len(channel') : channel'[i] = channel'[j] => i = j
    BY <2>2, <2>3 DEF Places
  <2> QED BY <2>1, <2>2, <2>4, <2>5 DEF Places, TypeOK
<1>4. CASE Hold
  BY <1>4 DEF Places, TypeOK, Hold
<1>5. CASE SetUp
  BY <1>5 DEF Places, TypeOK, SetUp, Todo
<1>6. ASSUME NEW k \in Todo, Start(k) PROVE Places'
  BY <1>6 DEF Places, TypeOK, Start, First, Ready
<1>7. CASE Settle
  BY <1>7 DEF Places, TypeOK, Settle
<1>8. CASE Receive
  <2>1. /\ Len(channel) \in Nat /\ Len(channel) > 0
        /\ Len(channel') = Len(channel) - 1 /\ Head(channel) = channel[1]
        /\ \A i \in 1..(Len(channel) - 1) : channel'[i] = channel[i + 1]
    BY <1>8 DEF Receive, TypeOK
  <2>2. /\ running' = running \ {channel[1]}
        /\ finished' = finished \cup {channel[1]}
        /\ UNCHANGED <<waiting, thread>> /\ pc' = "advance"
    BY <1>8, <2>1 DEF Receive
  <2>3. \A i \in 1..Len(channel') : /\ channel'[i] = channel[i + 1]
                                   /\ channel[i + 1] # channel[1]
                                   /\ i + 1 \in 1..Len(channel)
    BY <2>1 DEF Places
  <2>4. \A i \in 1..Len(channel') : /\ channel'[i] \in running'
                                   /\ thread'[channel'[i]] = "ended"
    BY <2>2, <2>3 DEF Places
  <2>5. \A i, j \in 1..Len(channel') : channel'[i] = channel'[j] => i = j
    BY <2>1, <2>3 DEF Places
  <2>6. channel[1] \in running /\ thread[channel[1]] = "ended"
    BY <2>1 DEF Places
  <2> QED BY <2>2, <2>4, <2>5, <2>6 DEF Places, TypeOK
<1>9. CASE Advance
  BY <1>9 DEF Places, TypeOK, Advance
<1>10. CASE Flush
  BY <1>10 DEF Places, TypeOK, Flush
<1>11. CASE Collect
  BY <1>11 DEF Places, TypeOK, Collect
<1>12. CASE UNCHANGED vars
  BY <1>12 DEF Places, vars
<1> QED BY <1>1, <1>2, <1>3, <1>4, <1>5, <1>6, <1>7, <1>8, <1>9, <1>10,
           <1>11, <1>12 DEF Next, Main, Member, Returned

LEMMA StepUpstreams ==
  TypeOK /\ Places /\ Upstreams /\ [Next]_vars => Upstreams'
<1> SUFFICES ASSUME TypeOK, Places, Upstreams, [Next]_vars PROVE Upstreams'
  OBVIOUS
<1> USE DEF chosen, schedule, speech, output
<1>1. ASSUME NEW k \in Todo, Member(k) PROVE Upstreams'
  BY <1>1 DEF Upstreams, TypeOK, Member, TakeGate, WriteLine, Send
<1>2. ASSUME NEW k \in Todo, Start(k) PROVE Upstreams'
  BY <1>2 DEF Upstreams, TypeOK, Start, First, Ready
<1>3. CASE Hold \/ SetUp \/ Settle \/ Advance \/ Flush \/ Collect \/ UNCHANGED vars
  BY <1>3 DEF Upstreams, Hold, SetUp, Settle, Advance, Flush, Collect, vars
<1>4. CASE Receive
  BY <1>4 DEF Upstreams, Receive
<1> QED BY <1>1, <1>2, <1>3, <1>4 DEF Next, Main, Returned

LEMMA StepJobful == TypeOK /\ Places /\ Jobful /\ [Next]_vars => Jobful'
<1> SUFFICES ASSUME TypeOK, Places, Jobful, [Next]_vars PROVE Jobful'
  OBVIOUS
<1> USE DEF chosen, schedule, speech, output
<1>1. ASSUME NEW k \in Todo, Member(k) PROVE Jobful'
  BY <1>1 DEF Jobful, Member, TakeGate, WriteLine, Send
<1>2. ASSUME NEW k \in Todo, Start(k) PROVE Jobful'
  <2>1. Cardinality(running) < Jobs /\ running' = running \cup {k}
    BY <1>2 DEF Start, CanStart
  <2>2. k \notin running
    BY <1>2 DEF Places, Start, First, Ready
  <2>3. IsFiniteSet(running) /\ Cardinality(running) \in Nat
    BY FS_CardinalityType DEF Jobful
  <2>4. IsFiniteSet(running \cup {k}) /\ Cardinality(running \cup {k}) = Cardinality(running) + 1
    BY <2>2, <2>3, FS_AddElement
  <2> QED BY <2>1, <2>3, <2>4, JobsAssumption DEF Jobful, JobsAssumption
<1>3. CASE Hold \/ SetUp \/ Settle \/ Advance \/ Flush \/ Collect \/ UNCHANGED vars
  BY <1>3 DEF Jobful, Hold, SetUp, Settle, Advance, Flush, Collect, vars
<1>4. CASE Receive
  <2>1. running' = running \ {Head(channel)}
    BY <1>4 DEF Receive
  <2>2. IsFiniteSet(running) /\ Cardinality(running) \in Nat
    BY FS_CardinalityType DEF Jobful
  <2>3. /\ IsFiniteSet(running \ {Head(channel)})
        /\ Cardinality(running \ {Head(channel)}) \in {Cardinality(running), Cardinality(running) - 1}
    BY <2>2, FS_RemoveElement
  <2> QED BY <2>1, <2>2, <2>3, JobsAssumption DEF Jobful, JobsAssumption
<1> QED BY <1>1, <1>2, <1>3, <1>4 DEF Next, Main, Returned
-----------------------------------------------------------------------------
(* The head and the gates behind it.                                       *)

\* A gate is only opened with its lock, so nobody is in the middle of a line.
LEMMA ReleaseOpens ==
  ASSUME TypeOK, NEW k \in Todo, Release(k)
  PROVE  /\ k \notin gateLock /\ k \notin held'
         /\ held' = held \ {k}
BY DEF TypeOK, Release, output

LEMMA HoldGates ==
  ASSUME TypeOK, Places, head = 1, Hold
  PROVE  Gates'
<1>1. /\ head' = 1 /\ pc' = "setup"
      /\ thread' = thread /\ finished' = finished /\ held' = Todo \ {1}
  BY DEF Hold, schedule, speech, output
<1>2. \A k \in Todo : thread'[k] = "none"
  BY <1>1 DEF Hold, Places
<1>3. \A k \in Todo : (k > head' <=> k \in held') /\ (k <= head' <=> k \notin held')
  BY <1>1 DEF Todo
<1> QED BY <1>1, <1>2, <1>3 DEF Gates

LEMMA StepGates == TypeOK /\ Places /\ Gates /\ Begin /\ [Next]_vars => Gates'
<1> SUFFICES ASSUME TypeOK, Places, Gates, Begin, [Next]_vars PROVE Gates'
  OBVIOUS
<1> USE DEF chosen, schedule, speech, output
<1>1. ASSUME NEW k \in Todo, TakeGate(k) PROVE Gates'
  BY <1>1 DEF Gates, TypeOK, TakeGate
<1>2. ASSUME NEW k \in Todo, WriteLine(k) PROVE Gates'
  BY <1>2 DEF Gates, TypeOK, WriteLine
<1>3. ASSUME NEW k \in Todo, Send(k) PROVE Gates'
  BY <1>3 DEF Gates, TypeOK, Send
<1>4. CASE Hold
  <2>1. head = 1
    BY <1>4 DEF Hold, Gates
  <2> QED BY <1>4, <2>1, HoldGates
<1>5. CASE SetUp
  BY <1>5 DEF Gates, TypeOK, SetUp
<1>6. ASSUME NEW k \in Todo, Start(k) PROVE Gates'
  BY <1>6 DEF Gates, TypeOK, Start
<1>7. CASE Settle
  BY <1>7 DEF Gates, TypeOK, Settle
<1>8. CASE Receive
  BY <1>8 DEF Gates, TypeOK, Receive
<1>9. CASE Advance
  <2>1. CASE head \in finished
    <3>1. head \in Todo /\ head' = head + 1 /\ UNCHANGED <<thread, gateLock, finished, pc>>
      BY <1>9, <2>1 DEF Advance, TypeOK
    <3>2. CASE head < N
      <4>1. head + 1 \in Todo /\ Release(head + 1)
        BY <1>9, <2>1, <3>1, <3>2 DEF Advance, Todo
      <4>2. /\ head + 1 \notin held' /\ head + 1 \notin gateLock
            /\ held' = held \ {head + 1}
        BY <4>1, ReleaseOpens
      <4> QED BY <1>9, <3>1, <4>1, <4>2 DEF Gates, Todo, Advance
    <3>3. CASE ~(head < N)
      <4>1. UNCHANGED held /\ head = N
        BY <1>9, <2>1, <3>1, <3>3 DEF Advance, Todo
      <4> QED BY <1>9, <3>1, <4>1 DEF Gates, Todo, Advance
    <3> QED BY <3>2, <3>3
  <2>2. CASE head \notin finished
    BY <1>9, <2>2 DEF Gates, TypeOK, Advance
  <2> QED BY <2>1, <2>2
<1>10. CASE Flush
  <2>1. \A k \in Todo : thread[k] \in {"none", "ended"}
    BY <1>10 DEF Flush, Places
  <2>2. next \in Nat /\ UNCHANGED <<thread, head, finished, gateLock>> /\ pc' \in {"flush", "results"}
        /\ (pc' = "flush" => next' = next + 1)
    BY <1>10 DEF Flush, TypeOK
  <2>3. held' \subseteq held /\ held \ {next} \subseteq held'
    <3>1. CASE next \in finished
      <4>1. next \in Todo /\ Release(next)
        BY <1>10, <3>1 DEF Flush, TypeOK
      <4> QED BY <4>1, ReleaseOpens
    <3>2. CASE next \notin finished
      BY <1>10, <3>2 DEF Flush
    <3> QED BY <3>1, <3>2
  <2>4. /\ \A k \in Todo : (k > head /\ k >= next) => k \in held
        /\ \A k \in Todo : k <= head => k \notin held
    BY <1>10 DEF Gates, Flush
  <2>5. head \in Nat /\ \A k \in Todo : k \in Nat
    BY DEF TypeOK, Todo
  <2>6. pc' = "flush" => \A k \in Todo : (k > head' /\ k >= next') => k \in held'
    BY <2>2, <2>3, <2>4, <2>5
  <2>7. \A k \in Todo : k <= head' => k \notin held'
    BY <2>2, <2>3, <2>4
  <2> QED BY <2>1, <2>2, <2>6, <2>7 DEF Gates
<1>11. CASE Collect
  <2>1. \A k \in Todo : thread[k] \in {"none", "ended"}
    BY <1>11 DEF Collect, Places
  <2>2. UNCHANGED <<thread, head, finished, gateLock>> /\ pc' \in {"results", "done"}
    BY <1>11 DEF Collect
  <2>3. \A k \in Todo : k \in held' => k \in held
    <3>1. CASE next \in finished
      BY <1>11, <3>1 DEF Collect
    <3>2. CASE next \notin finished
      <4>1. next \in Todo /\ Release(next)
        BY <1>11, <3>2 DEF Collect, TypeOK, Todo
      <4> QED BY <4>1, ReleaseOpens
    <3> QED BY <3>1, <3>2
  <2> QED BY <2>1, <2>2, <2>3 DEF Gates
<1>12. CASE UNCHANGED vars
  BY <1>12 DEF Gates, vars
<1> QED BY <1>1, <1>2, <1>3, <1>4, <1>5, <1>6, <1>7, <1>8, <1>9, <1>10,
           <1>11, <1>12 DEF Next, Main, Member, Returned
-----------------------------------------------------------------------------
(* The lines.                                                              *)

LEMMA StepBegin == TypeOK /\ Places /\ Begin /\ [Next]_vars => Begin'
<1> SUFFICES ASSUME TypeOK, Places, Begin, [Next]_vars PROVE Begin'
  OBVIOUS
<1> USE DEF chosen, schedule, speech, output
<1>1. ASSUME NEW k \in Todo, Member(k) PROVE Begin'
  <2>1. pc' = pc /\ thread[k] # "none"
    BY <1>1 DEF Member, TakeGate, WriteLine, Send
  <2>2. pc \notin {"hold", "setup"}
    BY <2>1 DEF Places
  <2> QED BY <2>1, <2>2 DEF Begin
<1>2. CASE Hold
  BY <1>2 DEF Begin, Hold
<1>3. CASE SetUp
  BY <1>3 DEF Begin, TypeOK, SetUp, Todo
<1>4. CASE (\E k \in Todo : Start(k)) \/ Settle \/ Receive \/ Advance \/ Flush \/ Collect
  BY <1>4 DEF Begin, Start, Settle, Receive, Advance, Flush, Collect
<1>5. CASE UNCHANGED vars
  BY <1>5 DEF Begin, vars
<1> QED BY <1>1, <1>2, <1>3, <1>4, <1>5 DEF Next, Main, Returned

\* Replaying what a closed gate held moves its member's lines to the screen.
LEMMA ReleaseMoves ==
  ASSUME TypeOK, Buffers, NEW k \in Todo, Release(k)
  PROVE  \/ UNCHANGED output
         \/ /\ k \in held /\ buffer[k] = Saying(k) /\ Saying(k) \in Seq(Line)
            /\ held' = held \ {k}
            /\ buffer' = [buffer EXCEPT ![k] = <<>>]
            /\ screen' = screen \o Saying(k)
<1>1. CASE k \in held
  <2>1. buffer[k] = Saying(k) /\ buffer[k] \in Seq(Line)
    BY <1>1 DEF Buffers, TypeOK
  <2> QED BY <1>1, <2>1 DEF Release
<1>2. CASE k \notin held
  BY <1>2 DEF Release
<1> QED BY <1>1, <1>2

LEMMA SayingIs ==
  ASSUME TypeOK, NEW k \in Todo
  PROVE  /\ Saying(k) \in Seq(Line) /\ Len(Saying(k)) = said[k] /\ said[k] \in Nat
         /\ \A i \in 1..said[k] : Saying(k)[i] = <<k, i>>
<1>1. said[k] \in Nat
  BY DEF TypeOK
<1>2. \A i \in 1..said[k] : <<k, i>> \in Line
  BY <1>1 DEF Line
<1> QED BY <1>1, <1>2 DEF Saying

LEMMA ReleaseBuffers ==
  ASSUME TypeOK, Buffers, NEW k \in Todo, Release(k), UNCHANGED said
  PROVE  Buffers'
<1>1. CASE UNCHANGED output
  BY <1>1 DEF Buffers, output, Saying
<1>2. CASE /\ k \in held /\ held' = held \ {k}
           /\ buffer' = [buffer EXCEPT ![k] = <<>>]
           /\ screen' = screen \o Saying(k)
  <2>1. /\ held \subseteq Todo /\ buffer \in [Todo -> Seq(Line)]
        /\ screen \in Seq(Line)
    BY DEF TypeOK
  <2>2. /\ Len(screen') = Len(screen) + said[k]
        /\ \A i \in 1..Len(screen) : screen'[i] = screen[i]
        /\ \A i \in 1..Len(screen') : i \notin 1..Len(screen) =>
              /\ screen'[i] = <<k, i - Len(screen)>>
              /\ i - Len(screen) \in 1..said[k]
    <3> DEFINE t == Saying(k)
    <3>1. /\ t \in Seq(Line) /\ Len(t) = said[k] /\ said[k] \in Nat
          /\ \A i \in 1..said[k] : t[i] = <<k, i>>
      BY SayingIs
    <3> HIDE DEF t
    <3>2. /\ Len(screen) \in Nat /\ Len(screen') = Len(screen) + Len(t)
          /\ \A i \in 1..(Len(screen) + Len(t)) :
               screen'[i] = IF i <= Len(screen) THEN screen[i] ELSE t[i - Len(screen)]
      <4>1. screen' = screen \o t
        BY <1>2 DEF t
      <4> QED BY <2>1, <3>1, <4>1
    <3>3. Len(screen') = Len(screen) + said[k]
      BY <3>1, <3>2
    <3>4. \A i \in 1..Len(screen) : screen'[i] = screen[i]
      BY <3>1, <3>2
    <3>5. ASSUME NEW i \in 1..Len(screen'), i \notin 1..Len(screen)
          PROVE  /\ screen'[i] = <<k, i - Len(screen)>>
                 /\ i - Len(screen) \in 1..said[k]
      <4>1. i - Len(screen) \in 1..said[k] /\ i \in 1..(Len(screen) + Len(t)) /\ ~(i <= Len(screen))
        BY <3>1, <3>2, <3>5
      <4> QED BY <3>1, <3>2, <4>1
    <3> QED BY <3>3, <3>4, <3>5
  <2>3. \A j \in Todo : j \in held' => j # k /\ j \in held /\ buffer'[j] = buffer[j]
    BY <1>2, <2>1
  <2>4. \A j \in Todo : j \in held' => /\ buffer'[j] = Saying(j)'
                                    /\ \A i \in 1..Len(screen') : screen'[i][1] # j
    BY <2>2, <2>3 DEF Buffers, Saying
  <2>5. \A j \in Todo : j \notin held' => buffer'[j] = <<>>
    BY <1>2, <2>1 DEF Buffers
  <2>6. \A i \in 1..Len(screen') : screen'[i][2] \in 1..said'[screen'[i][1]]
    BY <2>2 DEF Buffers
  <2> QED BY <2>4, <2>5, <2>6 DEF Buffers
<1> QED BY <1>1, <1>2, ReleaseMoves

LEMMA SameBuffers ==
  ASSUME Buffers, UNCHANGED <<held, buffer, screen, said>>
  PROVE  Buffers'
BY DEF Buffers, Saying

\* Sequences of lines: their concatenation, and a member's first n.
LEMMA Concat ==
  ASSUME NEW s \in Seq(Line), NEW t \in Seq(Line)
  PROVE  /\ Len(s) \in Nat /\ Len(t) \in Nat
         /\ s \o t \in Seq(Line) /\ Len(s \o t) = Len(s) + Len(t)
         /\ \A i \in 1..(Len(s) + Len(t)) :
              (s \o t)[i] = IF i <= Len(s) THEN s[i] ELSE t[i - Len(s)]
OBVIOUS

LEMMA FirstLines ==
  ASSUME NEW k \in Todo, NEW n \in Nat
  PROVE  /\ [i \in 1..n |-> <<k, i>>] \in Seq(Line)
         /\ Len([i \in 1..n |-> <<k, i>>]) = n
         /\ \A i \in 1..n : [m \in 1..n |-> <<k, m>>][i] = <<k, i>>
<1>1. \A i \in 1..n : <<k, i>> \in Line
  BY DEF Line
<1> DEFINE f == [i \in 1..n |-> <<k, i>>]
<1>2. f \in Seq(Line)
  BY <1>1
<1>3. Len(f) = n
  OBVIOUS
<1> QED BY <1>2, <1>3

\* One more line is said.
LEMMA SayMore ==
  ASSUME NEW k \in Todo, NEW n \in Nat
  PROVE  Append([i \in 1..n |-> <<k, i>>], <<k, n + 1>>) = [i \in 1..(n + 1) |-> <<k, i>>]
OBVIOUS

\* Before a member's session is set up it has said nothing.
LEMMA NothingSaid ==
  ASSUME TypeOK, Buffers, NEW k \in Todo, said[k] = 0
  PROVE  Saying(k) = <<>> /\ \A i \in 1..Len(screen) : screen[i][1] # k
<1>1. Saying(k) = <<>>
  BY DEF Saying
<1>2. \A i \in 1..Len(screen) : screen[i][1] # k
  BY DEF Buffers
<1> QED BY <1>1, <1>2

LEMMA WriteBuffers ==
  ASSUME TypeOK, Gates, Buffers, NEW k \in Todo, WriteLine(k)
  PROVE  Buffers'
<1> DEFINE line == <<k, said[k] + 1>>
<1>1. /\ held' = held /\ said' = [said EXCEPT ![k] = @ + 1]
      /\ said \in [Todo -> Nat] /\ held \subseteq Todo
      /\ buffer \in [Todo -> Seq(Line)] /\ screen \in Seq(Line)
  BY DEF WriteLine, TypeOK
<1>2. said'[k] = said[k] + 1 /\ \A j \in Todo \ {k} : said'[j] = said[j]
  BY <1>1
<1>3. \A j \in Todo \ {k} : Saying(j)' = Saying(j)
  BY <1>2 DEF Saying
<1>4. CASE thread[k] = "holding"
  <2>1. /\ k \in held /\ screen' = screen
        /\ buffer' = [buffer EXCEPT ![k] = Append(@, line)]
    BY <1>4 DEF Gates, WriteLine
  <2>2. buffer[k] = Saying(k)
    BY <2>1 DEF Buffers
  <2>3. Append(Saying(k), line) = Saying(k)'
    BY <1>1, <1>2, SayMore DEF Saying
  <2>4. buffer'[k] = Saying(k)' /\ \A j \in Todo \ {k} : buffer'[j] = buffer[j]
    BY <1>1, <2>1, <2>2, <2>3
  <2>5. \A i \in 1..Len(screen') : screen'[i][2] \in 1..said'[screen'[i][1]]
    <3>1. \A i \in 1..Len(screen) : screen[i][1] # k /\ screen[i][1] \in Todo
      BY <1>1, <2>1 DEF Buffers, Line
    <3> QED BY <1>2, <2>1, <3>1 DEF Buffers
  <2> QED BY <1>1, <1>3, <2>1, <2>4, <2>5 DEF Buffers
<1>5. CASE thread[k] = "writing"
  <2>1. /\ k \notin held /\ buffer' = buffer /\ screen' = Append(screen, line)
    BY <1>5 DEF Gates, WriteLine
  <2>2. /\ Len(screen') = Len(screen) + 1 /\ screen'[Len(screen) + 1] = line
        /\ Len(screen) \in Nat
        /\ \A i \in 1..Len(screen) : screen'[i] = screen[i] /\ screen[i] \in Line
    BY <1>1, <2>1
  <2>3. \A j \in held : /\ buffer'[j] = Saying(j)'
                        /\ \A i \in 1..Len(screen') : screen'[i][1] # j
    BY <1>1, <1>3, <2>1, <2>2 DEF Buffers
  <2>4. \A i \in 1..Len(screen') : screen'[i][2] \in 1..said'[screen'[i][1]]
    <3>1. ASSUME NEW i \in 1..Len(screen) PROVE screen[i][2] \in 1..said'[screen[i][1]]
      <4>1. screen[i][2] \in 1..said[screen[i][1]] /\ screen[i][1] \in Todo
        BY <2>2 DEF Buffers, Line
      <4> QED BY <1>1, <1>2, <4>1
    <3>2. line[2] \in 1..said'[line[1]]
      BY <1>1, <1>2
    <3> HIDE DEF line
    <3> QED BY <2>2, <3>1, <3>2
  <2> QED BY <1>1, <2>1, <2>3, <2>4 DEF Buffers
<1> QED BY <1>4, <1>5 DEF WriteLine

LEMMA SetUpBuffers ==
  ASSUME TypeOK, Begin, Buffers, SetUp, NEW k \in Todo, k = next
  PROVE  Buffers'
<1> DEFINE lines == [i \in 1..work[k].setup |-> <<k, i>>]
<1>1. k \in Todo /\ said[k] = 0
  BY DEF SetUp, TypeOK, Begin, Todo
<1>2. /\ said' = [said EXCEPT ![k] = work[k].setup] /\ work[k].setup \in Nat
      /\ said \in [Todo -> Nat] /\ held \subseteq Todo
      /\ buffer \in [Todo -> Seq(Line)] /\ screen \in Seq(Line)
  BY <1>1, SaysNat DEF SetUp, TypeOK
<1>3. said'[k] = work[k].setup /\ \A j \in Todo \ {k} : said'[j] = said[j]
  BY <1>1, <1>2
<1>4. Saying(k)' = lines /\ \A j \in Todo \ {k} : Saying(j)' = Saying(j)
  BY <1>3 DEF Saying, SetUp
<1>5. Saying(k) = <<>> /\ \A i \in 1..Len(screen) : screen[i][1] # k
  BY <1>1, NothingSaid
<1>6. lines \in Seq(Line) /\ Len(lines) = work[k].setup
      /\ \A i \in 1..work[k].setup : lines[i] = <<k, i>>
  BY <1>2, FirstLines
<1>7. /\ held' = held
      /\ k \in held => buffer' = [buffer EXCEPT ![k] = @ \o lines] /\ screen' = screen
      /\ k \notin held => screen' = screen \o lines /\ buffer' = buffer
  BY DEF SetUp
<1>8. \A i \in 1..Len(screen) : /\ screen[i][1] \in Todo \ {k}
                               /\ screen[i][2] \in 1..said'[screen[i][1]]
  BY <1>2, <1>3, <1>5 DEF Buffers, Line
<1> HIDE DEF lines
<1>9. CASE k \in held
  <2>1. buffer'[k] = lines /\ \A j \in Todo \ {k} : buffer'[j] = buffer[j]
    <3>1. buffer[k] = <<>>
      BY <1>1, <1>5, <1>9 DEF Buffers
    <3> QED BY <1>1, <1>2, <1>6, <1>7, <1>9, <3>1
  <2> QED BY <1>4, <1>5, <1>7, <1>8, <1>9, <2>1 DEF Buffers
<1>10. CASE k \notin held
  <2>1. screen' = screen \o lines /\ buffer' = buffer
    BY <1>7, <1>10
  <2>2. /\ Len(screen) \in Nat /\ Len(screen') = Len(screen) + Len(lines)
        /\ \A i \in 1..(Len(screen) + Len(lines)) :
             screen'[i] = IF i <= Len(screen) THEN screen[i] ELSE lines[i - Len(screen)]
    <3>1. screen \in Seq(Line) /\ lines \in Seq(Line)
      BY <1>2, <1>6
    <3> QED BY <2>1, <3>1, Concat
  <2>3. ASSUME NEW i \in 1..Len(screen')
        PROVE  /\ screen'[i][2] \in 1..said'[screen'[i][1]]
               /\ screen'[i][1] \in held => \E m \in 1..Len(screen) : screen'[i] = screen[m]
    <3>1. CASE i <= Len(screen)
      BY <1>8, <2>2, <3>1
    <3>2. CASE ~(i <= Len(screen))
      <4>1. i - Len(screen) \in 1..work[k].setup
        BY <1>2, <1>6, <2>2, <3>2
      <4>2. screen'[i] = <<k, i - Len(screen)>>
        BY <1>6, <2>2, <3>2, <4>1
      <4> QED BY <1>3, <1>10, <4>1, <4>2
    <3> QED BY <3>1, <3>2
  <2>4. \A j \in held : /\ buffer'[j] = Saying(j)'
                        /\ \A i \in 1..Len(screen') : screen'[i][1] # j
    <3>1. \A j \in held : buffer'[j] = Saying(j)'
      BY <1>2, <1>4, <1>10, <2>1 DEF Buffers
    <3>2. \A j \in held : \A i \in 1..Len(screen') : screen'[i][1] # j
      BY <1>2, <2>3 DEF Buffers
    <3> QED BY <3>1, <3>2
  <2> QED BY <1>7, <2>1, <2>3, <2>4 DEF Buffers
<1> QED BY <1>9, <1>10

LEMMA StepBuffers ==
  TypeOK /\ Gates /\ Begin /\ Buffers /\ [Next]_vars => Buffers'
<1> SUFFICES ASSUME TypeOK, Gates, Begin, Buffers, [Next]_vars PROVE Buffers'
  OBVIOUS
<1> USE DEF chosen, schedule, speech, output
<1>1. ASSUME NEW k \in Todo, TakeGate(k) \/ Send(k) PROVE Buffers'
  BY <1>1, SameBuffers DEF TakeGate, Send
<1>2. ASSUME NEW k \in Todo, WriteLine(k) PROVE Buffers'
  BY <1>2, WriteBuffers
<1>3. CASE Hold
  <2>1. \A k \in Todo : said[k] = 0 /\ k \notin held /\ next = 1
    BY <1>3 DEF Hold, Begin, Todo
  <2>2. \A k \in Todo : buffer[k] = Saying(k) /\ \A i \in 1..Len(screen) : screen[i][1] # k
    BY <2>1, NothingSaid DEF Buffers
  <2>3. UNCHANGED <<buffer, screen, said>>
    BY <1>3 DEF Hold
  <2> QED BY <2>1, <2>2, <2>3 DEF Buffers, Saying
<1>4. CASE SetUp
  <2>1. next \in Todo
    BY <1>4 DEF SetUp, TypeOK, Todo
  <2> QED BY <1>4, <2>1, SetUpBuffers
<1>5. CASE (\E k \in Todo : Start(k)) \/ Settle \/ Receive \/ UNCHANGED vars
  BY <1>5, SameBuffers DEF Start, Settle, Receive, vars
<1>6. CASE Advance
  <2>1. UNCHANGED said
    BY <1>6 DEF Advance
  <2>2. CASE head \in finished /\ head < N
    <3>1. head + 1 \in Todo /\ Release(head + 1)
      BY <1>6, <2>2 DEF Advance, TypeOK, Todo
    <3> QED BY <2>1, <3>1, ReleaseBuffers
  <2>3. CASE ~(head \in finished /\ head < N)
    BY <1>6, <2>1, <2>3, SameBuffers DEF Advance
  <2> QED BY <2>2, <2>3
<1>7. CASE Flush
  <2>1. UNCHANGED said
    BY <1>7 DEF Flush
  <2>2. CASE next \in finished
    BY <1>7, <2>1, <2>2, ReleaseBuffers DEF Flush, TypeOK
  <2>3. CASE next \notin finished
    BY <1>7, <2>1, <2>3, SameBuffers DEF Flush
  <2> QED BY <2>2, <2>3
<1>8. CASE Collect
  <2>1. UNCHANGED said
    BY <1>8 DEF Collect
  <2>2. CASE next \in finished
    BY <1>8, <2>1, <2>2, SameBuffers DEF Collect
  <2>3. CASE next \notin finished
    <3>1. next \in Todo /\ Release(next)
      BY <1>8, <2>3 DEF Collect, TypeOK, Todo
    <3> QED BY <2>1, <3>1, ReleaseBuffers
  <2> QED BY <2>2, <2>3
<1> QED BY <1>1, <1>2, <1>3, <1>4, <1>5, <1>6, <1>7, <1>8
        DEF Next, Main, Member, Returned
-----------------------------------------------------------------------------
(* The order of the lines.                                                 *)

\* A block put after lines that all stand before it keeps the order.
LEMMA ConcatOrder ==
  ASSUME NEW s \in Seq(Line), NEW t \in Seq(Line), AllBefore(s), AllBefore(t),
         \A i \in 1..Len(s), j \in 1..Len(t) : Before(s[i], t[j])
  PROVE  AllBefore(s \o t)
<1> DEFINE u == s \o t
<1>1. /\ Len(s) \in Nat /\ Len(t) \in Nat /\ Len(u) = Len(s) + Len(t)
      /\ \A i \in 1..(Len(s) + Len(t)) :
           u[i] = IF i <= Len(s) THEN s[i] ELSE t[i - Len(s)]
  BY Concat
<1> HIDE DEF u
<1> SUFFICES ASSUME NEW i \in 1..Len(u), NEW j \in 1..Len(u), i < j
             PROVE  Before(u[i], u[j])
  BY DEF AllBefore, u
<1>2. CASE j <= Len(s)
  BY <1>1, <1>2 DEF AllBefore
<1>3. CASE i <= Len(s) /\ ~(j <= Len(s))
  <2>1. i \in 1..Len(s) /\ j - Len(s) \in 1..Len(t)
    BY <1>1, <1>3
  <2> QED BY <1>1, <1>3, <2>1
<1>4. CASE ~(i <= Len(s))
  <2>1. /\ i - Len(s) \in 1..Len(t) /\ j - Len(s) \in 1..Len(t)
        /\ i - Len(s) < j - Len(s) /\ ~(j <= Len(s))
    BY <1>1, <1>4
  <2> QED BY <1>1, <1>4, <2>1 DEF AllBefore
<1> QED BY <1>1, <1>2, <1>3, <1>4

\* A member's first n lines are in order, and after every earlier member's.
LEMMA BlockOrder ==
  ASSUME NEW k \in Todo, NEW n \in Nat, NEW s \in Seq(Line), AllBefore(s),
         \A i \in 1..Len(s) : s[i][1] < k
  PROVE  AllBefore(s \o [i \in 1..n |-> <<k, i>>])
<1> DEFINE t == [i \in 1..n |-> <<k, i>>]
<1>1. t \in Seq(Line) /\ Len(t) = n /\ \A i \in 1..n : t[i] = <<k, i>>
  BY FirstLines
<1> HIDE DEF t
<1>2. AllBefore(t)
  BY <1>1 DEF AllBefore, Before
<1>3. \A i \in 1..Len(s), j \in 1..Len(t) : Before(s[i], t[j])
  BY <1>1 DEF Before
<1> QED BY <1>1, <1>2, <1>3, ConcatOrder DEF t

\* While gates close what is behind the head, every line on the terminal is
\* the head's or an earlier member's.
LEMMA BehindTheHead ==
  ASSUME TypeOK, Gates, Buffers, NEW b \in Nat,
         \A k \in Todo : k > b => k \in held,
         NEW i \in 1..Len(screen)
  PROVE  screen[i][1] \in Todo /\ screen[i][1] <= b
<1>1. screen[i] \in Line
  BY DEF TypeOK
<1>2. screen[i][1] \in Todo /\ screen[i][1] \notin held
  BY <1>1 DEF Line, Buffers
<1> QED BY <1>2 DEF Todo

\* Opening the gate of member k keeps the order when the gates behind it
\* are closed.
LEMMA ReleaseOrder ==
  ASSUME TypeOK, Gates, Buffers, AllBefore(screen), NEW k \in Todo, Release(k),
         \A j \in Todo : j > k => j \in held
  PROVE  AllBefore(screen')
<1>1. CASE UNCHANGED output
  BY <1>1 DEF output
<1>2. CASE k \in held /\ screen' = screen \o Saying(k)
  <2>1. \A i \in 1..Len(screen) : screen[i][1] < k
    <3>1. SUFFICES ASSUME NEW i \in 1..Len(screen) PROVE screen[i][1] < k
      OBVIOUS
    <3>2. screen[i][1] \in Todo /\ screen[i][1] <= k
      <4>1. k \in Nat
        BY DEF Todo
      <4> QED BY <4>1, BehindTheHead
    <3>3. screen[i][1] # k
      BY <1>2 DEF Buffers
    <3> QED BY <3>2, <3>3 DEF Todo
  <2>2. said[k] \in Nat /\ screen \in Seq(Line)
    BY DEF TypeOK
  <2> QED BY <1>2, <2>1, <2>2, BlockOrder DEF Saying
<1> QED BY <1>1, <1>2, ReleaseMoves

LEMMA OrderEnough == TypeOK /\ AllBefore(screen) => RanInBuildOrder
BY DEF AllBefore, RanInBuildOrder

LEMMA WriteOrder ==
  ASSUME TypeOK, Places, Gates, Buffers, AllBefore(screen),
         NEW k \in Todo, WriteLine(k)
  PROVE  AllBefore(screen')
<1>1. CASE thread[k] = "holding"
  BY <1>1 DEF WriteLine
<1>2. CASE thread[k] = "writing"
  <2> DEFINE line == <<k, said[k] + 1>>
  <2>1. k \in running /\ k \notin finished /\ k \notin held
    BY <1>2 DEF Places, Gates
  <2>2. pc \in {"schedule", "receive", "advance"}
    BY <2>1 DEF Places, TypeOK
  <2>3. head \in Nat /\ \A j \in Todo : j > head => j \in held
    BY <2>2 DEF Gates, TypeOK
  <2>4. k = head
    <3>1. k \in Nat /\ k > 0
      BY DEF Todo
    <3>2. ~(k > head)
      BY <2>1, <2>3
    <3>3. ~(k < head)
      BY <2>1, <2>3, <3>1 DEF Gates
    <3> QED BY <2>3, <3>1, <3>2, <3>3
  <2>5. \A i \in 1..Len(screen) : Before(screen[i], line)
    <3> SUFFICES ASSUME NEW i \in 1..Len(screen) PROVE Before(screen[i], line)
      OBVIOUS
    <3>1. screen[i][1] \in Todo /\ screen[i][1] <= k
      BY <2>3, <2>4, BehindTheHead
    <3>2. screen[i][2] \in 1..said[screen[i][1]] /\ said[screen[i][1]] \in Nat
      BY <3>1 DEF Buffers, TypeOK
    <3>3. CASE screen[i][1] = k
      BY <3>2, <3>3 DEF Before
    <3>4. CASE screen[i][1] # k
      BY <3>1, <3>4 DEF Before, Todo
    <3> QED BY <3>3, <3>4
  <2>6. screen \in Seq(Line) /\ line \in Line /\ screen' = Append(screen, line)
    BY <1>2 DEF TypeOK, Line, WriteLine
  <2> HIDE DEF line
  <2>7. /\ Len(screen) \in Nat /\ Len(screen') = Len(screen) + 1
        /\ screen'[Len(screen) + 1] = line
        /\ \A i \in 1..Len(screen) : screen'[i] = screen[i]
    BY <2>6
  <2> QED BY <2>5, <2>7 DEF AllBefore
<1> QED BY <1>1, <1>2 DEF WriteLine

LEMMA SetUpOrder ==
  ASSUME TypeOK, Gates, Begin, Buffers, AllBefore(screen), SetUp
  PROVE  AllBefore(screen')
<1>1. /\ next \in Todo /\ said[next] = 0 /\ work[next].setup \in Nat
      /\ screen \in Seq(Line) /\ head = 1 /\ \A j \in Todo : j > head => j \in held
  BY SaysNat DEF SetUp, TypeOK, Begin, Gates, Todo
<1>2. CASE next \in held
  BY <1>2 DEF SetUp
<1>3. CASE next \notin held
  <2>1. \A i \in 1..Len(screen) : screen[i][1] < next
    <3> SUFFICES ASSUME NEW i \in 1..Len(screen) PROVE screen[i][1] < next
      OBVIOUS
    <3>1. screen[i][1] \in Todo /\ screen[i][1] <= 1
      BY <1>1, BehindTheHead
    <3>2. next = 1
      BY <1>1, <1>3 DEF Todo
    <3>3. screen[i][1] # next
      BY <1>1, NothingSaid
    <3> QED BY <3>1, <3>2, <3>3 DEF Todo
  <2>2. screen' = screen \o [i \in 1..work[next].setup |-> <<next, i>>]
    BY <1>3 DEF SetUp
  <2> QED BY <1>1, <2>1, <2>2, BlockOrder
<1> QED BY <1>2, <1>3

\* After the loop only members that never started are still to be released.
LEMMA CollectOrder ==
  ASSUME TypeOK, Places, Buffers, RanInBuildOrder, Collect
  PROVE  RanInBuildOrder'
<1>1. /\ UNCHANGED thread /\ \A k \in Todo : k \notin finished => thread[k] = "none"
  BY DEF Collect, speech, Places
<1>2. CASE UNCHANGED output
  BY <1>1, <1>2 DEF RanInBuildOrder, Started, output
<1>3. CASE ~UNCHANGED output
  <2>1. next \in Todo /\ next \notin finished /\ Release(next)
    BY <1>3 DEF Collect, TypeOK, Todo
  <2>2. screen' = screen \o Saying(next) /\ screen \in Seq(Line)
    BY <1>3, <2>1, ReleaseMoves DEF TypeOK
  <2>3. \A i \in 1..Len(screen') : thread[screen'[i][1]] # "none" =>
          i \in 1..Len(screen) /\ screen'[i] = screen[i]
    <3> DEFINE t == Saying(next)
    <3>1. /\ t \in Seq(Line) /\ Len(t) = said[next] /\ said[next] \in Nat
          /\ \A i \in 1..said[next] : t[i] = <<next, i>>
      BY <2>1, SayingIs
    <3> HIDE DEF t
    <3>2. /\ Len(screen) \in Nat /\ Len(screen') = Len(screen) + Len(t)
          /\ \A i \in 1..(Len(screen) + Len(t)) :
               screen'[i] = IF i <= Len(screen) THEN screen[i] ELSE t[i - Len(screen)]
      <4>1. screen' = screen \o t
        BY <2>2 DEF t
      <4>2. screen \in Seq(Line) /\ t \in Seq(Line)
        BY <2>2, <3>1
      <4>3. /\ Len(screen \o t) = Len(screen) + Len(t) /\ Len(screen) \in Nat
            /\ \A i \in 1..(Len(screen) + Len(t)) :
                 (screen \o t)[i] = IF i <= Len(screen) THEN screen[i] ELSE t[i - Len(screen)]
        BY <4>2, Concat
      <4> QED BY <4>1, <4>3
    <3> SUFFICES ASSUME NEW i \in 1..Len(screen'), ~(i <= Len(screen))
                 PROVE  thread[screen'[i][1]] = "none"
      BY <3>1, <3>2
    <3>3. i - Len(screen) \in 1..said[next] /\ screen'[i] = t[i - Len(screen)]
      BY <3>1, <3>2
    <3>4. screen'[i][1] = next
      BY <3>1, <3>3
    <3> QED BY <1>1, <2>1, <3>4
  <2> QED BY <1>1, <2>3 DEF RanInBuildOrder, Started
<1> QED BY <1>2, <1>3

LEMMA StepLines == IInv /\ TypeOK' /\ [Next]_vars => Lines'
<1> SUFFICES ASSUME IInv, TypeOK', [Next]_vars PROVE Lines'
  OBVIOUS
<1>0. TypeOK /\ Places /\ Gates /\ Begin /\ Buffers /\ Lines
  BY DEF IInv
<1> USE DEF chosen, schedule, speech, output
<1>1. CASE pc \notin {"results", "done"} /\ AllBefore(screen')
  <2>1. RanInBuildOrder'
    BY <1>1 DEF AllBefore, RanInBuildOrder
  <2> QED BY <1>1, <2>1 DEF Lines
<1>2. CASE pc \in {"results", "done"}
  <2>1. \A k \in Todo : ~Member(k)
    BY <1>0, <1>2 DEF Places, Member, TakeGate, WriteLine, Send
  <2>2. Collect \/ UNCHANGED vars
    BY <1>2, <2>1 DEF Next, Main, Returned, Hold, SetUp, Start, Settle, Receive, Advance, Flush
  <2>3. pc' \in {"results", "done"}
    BY <1>2, <2>2 DEF Collect, vars
  <2>4. CASE Collect
    BY <1>0, <2>3, <2>4, CollectOrder DEF Lines
  <2>5. CASE UNCHANGED vars
    BY <1>0, <2>3, <2>5 DEF Lines, RanInBuildOrder, Started, vars
  <2> QED BY <2>2, <2>4, <2>5
<1>3. CASE pc \notin {"results", "done"}
  <2>1. AllBefore(screen)
    BY <1>0, <1>3 DEF Lines
  <2>2. SUFFICES AllBefore(screen')
    BY <1>1, <1>3
  <2>3. ASSUME NEW k \in Todo, WriteLine(k) PROVE AllBefore(screen')
    BY <1>0, <2>1, <2>3, WriteOrder
  <2>4. CASE SetUp
    BY <1>0, <2>1, <2>4, SetUpOrder
  <2>5. CASE Advance
    <3>1. CASE head \in finished /\ head < N
      <4>1. /\ head + 1 \in Todo /\ Release(head + 1)
            /\ \A j \in Todo : j > head + 1 => j \in held
        BY <1>0, <2>5, <3>1 DEF Advance, Gates, TypeOK, Todo
      <4> QED BY <1>0, <2>1, <4>1, ReleaseOrder
    <3>2. CASE ~(head \in finished /\ head < N)
      BY <2>1, <2>5, <3>2 DEF Advance
    <3> QED BY <3>1, <3>2
  <2>6. CASE Flush
    <3>1. CASE next \in finished
      <4>1. next \in Todo /\ Release(next)
        BY <1>0, <2>6, <3>1 DEF Flush, TypeOK
      <4>2. CASE next \in held
        <5>1. next > head /\ head \in Nat
          BY <1>0, <4>1, <4>2 DEF Gates, TypeOK, Todo
        <5>2. \A j \in Todo : j > next => j \in held
          BY <1>0, <2>6, <4>1, <5>1 DEF Gates, Flush, Todo
        <5> QED BY <1>0, <2>1, <4>1, <5>2, ReleaseOrder
      <4>3. CASE next \notin held
        BY <2>1, <4>1, <4>3 DEF Release
      <4> QED BY <4>2, <4>3
    <3>2. CASE next \notin finished
      BY <2>1, <2>6, <3>2 DEF Flush
    <3> QED BY <3>1, <3>2
  <2>7. ASSUME UNCHANGED screen PROVE AllBefore(screen')
    BY <2>1, <2>7
  <2> QED BY <1>3, <2>3, <2>4, <2>5, <2>6, <2>7
          DEF Next, Main, Member, Returned, TakeGate, Send, Hold, Start, Settle,
              Receive, Collect, vars
<1> QED BY <1>2, <1>3

-----------------------------------------------------------------------------
(* The theorems.                                                           *)

LEMMA InitIInv == Init => IInv
<1> SUFFICES ASSUME Init PROVE IInv
  OBVIOUS
<1>1. TypeOK
  BY InitTypeOK
<1>2. /\ waiting = {} /\ running = {} /\ finished = {} /\ channel = <<>>
      /\ head = 1 /\ next = 1 /\ pc = "hold" /\ held = {} /\ screen = <<>>
      /\ \A k \in Todo : thread[k] = "none" /\ said[k] = 0 /\ buffer[k] = <<>>
  BY DEF Init
<1>3. Places /\ Upstreams /\ Gates
  BY <1>2 DEF Places, Upstreams, Gates
<1>4. Jobful
  BY <1>2, FS_EmptySet, JobsAssumption DEF Jobful, JobsAssumption
<1>5. Begin /\ Buffers /\ Lines
  BY <1>2 DEF Begin, Buffers, Lines, AllBefore, RanInBuildOrder
<1> QED BY <1>1, <1>3, <1>4, <1>5 DEF IInv

LEMMA StepIInv == IInv /\ [Next]_vars => IInv'
<1> SUFFICES ASSUME IInv, [Next]_vars PROVE IInv'
  OBVIOUS
<1>1. TypeOK'
  BY StepTypeOK DEF IInv
<1>2. Places' /\ Upstreams' /\ Jobful'
  BY StepPlaces, StepUpstreams, StepJobful DEF IInv
<1>3. Gates' /\ Begin' /\ Buffers'
  BY StepGates, StepBegin, StepBuffers DEF IInv
<1>4. Lines'
  BY <1>1, StepLines
<1> QED BY <1>1, <1>2, <1>3, <1>4 DEF IInv

\* The invariant everything below follows from.
THEOREM Invariance == Spec => []IInv
BY InitIInv, StepIInv, PTL DEF Spec

\* A member's thread starts only when every member it depends on is built.
THEOREM UpstreamsFirst == Spec => []UpstreamFirst
<1>1. IInv => UpstreamFirst
  BY GraphsAssumption
     DEF IInv, TypeOK, Places, Upstreams, UpstreamFirst, Started, GraphsAssumption
<1> QED BY <1>1, Invariance, PTL

\* At most Jobs members' threads are at work, however many there are.
THEOREM JobsBound == Spec => []AtMostJobs
<1>1. IInv => AtMostJobs
  <2> SUFFICES ASSUME IInv PROVE AtMostJobs
    OBVIOUS
  <2> DEFINE atWork == {k \in Todo : AtWork(k)}
  <2>1. atWork \subseteq running
    BY DEF IInv, Places, AtWork
  <2>2. IsFiniteSet(running) /\ Cardinality(running) <= Jobs
    BY DEF IInv, Jobful
  <2>3. Cardinality(atWork) <= Cardinality(running) /\ IsFiniteSet(atWork)
    BY <2>1, <2>2, FS_Subset
  <2>4. Cardinality(atWork) \in Nat /\ Cardinality(running) \in Nat
    BY <2>2, <2>3, FS_CardinalityType
  <2> QED BY <2>2, <2>3, <2>4, JobsAssumption DEF AtMostJobs, JobsAssumption
<1> QED BY <1>1, Invariance, PTL

\* One member at most writes to the terminal at any moment.
THEOREM OneVoiceAtATime == Spec => []OneVoice
<1>1. IInv => OneVoice
  <2> SUFFICES ASSUME IInv,
                      NEW j \in Todo, AtWork(j), j \notin held,
                      NEW k \in Todo, AtWork(k), k \notin held
               PROVE  j = k
    BY DEF OneVoice
  <2>1. j \notin finished /\ k \notin finished /\ running # {}
    BY DEF IInv, Places, AtWork
  <2>2. pc \in {"schedule", "receive", "advance"} /\ head \in Nat
    BY <2>1 DEF IInv, TypeOK, Places
  <2>3. \A m \in Todo : m > head => m \in held
    BY <2>2 DEF IInv, Gates
  <2>4. \A m \in 1..(head - 1) : m \in finished
    BY DEF IInv, Gates
  <2> QED BY <2>1, <2>2, <2>3, <2>4 DEF Todo
<1> QED BY <1>1, Invariance, PTL

\* The lines of the members that ran stand in build order, whatever the
\* graph, the number of jobs and the members' outcomes.
THEOREM LinesInOrder == Spec => []RanInBuildOrder
<1>1. IInv => RanInBuildOrder
  BY DEF IInv, Lines
<1> QED BY <1>1, Invariance, PTL

\* After a failure is received no member starts.
THEOREM FailureStops == Spec => NoStartAfterFailure
<1>1. TypeOK /\ [Next]_vars => [failed => \A k \in Todo : thread[k] = "none" => thread'[k] = "none"]_vars
  <2> SUFFICES ASSUME TypeOK, [Next]_vars, failed, NEW k \in Todo, thread[k] = "none"
               PROVE  thread'[k] = "none"
    OBVIOUS
  <2>1. ASSUME NEW j \in Todo, Member(j) PROVE thread'[k] = "none"
    BY <2>1 DEF TypeOK, Member, TakeGate, WriteLine, Send
  <2>2. \A j \in Todo : ~Start(j)
    BY DEF Start, CanStart
  <2>3. CASE thread' = thread
    BY <2>3
  <2> QED BY <2>1, <2>2, <2>3
          DEF Next, Main, Returned, Hold, SetUp, Settle, Receive, Advance,
              Flush, Collect, vars, speech
<1>2. Spec => []TypeOK
  BY TypeCorrect
<1> QED BY <1>1, <1>2, PTL DEF Spec, NoStartAfterFailure

-----------------------------------------------------------------------------
(* How a command ends.                                                     *)

\* Lines stand once on the terminal, and an open gate keeps none back.
Displayed ==
  /\ \A i, j \in 1..Len(screen) : screen[i] = screen[j] => i = j
  /\ \A k \in Todo : k \notin held =>
       \A n \in 1..said[k] : \E i \in 1..Len(screen) : screen[i] = <<k, n>>

\* What the flush and then the results have opened.
Opened ==
  /\ pc = "flush" => \A k \in finished : k < next => k \notin held
  /\ pc \in {"results", "done"} => \A k \in finished : k \notin held
  /\ pc = "results" => \A k \in Todo : k < next => k \notin held
  /\ pc = "done" => held = {}

\* v is the first failed member up to b, or 0 if there is none.
FirstFailed(v, b) ==
  /\ v # 0 => v \in finished /\ v <= b /\ work[v].ending = "err"
  /\ \A k \in finished : k <= b /\ work[k].ending = "err" => v # 0 /\ v <= k

Collected ==
  /\ pc \notin {"results", "done"} => verdict = 0
  /\ pc = "results" => FirstFailed(verdict, next - 1)
  /\ pc = "done" => FirstFailed(verdict, N)

\* No member is forgotten, and one is left waiting only for a failure.
Exhausted ==
  /\ pc \in {"hold", "setup"} => \A k \in Todo : k < next => k \in waiting
  /\ pc \notin {"hold", "setup"} => Todo = waiting \cup running \cup finished
  /\ failed => \E k \in finished : work[k].ending # "ok"
  /\ pc \in {"flush", "results", "done"} =>
       waiting = {} \/ \E k \in Todo : work[k].ending # "ok"

EndInv == Displayed /\ Opened /\ Collected /\ Exhausted

\* A block of lines of a member that had none on the terminal.
LEMMA BlockDisplayed ==
  ASSUME TypeOK, Buffers, Displayed, NEW k \in Todo, NEW m \in Nat,
         \A i \in 1..Len(screen) : screen[i][1] # k,
         screen' = screen \o [i \in 1..m |-> <<k, i>>],
         held' \subseteq held, held \ {k} \subseteq held', said' \in [Todo -> Nat],
         said'[k] = m, \A j \in Todo \ {k} : said'[j] = said[j]
  PROVE  Displayed'
<1> DEFINE t == [i \in 1..m |-> <<k, i>>]
<1>1. t \in Seq(Line) /\ Len(t) = m /\ \A i \in 1..m : t[i] = <<k, i>>
  BY FirstLines
<1>2. screen \in Seq(Line) /\ screen' = screen \o t
  BY DEF TypeOK
<1> HIDE DEF t
<1>3. /\ Len(screen) \in Nat /\ Len(screen') = Len(screen) + m
      /\ \A i \in 1..(Len(screen) + m) :
           screen'[i] = IF i <= Len(screen) THEN screen[i] ELSE t[i - Len(screen)]
  BY <1>1, <1>2, Concat
<1>4. \A i \in 1..Len(screen) : i \in 1..Len(screen') /\ screen'[i] = screen[i] /\ screen'[i][1] # k
  BY <1>3
<1>5. \A i \in 1..Len(screen') : ~(i <= Len(screen)) =>
        /\ i - Len(screen) \in 1..m
        /\ screen'[i] = <<k, i - Len(screen)>> /\ screen'[i][1] = k
  BY <1>1, <1>3
<1>6. ASSUME NEW i \in 1..Len(screen'), NEW j \in 1..Len(screen'), screen'[i] = screen'[j]
      PROVE  i = j
  <2>1. CASE i <= Len(screen)
    <3>1. i \in 1..Len(screen) /\ screen'[j][1] # k
      BY <1>3, <1>4, <1>6, <2>1
    <3>2. j \in 1..Len(screen)
      BY <1>3, <1>5, <3>1
    <3> QED BY <1>4, <1>6, <3>1, <3>2 DEF Displayed
  <2>2. CASE ~(i <= Len(screen))
    <3>1. screen'[j][1] = k /\ screen'[i] = <<k, i - Len(screen)>>
      BY <1>5, <1>6, <2>2
    <3>2. ~(j <= Len(screen))
      BY <1>3, <1>4, <3>1
    <3>3. <<k, i - Len(screen)>> = <<k, j - Len(screen)>>
      BY <1>5, <1>6, <3>1, <3>2
    <3>4. i - Len(screen) = j - Len(screen)
      BY <3>3
    <3> QED BY <1>3, <3>4
  <2> QED BY <2>1, <2>2
<1>7. ASSUME NEW j \in Todo, j \notin held', NEW n \in 1..said'[j]
      PROVE  \E i \in 1..Len(screen') : screen'[i] = <<j, n>>
  <2>1. CASE j = k
    <3>1. n \in 1..m
      BY <1>7, <2>1
    <3>2. /\ Len(screen) + n \in 1..Len(screen')
          /\ ~(Len(screen) + n <= Len(screen)) /\ (Len(screen) + n) - Len(screen) = n
      BY <1>3, <3>1
    <3>3. screen'[Len(screen) + n] = <<k, n>>
      BY <1>5, <3>2
    <3> QED BY <2>1, <3>2, <3>3
  <2>2. CASE j # k
    <3>1. j \notin held /\ n \in 1..said[j]
      BY <1>7, <2>2
    <3>2. PICK i \in 1..Len(screen) : screen[i] = <<j, n>>
      BY <3>1 DEF Displayed
    <3> QED BY <1>4, <3>2
  <2> QED BY <2>1, <2>2
<1> QED BY <1>6, <1>7 DEF Displayed

LEMMA SameDisplayed ==
  ASSUME Displayed, UNCHANGED <<screen, said>>, held \subseteq held'
  PROVE  Displayed'
BY DEF Displayed

LEMMA ReleaseDisplayed ==
  ASSUME TypeOK, Buffers, Displayed, NEW k \in Todo, Release(k), UNCHANGED said
  PROVE  Displayed'
<1>1. CASE UNCHANGED output
  BY <1>1, SameDisplayed DEF output
<1>2. CASE /\ k \in held /\ held' = held \ {k} /\ screen' = screen \o Saying(k)
  <2>1. /\ \A i \in 1..Len(screen) : screen[i][1] # k
        /\ said \in [Todo -> Nat] /\ said[k] \in Nat
    BY <1>2 DEF Buffers, TypeOK
  <2> QED BY <1>2, <2>1, BlockDisplayed DEF Saying
<1> QED BY <1>1, <1>2, ReleaseMoves

LEMMA WriteDisplayed ==
  ASSUME TypeOK, Gates, Buffers, Displayed, NEW k \in Todo, WriteLine(k)
  PROVE  Displayed'
<1> DEFINE line == <<k, said[k] + 1>>
<1>1. /\ held' = held /\ said' = [said EXCEPT ![k] = @ + 1]
      /\ said \in [Todo -> Nat] /\ screen \in Seq(Line)
  BY DEF WriteLine, TypeOK
<1>2. said'[k] = said[k] + 1 /\ \A j \in Todo \ {k} : said'[j] = said[j]
  BY <1>1
<1>3. CASE thread[k] = "holding"
  <2>1. k \in held /\ screen' = screen
    BY <1>3 DEF Gates, WriteLine
  <2>2. \A j \in Todo : j \notin held' => said'[j] = said[j]
    BY <1>1, <1>2, <2>1
  <2> QED BY <1>1, <2>1, <2>2 DEF Displayed
<1>4. CASE thread[k] = "writing"
  <2>1. screen' = Append(screen, line)
    BY <1>4 DEF Gates, WriteLine
  <2>2. /\ Len(screen) \in Nat /\ Len(screen') = Len(screen) + 1
        /\ screen'[Len(screen) + 1] = line
        /\ \A i \in 1..Len(screen) : screen'[i] = screen[i]
    BY <1>1, <2>1
  <2>3. \A i \in 1..Len(screen) : screen[i] # line
    <3> SUFFICES ASSUME NEW i \in 1..Len(screen), screen[i] = line PROVE FALSE
      OBVIOUS
    <3>1. screen[i][1] = k /\ screen[i][2] = said[k] + 1
      OBVIOUS
    <3>2. screen[i][2] \in 1..said[k]
      BY <3>1 DEF Buffers
    <3> QED BY <1>1, <3>1, <3>2
  <2> HIDE DEF line
  <2>4. \A i, j \in 1..Len(screen') : screen'[i] = screen'[j] => i = j
    BY <2>2, <2>3 DEF Displayed
  <2>5. ASSUME NEW j \in Todo, j \notin held', NEW n \in 1..said'[j]
        PROVE  \E i \in 1..Len(screen') : screen'[i] = <<j, n>>
    <3>1. CASE j = k /\ n = said[k] + 1
      <4>1. line = <<j, n>>
        BY <3>1 DEF line
      <4> QED BY <2>2, <4>1
    <3>2. CASE ~(j = k /\ n = said[k] + 1)
      <4>1. n \in 1..said[j]
        BY <1>1, <1>2, <3>2
      <4>2. PICK i \in 1..Len(screen) : screen[i] = <<j, n>>
        BY <1>1, <2>5, <4>1 DEF Displayed
      <4> QED BY <2>2, <4>2
    <3> QED BY <3>1, <3>2
  <2> QED BY <2>4, <2>5 DEF Displayed
<1> QED BY <1>3, <1>4 DEF WriteLine

LEMMA SetUpDisplayed ==
  ASSUME TypeOK, Begin, Buffers, Displayed, SetUp
  PROVE  Displayed'
<1>1. /\ next \in Todo /\ said[next] = 0 /\ work[next].setup \in Nat
      /\ said \in [Todo -> Nat]
  <2>1. next \in Todo /\ pc = "setup" /\ said \in [Todo -> Nat]
    BY DEF SetUp, TypeOK, Todo
  <2>2. next >= next
    BY <2>1 DEF Todo
  <2> QED BY <2>1, <2>2, SaysNat DEF Begin
<1>2. \A i \in 1..Len(screen) : screen[i][1] # next
  BY <1>1, NothingSaid
<1>3. said' = [said EXCEPT ![next] = work[next].setup] /\ held' = held
  BY DEF SetUp
<1>4. /\ said'[next] = work[next].setup /\ said' \in [Todo -> Nat]
      /\ \A j \in Todo \ {next} : said'[j] = said[j]
  BY <1>1, <1>3
<1>5. CASE next \in held
  <2>1. screen' = screen
    BY <1>5 DEF SetUp
  <2>2. \A j \in Todo : j \notin held' => said'[j] = said[j]
    BY <1>3, <1>4, <1>5
  <2> QED BY <1>3, <2>1, <2>2 DEF Displayed
<1>6. CASE next \notin held
  <2>1. screen' = screen \o [i \in 1..work[next].setup |-> <<next, i>>]
    BY <1>6 DEF SetUp
  <2> QED BY <1>1, <1>2, <1>3, <1>4, <2>1, BlockDisplayed
<1> QED BY <1>5, <1>6

LEMMA StepDisplayed ==
  TypeOK /\ Gates /\ Begin /\ Buffers /\ Displayed /\ [Next]_vars => Displayed'
<1> SUFFICES ASSUME TypeOK, Gates, Begin, Buffers, Displayed, [Next]_vars PROVE Displayed'
  OBVIOUS
<1> USE DEF chosen, schedule, speech, output
<1>1. ASSUME NEW k \in Todo, TakeGate(k) \/ Send(k) PROVE Displayed'
  BY <1>1, SameDisplayed DEF TakeGate, Send
<1>2. ASSUME NEW k \in Todo, WriteLine(k) PROVE Displayed'
  BY <1>2, WriteDisplayed
<1>3. CASE Hold
  <2>1. held = {} /\ UNCHANGED <<screen, said>>
    BY <1>3 DEF Hold, Begin
  <2> QED BY <2>1, SameDisplayed
<1>4. CASE SetUp
  BY <1>4, SetUpDisplayed
<1>5. CASE (\E k \in Todo : Start(k)) \/ Settle \/ Receive \/ UNCHANGED vars
  BY <1>5, SameDisplayed DEF Start, Settle, Receive, vars
<1>6. CASE Advance
  <2>1. CASE head \in finished /\ head < N
    <3>1. head + 1 \in Todo /\ Release(head + 1) /\ UNCHANGED said
      BY <1>6, <2>1 DEF Advance, TypeOK, Todo
    <3> QED BY <3>1, ReleaseDisplayed
  <2>2. CASE ~(head \in finished /\ head < N)
    BY <1>6, <2>2, SameDisplayed DEF Advance
  <2> QED BY <2>1, <2>2
<1>7. CASE Flush
  <2>1. CASE next \in finished
    BY <1>7, <2>1, ReleaseDisplayed DEF Flush, TypeOK
  <2>2. CASE next \notin finished
    BY <1>7, <2>2, SameDisplayed DEF Flush
  <2> QED BY <2>1, <2>2
<1>8. CASE Collect
  <2>1. CASE next \in finished
    BY <1>8, <2>1, SameDisplayed DEF Collect
  <2>2. CASE next \notin finished
    <3>1. next \in Todo /\ Release(next) /\ UNCHANGED said
      BY <1>8, <2>2 DEF Collect, TypeOK, Todo
    <3> QED BY <3>1, ReleaseDisplayed
  <2> QED BY <2>1, <2>2
<1> QED BY <1>1, <1>2, <1>3, <1>4, <1>5, <1>6, <1>7, <1>8
        DEF Next, Main, Member, Returned

\* The main thread is past its loop: only the flush and the results go on.
LEMMA StepOpened == TypeOK /\ Opened /\ [Next]_vars => Opened'
<1> SUFFICES ASSUME TypeOK, Opened, [Next]_vars PROVE Opened'
  OBVIOUS
<1> USE DEF chosen, schedule, speech, output
<1>1. ASSUME NEW k \in Todo, Member(k) PROVE Opened'
  BY <1>1 DEF Opened, Member, TakeGate, WriteLine, Send
<1>2. CASE Hold \/ SetUp \/ (\E k \in Todo : Start(k)) \/ Receive \/ Advance
  BY <1>2 DEF Opened, Hold, SetUp, Start, Receive, Advance
<1>3. CASE Settle
  <2>1. pc' \in {"flush", "receive"} /\ next' = 1 /\ UNCHANGED <<finished, held>>
    BY <1>3 DEF Settle
  <2>2. \A k \in finished : ~(k < 1)
    BY DEF TypeOK, Todo
  <2> QED BY <2>1, <2>2 DEF Opened
<1>4. CASE Flush
  <2>1. /\ finished' = finished /\ next \in 1..(N + 1) /\ finished \subseteq 1..N
        /\ \A k \in finished : k < next => k \notin held
        /\ \/ pc' = "flush" /\ next' = next + 1
           \/ pc' = "results" /\ next' = 1 /\ ~(next < N)
    BY <1>4 DEF Flush, Opened, TypeOK, Todo
  <2>2. held' \subseteq held /\ (next \in finished => next \notin held')
    <3>1. CASE next \in finished
      <4>1. next \in Todo /\ Release(next)
        BY <1>4, <3>1 DEF Flush, TypeOK
      <4> QED BY <4>1, ReleaseOpens
    <3>2. CASE next \notin finished
      BY <1>4, <3>2 DEF Flush
    <3> QED BY <3>1, <3>2
  <2>3. \A k \in finished : k <= next => k \notin held'
    BY <2>1, <2>2
  <2>4. CASE pc' = "flush"
    BY <2>1, <2>3, <2>4 DEF Opened
  <2>5. CASE pc' = "results"
    <3>1. \A k \in finished : k \notin held'
      BY <2>1, <2>3, <2>5
    <3>2. \A k \in Todo : ~(k < 1)
      BY DEF Todo
    <3> QED BY <2>1, <2>5, <3>1, <3>2 DEF Opened
  <2> QED BY <2>1, <2>4, <2>5
<1>5. CASE Collect
  <2>1. /\ finished' = finished /\ next \in 1..N /\ held \subseteq 1..N
        /\ \A k \in finished : k \notin held
        /\ \A k \in 1..N : k < next => k \notin held
        /\ \/ pc' = "results" /\ next' = next + 1
           \/ pc' = "done" /\ next' = 1 /\ ~(next < N)
    BY <1>5 DEF Collect, Opened, TypeOK, Todo
  <2>2. held' \subseteq held /\ next \notin held'
    <3>1. CASE next \in finished
      BY <1>5, <2>1, <3>1 DEF Collect
    <3>2. CASE next \notin finished
      <4>1. next \in Todo /\ Release(next)
        BY <1>5, <2>1, <3>2 DEF Collect, Todo
      <4> QED BY <4>1, ReleaseOpens
    <3> QED BY <3>1, <3>2
  <2>3. \A k \in 1..N : k <= next => k \notin held'
    BY <2>1, <2>2
  <2>4. CASE pc' = "results"
    <3>1. \A k \in finished' : k \notin held'
      BY <2>1, <2>2
    <3>2. \A k \in Todo : k < next' => k \notin held'
      BY <2>1, <2>3, <2>4 DEF Todo
    <3> QED BY <2>4, <3>1, <3>2 DEF Opened
  <2>5. CASE pc' = "done"
    <3>1. held' = {}
      BY <2>1, <2>2, <2>3, <2>5
    <3> QED BY <2>5, <3>1 DEF Opened
  <2> QED BY <2>1, <2>4, <2>5
<1>6. CASE UNCHANGED vars
  BY <1>6 DEF Opened, vars
<1> QED BY <1>1, <1>2, <1>3, <1>4, <1>5, <1>6 DEF Next, Main, Returned

LEMMA StepCollected == TypeOK /\ Collected /\ [Next]_vars => Collected'
<1> SUFFICES ASSUME TypeOK, Collected, [Next]_vars PROVE Collected'
  OBVIOUS
<1> USE DEF chosen, schedule, speech, output
<1>1. ASSUME NEW k \in Todo, Member(k) PROVE Collected'
  BY <1>1 DEF Collected, FirstFailed, Member, TakeGate, WriteLine, Send
<1>2. CASE Hold \/ SetUp \/ (\E k \in Todo : Start(k)) \/ Settle \/ Receive \/ Advance
  BY <1>2 DEF Collected, Hold, SetUp, Start, Settle, Receive, Advance
<1>3. CASE Flush
  <2>1. \A k \in finished : ~(k <= 0) /\ verdict = 0
    BY <1>3 DEF TypeOK, Todo, Flush, Collected
  <2>2. /\ UNCHANGED <<finished, work, verdict>>
        /\ pc' = "flush" \/ (pc' = "results" /\ next' - 1 = 0)
    BY <1>3 DEF Flush
  <2>3. verdict = 0
    BY <1>3 DEF Flush, Collected
  <2> QED BY <2>1, <2>2, <2>3 DEF Collected, FirstFailed
<1>4. CASE Collect
  <2>1. /\ finished' = finished /\ work' = work /\ next \in 1..N /\ finished \subseteq 1..N
        /\ verdict \in Nat
        /\ \/ pc' = "results" /\ next' = next + 1
           \/ pc' = "done" /\ ~(next < N)
    BY <1>4 DEF Collect, TypeOK, Todo
  <2>2. /\ verdict # 0 => verdict \in finished /\ verdict <= next - 1 /\ work[verdict].ending = "err"
        /\ \A k \in finished : k <= next - 1 /\ work[k].ending = "err" => verdict # 0 /\ verdict <= k
    BY <1>4 DEF Collect, Collected, FirstFailed
  <2>3. verdict' = IF next \in finished /\ verdict = 0 /\ work[next].ending = "err"
                   THEN next ELSE verdict
    BY <1>4 DEF Collect
  <2>4. /\ verdict' # 0 => verdict' \in finished /\ verdict' <= next /\ work[verdict'].ending = "err"
        /\ \A k \in finished : k <= next /\ work[k].ending = "err" => verdict' # 0 /\ verdict' <= k
    BY <2>1, <2>2, <2>3
  <2>5. CASE pc' = "results"
    <3>1. next' - 1 = next
      BY <2>1, <2>5
    <3> QED BY <2>1, <2>4, <2>5, <3>1 DEF Collected, FirstFailed
  <2>6. CASE pc' = "done"
    <3>1. next = N
      BY <2>1, <2>6
    <3> QED BY <2>1, <2>4, <2>6, <3>1 DEF Collected, FirstFailed
  <2> QED BY <2>1, <2>5, <2>6
<1>5. CASE UNCHANGED vars
  BY <1>5 DEF Collected, FirstFailed, vars
<1> QED BY <1>1, <1>2, <1>3, <1>4, <1>5 DEF Next, Main, Returned

\* Some member of a set of members comes first in build order.
LEMMA Earliest ==
  ASSUME NEW S \in SUBSET Todo, S # {}
  PROVE  \E k \in S : \A j \in S : k <= j
<1>1. S \subseteq Nat
  BY DEF Todo
<1>2. PICK k \in S : \A j \in S : ~(<<j, k>> \in OpToRel(<, Nat))
  BY <1>1, NatLessThanWellFounded, WFMin
<1>3. \A j \in S : k <= j
  <2>1. SUFFICES ASSUME NEW j \in S, j < k PROVE FALSE
    BY <1>1
  <2>2. <<j, k>> \in OpToRel(<, Nat)
    BY <1>1, <2>1 DEF OpToRel
  <2> QED BY <1>2, <2>2
<1> QED BY <1>3

\* The loop is left with members waiting only after a failure: the first of
\* them in build order would be ready.
LEMMA NothingReady ==
  ASSUME TypeOK, Todo = waiting \cup finished, Ready = {}, waiting # {},
         \A k \in Todo : work[k].ending = "ok"
  PROVE  FALSE
<1>1. waiting \subseteq Todo
  BY DEF TypeOK
<1>2. PICK k \in waiting : \A j \in waiting : k <= j
  BY <1>1, Earliest
<1>3. upstream[k] \subseteq 1..(k - 1) /\ upstream[k] \subseteq Todo
  BY <1>1, GraphsAssumption DEF TypeOK, GraphsAssumption
<1>4. \A u \in upstream[k] : u \notin waiting
  BY <1>1, <1>2, <1>3 DEF Todo
<1>5. \A u \in upstream[k] : u \in finished /\ work[u].ending # "err"
  BY <1>3, <1>4
<1> QED BY <1>5 DEF Ready

LEMMA SettleExhausted ==
  ASSUME TypeOK, Exhausted, Settle
  PROVE  Exhausted'
<1>1. /\ pc = "schedule" /\ ~CanStart /\ UNCHANGED <<waiting, running, finished, failed, work>>
      /\ pc' = IF running = {} THEN "flush" ELSE "receive"
  BY DEF Settle, chosen
<1>2. /\ Todo = waiting \cup running \cup finished
      /\ failed => \E k \in finished : work[k].ending # "ok"
  BY <1>1 DEF Exhausted
<1>3. CASE running = {}
  <2>1. Cardinality(running) < Jobs
    BY <1>3, FS_EmptySet, JobsAssumption DEF JobsAssumption
  <2>2. failed \/ Ready = {}
    BY <1>1, <2>1 DEF CanStart
  <2>3. waiting = {} \/ \E k \in Todo : work[k].ending # "ok"
    <3>1. CASE failed
      BY <1>2, <3>1 DEF TypeOK
    <3>2. CASE Ready = {}
      BY <1>2, <1>3, <3>2, NothingReady
    <3> QED BY <2>2, <3>1, <3>2
  <2> QED BY <1>1, <1>2, <2>3 DEF Exhausted
<1>4. CASE running # {}
  BY <1>1, <1>2, <1>4 DEF Exhausted
<1> QED BY <1>3, <1>4

LEMMA StepExhausted == TypeOK /\ Places /\ Exhausted /\ [Next]_vars => Exhausted'
<1> SUFFICES ASSUME TypeOK, Places, Exhausted, [Next]_vars PROVE Exhausted'
  OBVIOUS
<1> USE DEF chosen, schedule, speech, output
<1>1. ASSUME NEW k \in Todo, Member(k) PROVE Exhausted'
  BY <1>1 DEF Exhausted, Member, TakeGate, WriteLine, Send
<1>2. CASE Hold
  <2>1. /\ pc' = "setup" /\ next' = 1 /\ \A k \in Todo : ~(k < 1)
        /\ UNCHANGED <<waiting, finished, failed, work>>
    BY <1>2 DEF Hold, Todo
  <2> QED BY <2>1 DEF Exhausted
<1>3. CASE SetUp
  <2>1. /\ pc = "setup" /\ next \in 1..N /\ waiting' = waiting \cup {next} /\ next' = next + 1
        /\ pc' = IF next = N THEN "schedule" ELSE "setup"
        /\ UNCHANGED <<running, finished, failed, work>>
    BY <1>3 DEF SetUp, TypeOK, Todo
  <2>2. \A k \in Todo : k < next' => k \in waiting'
    BY <2>1 DEF Exhausted, Todo
  <2>3. pc' = "schedule" => Todo = waiting' \cup running' \cup finished'
    <3>1. waiting \subseteq Todo /\ running \subseteq Todo /\ finished \subseteq Todo
      BY DEF TypeOK
    <3>2. ASSUME pc' = "schedule" PROVE Todo \subseteq waiting'
      <4>1. next' = N + 1
        BY <2>1, <3>2
      <4> QED BY <2>2, <4>1 DEF Todo
    <3>3. waiting' \subseteq Todo /\ running' = running /\ finished' = finished
      BY <2>1, <3>1 DEF Todo
    <3> QED BY <3>1, <3>2, <3>3
  <2> QED BY <2>1, <2>2, <2>3 DEF Exhausted
<1>4. ASSUME NEW k \in Todo, Start(k) PROVE Exhausted'
  BY <1>4 DEF Exhausted, Start, First, Ready
<1>5. CASE Settle
  BY <1>5, SettleExhausted
<1>6. CASE Receive
  <2>1. /\ pc = "receive" /\ pc' = "advance" /\ Head(channel) \in running
        /\ running' = running \ {Head(channel)} /\ finished' = finished \cup {Head(channel)}
        /\ failed' = (failed \/ work[Head(channel)].ending # "ok")
        /\ UNCHANGED <<waiting, work>>
    BY <1>6 DEF Receive, Places, TypeOK
  <2> QED BY <2>1 DEF Exhausted
<1>7. CASE Advance \/ Flush \/ Collect
  BY <1>7 DEF Exhausted, Advance, Flush, Collect
<1>8. CASE UNCHANGED vars
  BY <1>8 DEF Exhausted, vars
<1> QED BY <1>1, <1>2, <1>3, <1>4, <1>5, <1>6, <1>7, <1>8 DEF Next, Main, Returned
-----------------------------------------------------------------------------
(* The theorems.                                                           *)


\* How a command ends, beside the invariant above.
THEOREM EndsWell == Spec => [](IInv /\ EndInv)
<1>1. Init => EndInv
  <2> SUFFICES ASSUME Init PROVE EndInv
    OBVIOUS
  <2>1. /\ pc = "hold" /\ next = 1 /\ finished = {} /\ failed = FALSE /\ verdict = 0
        /\ screen = <<>> /\ \A k \in Todo : said[k] = 0 /\ ~(k < 1)
    BY DEF Init, Todo
  <2> QED BY <2>1 DEF EndInv, Displayed, Opened, Collected, Exhausted
<1>2. IInv /\ EndInv /\ [Next]_vars => EndInv'
  BY StepDisplayed, StepOpened, StepCollected, StepExhausted DEF IInv, EndInv
<1> QED BY <1>1, <1>2, InitIInv, StepIInv, PTL DEF Spec

\* Once the command is over every line is on the terminal exactly once, and
\* no gate is closed: Driver::at_once_until loses nothing.
THEOREM NothingIsHidden == Spec => []NothingHidden
<1>1. IInv /\ EndInv => NothingHidden
  <2> SUFFICES ASSUME IInv, EndInv, pc = "done" PROVE
         /\ \A k \in Todo, n \in 1..2 * N :
              Cardinality({i \in 1..Len(screen) : screen[i] = <<k, n>>})
                = (IF n <= said[k] THEN 1 ELSE 0)
         /\ held = {} /\ \A k \in Todo : buffer[k] = <<>>
    BY DEF NothingHidden
  <2>1. held = {} /\ \A k \in Todo : buffer[k] = <<>> /\ said[k] \in Nat
    BY DEF EndInv, Opened, IInv, Buffers, TypeOK
  <2>2. ASSUME NEW k \in Todo, NEW n \in 1..2 * N
        PROVE  Cardinality({i \in 1..Len(screen) : screen[i] = <<k, n>>})
                 = (IF n <= said[k] THEN 1 ELSE 0)
    <3> DEFINE at == {i \in 1..Len(screen) : screen[i] = <<k, n>>}
    <3>1. CASE n <= said[k]
      <4>1. n \in 1..said[k]
        BY <2>1, <3>1
      <4>2. PICK i \in 1..Len(screen) : screen[i] = <<k, n>>
        BY <2>1, <4>1 DEF EndInv, Displayed
      <4>3. at = {i}
        BY <4>2 DEF EndInv, Displayed
      <4> QED BY <3>1, <4>3, FS_Singleton
    <3>2. CASE ~(n <= said[k])
      <4>1. ASSUME NEW i \in 1..Len(screen), screen[i] = <<k, n>> PROVE FALSE
        <5>1. screen[i][1] = k /\ screen[i][2] = n
          BY <4>1
        <5>2. n \in 1..said[k]
          BY <5>1 DEF IInv, Buffers
        <5> QED BY <2>1, <3>2, <5>2
      <4>2. at = {}
        BY <4>1
      <4> QED BY <3>2, <4>2, FS_EmptySet
    <3> QED BY <3>1, <3>2
  <2> QED BY <2>1, <2>2
<1> QED BY <1>1, EndsWell, PTL

\* The command's error is that of the first member in build order that
\* failed; and when no work fails every member is built.
THEOREM FirstErrorIsReported == Spec => []FirstErrorWins
<1>1. IInv /\ EndInv => FirstErrorWins
  <2> DEFINE errs == {k \in Todo : thread[k] = "ended" /\ work[k].ending = "err"}
  <2> SUFFICES ASSUME IInv, EndInv, pc = "done"
               PROVE  /\ IF errs = {} THEN verdict = 0 ELSE verdict = Min(errs)
                      /\ (\A k \in Todo : work[k].ending = "ok") => finished = Todo
    BY DEF FirstErrorWins
  <2>1. /\ finished \subseteq Todo /\ running = {} /\ verdict \in Nat
        /\ \A k \in Todo : thread[k] = "ended" <=> k \in finished
    <3>1. TypeOK /\ Places
      BY DEF IInv
    <3>2. finished \subseteq Todo /\ running = {} /\ verdict \in Nat
      BY <3>1 DEF TypeOK, Places
    <3>3. \A k \in Todo : thread[k] = "ended" <=> k \in finished
      BY <3>1, <3>2 DEF Places
    <3> QED BY <3>2, <3>3
  <2>2. errs = {k \in finished : work[k].ending = "err"}
    BY <2>1
  <2>3. /\ verdict # 0 => verdict \in errs
        /\ \A k \in errs : verdict # 0 /\ verdict <= k
    BY <2>1, <2>2 DEF EndInv, Collected, FirstFailed, Todo
  <2>4. IF errs = {} THEN verdict = 0 ELSE verdict = Min(errs)
    <3>1. CASE errs = {}
      BY <2>3, <3>1
    <3>2. CASE errs # {}
      <4>1. verdict \in errs /\ \A k \in errs : verdict <= k
        BY <2>3, <3>2
      <4>2. errs \subseteq Nat
        BY DEF Todo
      <4> HIDE DEF errs
      <4>3. \A m \in errs : (\A k \in errs : m <= k) => m = verdict
        BY <4>1, <4>2
      <4> QED BY <3>2, <4>1, <4>3 DEF Min
    <3> QED BY <3>1, <3>2
  <2>5. (\A k \in Todo : work[k].ending = "ok") => finished = Todo
    BY <2>1 DEF EndInv, Exhausted
  <2> QED BY <2>4, <2>5
<1> QED BY <1>1, EndsWell, PTL
-----------------------------------------------------------------------------
(* The transcript of one member after the other.                           *)

\* How many lines member k says in all.
Total(k) == work[k].setup + work[k].lines

\* h[n] is the first n sequences of s put one after the other.
Joins(h, s, n) ==
  h[0] = <<>> /\ \A i \in 1..n : h[i] = h[i - 1] \o s[i]

LEMMA Induct ==
  ASSUME NEW S \in SUBSET Nat, 0 \in S, \A n \in S : n + 1 \in S
  PROVE  S = Nat
<1>1. SUFFICES ASSUME Nat \ S # {} PROVE FALSE
  OBVIOUS
<1>2. PICK n \in Nat \ S : \A m \in Nat \ S : ~(<<m, n>> \in OpToRel(<, Nat))
  BY <1>1, NatLessThanWellFounded, WFMin
<1>3. n - 1 \in Nat /\ n - 1 \notin S
  <2>1. n \in Nat /\ n # 0
    BY <1>2
  <2>2. n - 1 \in Nat /\ (n - 1) + 1 = n
    BY <2>1
  <2> QED BY <1>2, <2>2
<1>4. <<n - 1, n>> \in OpToRel(<, Nat)
  BY <1>2, <1>3 DEF OpToRel
<1> QED BY <1>2, <1>3, <1>4

\* Sequences can be joined, however many there are.
LEMMA SomeJoin ==
  ASSUME NEW s \in [Todo -> Seq(Line)]
  PROVE  \E h \in [0..N -> Seq(Line)] : Joins(h, s, N)
<1> DEFINE S == {n \in Nat : n <= N => \E h \in [0..n -> Seq(Line)] : Joins(h, s, n)}
<1>0. PICK X : X = Seq(Line)
  OBVIOUS
<1>1. 0 \in S
  <2>1. PICK none \in Seq(Line) : none = <<>>
    <3>1. <<>> \in Seq(Line)
      OBVIOUS
    <3> QED BY <3>1
  <2>2. [i \in 0..0 |-> none] \in [0..0 -> Seq(Line)] /\ [i \in 0..0 |-> none][0] = <<>>
    BY <2>1
  <2>3. Joins([i \in 0..0 |-> none], s, 0)
    BY <2>2 DEF Joins
  <2> QED BY <2>2, <2>3
<1>2. ASSUME NEW n \in S PROVE n + 1 \in S
  <2>1. n \in Nat
    OBVIOUS
  <2>2. SUFFICES ASSUME n + 1 <= N
                 PROVE  \E k \in [0..(n + 1) -> Seq(Line)] : Joins(k, s, n + 1)
    BY <2>1
  <2>3. PICK h \in [0..n -> Seq(Line)] : Joins(h, s, n)
    BY <2>1, <2>2
  <2>4. n + 1 \in Todo /\ s[n + 1] \in Seq(Line) /\ h[n] \in Seq(Line)
    BY <2>1, <2>2 DEF Todo
  <2>5. PICK more \in X : more = h[n] \o s[n + 1]
    <3>1. h[n] \o s[n + 1] \in Seq(Line)
      BY <2>4, Concat
    <3> QED BY <1>0, <3>1
  <2>6. PICK k \in [0..(n + 1) -> X] : \A i \in 0..(n + 1) : k[i] = IF i = n + 1 THEN more ELSE h[i]
    <3>1. h \in [0..n -> X]
      BY <1>0
    <3>2. \A i \in 0..(n + 1) : (IF i = n + 1 THEN more ELSE h[i]) \in X
      BY <2>1, <3>1
    <3>3. [i \in 0..(n + 1) |-> IF i = n + 1 THEN more ELSE h[i]] \in [0..(n + 1) -> X]
      BY <3>2
    <3> QED BY <3>3
  <2>7. k[0] = <<>>
    <3>1. 0 \in 0..(n + 1) /\ 0 # n + 1
      BY <2>1
    <3> QED BY <2>3, <2>6, <3>1 DEF Joins
  <2>8. ASSUME NEW i \in 1..(n + 1) PROVE k[i] = k[i - 1] \o s[i]
    <3>1. i - 1 \in 0..(n + 1) /\ i - 1 # n + 1 /\ i \in 0..(n + 1)
      BY <2>1
    <3>2. k[i - 1] = h[i - 1]
      BY <2>6, <3>1
    <3>3. CASE i = n + 1
      <4>1. i - 1 = n
        BY <2>1, <3>3
      <4> QED BY <2>5, <2>6, <3>1, <3>2, <3>3, <4>1
    <3>4. CASE i # n + 1
      <4>1. i \in 1..n
        BY <2>1, <3>4
      <4>2. h[i] = h[i - 1] \o s[i]
        BY <2>3, <4>1 DEF Joins
      <4>3. k[i] = h[i]
        BY <2>6, <3>1, <3>4
      <4> QED BY <3>2, <4>2, <4>3
    <3> QED BY <3>3, <3>4
  <2>9. Joins(k, s, n + 1)
    BY <2>7, <2>8 DEF Joins
  <2> QED BY <1>0, <2>9
<1> HIDE DEF S
<1>3. S = Nat
  <2>1. S \in SUBSET Nat
    BY DEF S
  <2> QED BY <1>1, <1>2, <2>1, Induct
<1>4. N \in S
  BY <1>3
<1> QED BY <1>4 DEF S

\* The library's flattening joins its sequences.
LEMMA FlatJoins ==
  ASSUME NEW s \in [Todo -> Seq(Line)]
  PROVE  \E h \in [0..N -> Seq(Line)] : Joins(h, s, N) /\ Sequential!FlattenSeq(s) = h[N]
<1> DEFINE flatten[i \in 1..Len(s)] == IF i = 1 THEN s[i] ELSE flatten[i - 1] \o s[i]
<1>1. Len(s) = N /\ N # 0
  <2>1. s \in Seq(Seq(Line))
    BY DEF Todo
  <2> QED BY <2>1 DEF Todo
<1>2. Sequential!FlattenSeq(s) = flatten[Len(s)]
  BY <1>1 DEF Sequential!FlattenSeq
<1>3. PICK h \in [0..N -> Seq(Line)] : Joins(h, s, N)
  BY SomeJoin
<1>4. PICK f : f = [i \in 1..N |-> h[i]]
  OBVIOUS
<1>5. ASSUME NEW i \in 1..N PROVE f[i] = IF i = 1 THEN s[i] ELSE f[i - 1] \o s[i]
  <2>1. h[i] = h[i - 1] \o s[i]
    BY <1>3 DEF Joins
  <2>2. CASE i = 1
    <3>1. i - 1 = 0 /\ h[0] = <<>> /\ s[i] \in Seq(Line)
      BY <1>3, <2>2 DEF Joins, Todo
    <3>2. <<>> \o s[i] = s[i]
      BY <3>1
    <3> QED BY <1>4, <2>1, <2>2, <3>1, <3>2
  <2>3. CASE i # 1
    <3>1. i - 1 \in 1..N
      BY <2>3
    <3> QED BY <1>4, <2>1, <2>3, <3>1
  <2> QED BY <2>2, <2>3
<1>6. f = [i \in 1..Len(s) |-> IF i = 1 THEN s[i] ELSE f[i - 1] \o s[i]]
  BY <1>1, <1>4, <1>5
<1>7. flatten = [i \in 1..Len(s) |-> IF i = 1 THEN s[i] ELSE flatten[i - 1] \o s[i]]
  BY <1>6
<1>8. \A i \in 1..N : flatten[i] = IF i = 1 THEN s[i] ELSE flatten[i - 1] \o s[i]
  BY <1>1, <1>7
<1> HIDE DEF flatten
<1> DEFINE S == {n \in Nat : n + 1 <= N => flatten[n + 1] = h[n + 1]}
<1>9. 0 \in S
  <2>1. 1 \in 1..N /\ 0 + 1 = 1
    OBVIOUS
  <2>2. flatten[1] = s[1] /\ f[1] = s[1] /\ f[1] = h[1]
    BY <1>4, <1>5, <1>8, <2>1
  <2> QED BY <2>1, <2>2
<1>10. ASSUME NEW n \in S PROVE n + 1 \in S
  <2>1. n \in Nat
    OBVIOUS
  <2>2. SUFFICES ASSUME (n + 1) + 1 <= N PROVE flatten[(n + 1) + 1] = h[(n + 1) + 1]
    BY <2>1
  <2>3. PICK m \in 1..N : m = (n + 1) + 1 /\ m - 1 = n + 1 /\ m # 1
    BY <2>1, <2>2
  <2>4. flatten[m - 1] = h[m - 1]
    BY <2>1, <2>2, <2>3
  <2>5. flatten[m] = flatten[m - 1] \o s[m] /\ h[m] = h[m - 1] \o s[m]
    BY <1>3, <1>8, <2>3 DEF Joins
  <2> QED BY <2>3, <2>4, <2>5
<1> HIDE DEF S
<1>11. S = Nat
  <2>1. S \in SUBSET Nat
    BY DEF S
  <2> QED BY <1>9, <1>10, <2>1, Induct
<1>12. flatten[N] = h[N]
  <2>1. PICK n \in Nat : n + 1 = N
    <3>1. N - 1 \in Nat /\ (N - 1) + 1 = N
      OBVIOUS
    <3> QED BY <3>1
  <2>2. n \in S /\ n + 1 <= N
    BY <1>11, <2>1
  <2> QED BY <2>1, <2>2 DEF S
<1> QED BY <1>1, <1>2, <1>3, <1>12

\* t is all the lines of the first n members, in build order.
LinesUpTo(t, n) ==
  /\ t \in Seq(Line) /\ AllBefore(t)
  /\ \A i \in 1..Len(t) : t[i][1] <= n /\ t[i][2] \in 1..Total(t[i][1])
  /\ \A k \in 1..n : \A m \in 1..Total(k) : \E i \in 1..Len(t) : t[i] = <<k, m>>

LEMMA TotalIsNat ==
  ASSUME TypeOK, NEW k \in Todo
  PROVE  Total(k) \in Nat
BY SaysNat DEF Total

\* The next member's lines are put after those of the members before it.
LEMMA OneMoreMember ==
  ASSUME TypeOK, NEW k \in Todo, NEW s, LinesUpTo(s, k - 1)
  PROVE  LinesUpTo(s \o [i \in 1..Total(k) |-> <<k, i>>], k)
<1> DEFINE b == [i \in 1..Total(k) |-> <<k, i>>]
           t == s \o b
<1>1. Total(k) \in Nat /\ k \in Nat /\ k \in 1..N
  BY TotalIsNat DEF Todo
<1>2. b \in Seq(Line) /\ Len(b) = Total(k) /\ \A i \in 1..Total(k) : b[i] = <<k, i>>
  BY <1>1, FirstLines
<1>3. /\ s \in Seq(Line) /\ AllBefore(s)
      /\ \A i \in 1..Len(s) : s[i][1] <= k - 1 /\ s[i][2] \in 1..Total(s[i][1])
      /\ \A j \in 1..(k - 1) : \A m \in 1..Total(j) : \E i \in 1..Len(s) : s[i] = <<j, m>>
  BY DEF LinesUpTo
<1>4. \A i \in 1..Len(s) : s[i][1] \in Nat /\ s[i][1] < k
  <2>1. \A i \in 1..Len(s) : s[i] \in Line
    BY <1>3
  <2>2. \A i \in 1..Len(s) : s[i][1] \in Nat
    BY <2>1 DEF Line, Todo
  <2> QED BY <1>1, <1>3, <2>2
<1>5. AllBefore(t)
  BY <1>1, <1>3, <1>4, BlockOrder
<1> HIDE DEF b
<1>6. /\ Len(s) \in Nat /\ t \in Seq(Line) /\ Len(t) = Len(s) + Total(k)
      /\ \A i \in 1..(Len(s) + Total(k)) : t[i] = IF i <= Len(s) THEN s[i] ELSE b[i - Len(s)]
  BY <1>2, <1>3, Concat
<1> HIDE DEF t
<1>7. ASSUME NEW i \in 1..Len(t) PROVE t[i][1] <= k /\ t[i][2] \in 1..Total(t[i][1])
  <2>1. CASE i <= Len(s)
    <3>1. i \in 1..Len(s) /\ t[i] = s[i]
      BY <1>6, <2>1
    <3> QED BY <1>1, <1>3, <1>4, <3>1
  <2>2. CASE ~(i <= Len(s))
    <3>1. i - Len(s) \in 1..Total(k) /\ t[i] = b[i - Len(s)]
      BY <1>1, <1>6, <2>2
    <3>2. t[i] = <<k, i - Len(s)>>
      BY <1>2, <3>1
    <3> QED BY <1>1, <3>1, <3>2
  <2> QED BY <2>1, <2>2
<1>8. ASSUME NEW j \in 1..k, NEW m \in 1..Total(j) PROVE \E i \in 1..Len(t) : t[i] = <<j, m>>
  <2>1. CASE j = k
    <3>1. /\ Len(s) + m \in 1..Len(t) /\ ~(Len(s) + m <= Len(s))
          /\ (Len(s) + m) - Len(s) = m /\ m \in 1..Total(k)
      BY <1>1, <1>6, <2>1
    <3>2. t[Len(s) + m] = b[m]
      BY <1>1, <1>6, <3>1
    <3>3. t[Len(s) + m] = <<j, m>>
      BY <1>2, <2>1, <3>1, <3>2
    <3> QED BY <3>1, <3>3
  <2>2. CASE j # k
    <3>1. j \in 1..(k - 1)
      BY <1>1, <2>2
    <3>2. PICK i \in 1..Len(s) : s[i] = <<j, m>>
      BY <1>3, <3>1
    <3>3. i \in 1..Len(t) /\ t[i] = s[i]
      BY <1>1, <1>6, <3>2
    <3> QED BY <3>2, <3>3
  <2> QED BY <2>1, <2>2
<1>9. LinesUpTo(t, k)
  BY <1>5, <1>6, <1>7, <1>8 DEF LinesUpTo
<1> QED BY <1>9 DEF t, b

\* The transcript of one member after the other is every member's lines, in
\* build order.
LEMMA TranscriptIs ==
  ASSUME TypeOK, AllWell
  PROVE  LinesUpTo(Sequential!Transcript, N)
<1> DEFINE s == [k \in Todo |-> Script(k)]
<1>1. \A k \in Todo : s[k] = [i \in 1..Total(k) |-> <<k, i>>] /\ s[k] \in Seq(Line)
  <2>1. ASSUME NEW k \in Todo PROVE Script(k) = [i \in 1..Total(k) |-> <<k, i>>]
    BY DEF Script, Total
  <2>2. ASSUME NEW k \in Todo PROVE Script(k) \in Seq(Line)
    <3>1. Total(k) \in Nat
      BY TotalIsNat
    <3> QED BY <2>1, <3>1, FirstLines
  <2> QED BY <2>1, <2>2
<1>2. Sequential!Transcript = Sequential!FlattenSeq(s)
  <2>1. [k \in 1..N |-> s[k]] = s
    BY DEF Todo
  <2> QED BY <2>1 DEF Sequential!Transcript
<1>3. s \in [Todo -> Seq(Line)]
  BY <1>1
<1> HIDE DEF s
<1>4. PICK h \in [0..N -> Seq(Line)] : Joins(h, s, N) /\ Sequential!FlattenSeq(s) = h[N]
  BY <1>3, FlatJoins
<1> DEFINE S == {n \in Nat : n <= N => LinesUpTo(h[n], n)}
<1>5. 0 \in S
  <2>1. h[0] = <<>>
    BY <1>4 DEF Joins
  <2>2. LinesUpTo(<<>>, 0)
    BY DEF LinesUpTo, AllBefore
  <2> QED BY <2>1, <2>2
<1>6. ASSUME NEW n \in S PROVE n + 1 \in S
  <2>1. n \in Nat
    OBVIOUS
  <2>2. SUFFICES ASSUME n + 1 <= N PROVE LinesUpTo(h[n + 1], n + 1)
    BY <2>1
  <2>3. PICK k \in Todo : k = n + 1 /\ k - 1 = n /\ k \in 1..N
    BY <2>1, <2>2 DEF Todo
  <2>4. LinesUpTo(h[k - 1], k - 1)
    BY <2>1, <2>2, <2>3
  <2>5. h[k] = h[k - 1] \o [i \in 1..Total(k) |-> <<k, i>>]
    BY <1>1, <1>4, <2>3 DEF Joins
  <2>6. LinesUpTo(h[k], k)
    BY <2>4, <2>5, OneMoreMember
  <2> QED BY <2>3, <2>6
<1> HIDE DEF S
<1>7. S = Nat
  <2>1. S \in SUBSET Nat
    BY DEF S
  <2> QED BY <1>5, <1>6, <2>1, Induct
<1>8. LinesUpTo(h[N], N)
  <2>1. N \in S /\ N <= N
    BY <1>7
  <2> QED BY <2>1 DEF S
<1> QED BY <1>2, <1>4, <1>8

\* Of two sequences of lines in order, one whose lines are among the other's,
\* with every line of the other that stands before one of them, is a
\* beginning of it.
LEMMA Beginning ==
  ASSUME NEW s \in Seq(Line), NEW t \in Seq(Line), AllBefore(s), AllBefore(t),
         \A i \in 1..Len(s) : \E j \in 1..Len(t) : s[i] = t[j],
         \A i \in 1..Len(s) : \A j \in 1..Len(t) :
           Before(t[j], s[i]) => \E m \in 1..Len(s) : s[m] = t[j]
  PROVE  \A i \in 1..Len(s) : i <= Len(t) /\ s[i] = t[i]
<1>0. Len(s) \in Nat /\ Len(t) \in Nat
  OBVIOUS
<1>1. \A a, b \in Line : Before(a, b) => ~Before(b, a) /\ a # b
  BY DEF Before, Line, Todo
<1>2. (\A i \in 1..Len(s) : s[i] \in Line) /\ (\A i \in 1..Len(t) : t[i] \in Line)
  OBVIOUS
<1>3. \A i, j \in 1..Len(s) : i < j => Before(s[i], s[j])
  BY DEF AllBefore
<1>4. \A i, j \in 1..Len(t) : i < j => Before(t[i], t[j])
  BY DEF AllBefore
<1> HIDE DEF Before
<1> DEFINE Q == {n \in Nat : \A i \in 1..Len(s) : i <= n => i <= Len(t) /\ s[i] = t[i]}
<1>5. 0 \in Q
  OBVIOUS
<1>6. ASSUME NEW n \in Q PROVE n + 1 \in Q
  <2>1. n \in Nat /\ \A i \in 1..Len(s) : i <= n => i <= Len(t) /\ s[i] = t[i]
    OBVIOUS
  <2>2. SUFFICES ASSUME NEW i \in 1..Len(s), i = n + 1 PROVE i <= Len(t) /\ s[i] = t[i]
    <3>1. \A i \in 1..Len(s) : i <= n + 1 => i <= n \/ i = n + 1
      BY <1>0, <2>1
    <3> QED BY <2>1, <3>1
  <2>3. PICK j \in 1..Len(t) : s[i] = t[j]
    OBVIOUS
  <2>4. ~(j < i)
    <3> SUFFICES ASSUME j < i PROVE FALSE
      OBVIOUS
    <3>1. j \in 1..Len(s) /\ j <= n
      BY <1>0, <2>1, <2>2
    <3>2. s[j] = t[j] /\ Before(s[j], s[i])
      BY <1>3, <2>1, <3>1
    <3> QED BY <1>1, <1>2, <2>3, <3>1, <3>2
  <2>5. ~(j > i)
    <3> SUFFICES ASSUME j > i PROVE FALSE
      OBVIOUS
    <3>1. i \in 1..Len(t)
      BY <1>0
    <3>2. Before(t[i], t[j])
      BY <1>4, <3>1
    <3>3. PICK m \in 1..Len(s) : s[m] = t[i]
      BY <2>3, <3>1, <3>2
    <3>4. CASE m < i
      <4>1. m <= n /\ m \in 1..Len(t)
        BY <1>0, <2>1, <2>2, <3>1, <3>4
      <4>2. s[m] = t[m] /\ Before(t[m], t[i])
        BY <1>4, <2>1, <3>1, <3>4, <4>1
      <4> QED BY <1>1, <1>2, <3>1, <3>3, <4>1, <4>2
    <3>5. CASE m = i
      BY <1>1, <1>2, <2>3, <3>1, <3>2, <3>3, <3>5
    <3>6. CASE m > i
      <4>1. Before(s[i], s[m])
        BY <1>3, <3>6
      <4> QED BY <1>1, <1>2, <2>3, <3>1, <3>2, <3>3, <4>1
    <3> QED BY <1>0, <3>4, <3>5, <3>6
  <2>6. i = j
    BY <1>0, <2>4, <2>5
  <2> QED BY <2>3, <2>6
<1> HIDE DEF Q
<1>7. Q = Nat
  <2>1. Q \in SUBSET Nat
    BY DEF Q
  <2> QED BY <1>5, <1>6, <2>1, Induct
<1> QED BY <1>0, <1>7 DEF Q
-----------------------------------------------------------------------------
(* The terminal only ever shows a beginning of that transcript.            *)

\* What a member has left to say: a thread in the middle of a line has one,
\* one that sent its result has none.
Said ==
  /\ \A k \in Todo : said[k] <= Total(k)
  /\ \A k \in Todo : thread[k] \in {"holding", "writing"} => said[k] < Total(k)
  /\ \A k \in Todo : thread[k] = "ended" => said[k] = Total(k)

\* The head rests at a member that is not received.
HeadRests ==
  pc \in {"schedule", "receive", "flush", "results", "done"} => head \notin finished

LEMMA StepSaid == TypeOK /\ Places /\ Said /\ [Next]_vars => Said'
<1> SUFFICES ASSUME TypeOK, Places, Said, [Next]_vars PROVE Said'
  OBVIOUS
<1> USE DEF chosen, schedule, speech, output
<1>0. /\ said \in [Todo -> Nat] /\ \A k \in Todo : Total(k) \in Nat
      /\ thread \in [Todo -> {"none", "working", "holding", "writing", "ended"}]
  BY TotalIsNat DEF TypeOK
<1>1. work' = work /\ \A k \in Todo : Total(k)' = Total(k)
  <2>1. work' = work
    BY DEF Next, Main, Member, Returned, vars, TakeGate, WriteLine, Send, Hold, SetUp,
           Start, Settle, Receive, Advance, Flush, Collect
  <2> QED BY <2>1 DEF Total
<1>2. ASSUME NEW k \in Todo, TakeGate(k) PROVE Said'
  <2>1. /\ said[k] < Total(k) /\ said' = said
        /\ \A j \in Todo \ {k} : thread'[j] = thread[j]
        /\ thread'[k] \in {"holding", "writing"}
    BY <1>0, <1>2 DEF TakeGate, Total
  <2> QED BY <1>0, <1>1, <2>1 DEF Said
<1>3. ASSUME NEW k \in Todo, WriteLine(k) PROVE Said'
  <2>1. /\ thread[k] \in {"holding", "writing"} /\ said'[k] = said[k] + 1
        /\ thread'[k] = "working"
        /\ \A j \in Todo \ {k} : said'[j] = said[j] /\ thread'[j] = thread[j]
    BY <1>0, <1>3 DEF WriteLine
  <2>2. said[k] + 1 <= Total(k)
    BY <1>0, <2>1 DEF Said
  <2> QED BY <1>0, <1>1, <2>1, <2>2 DEF Said
<1>4. ASSUME NEW k \in Todo, Send(k) PROVE Said'
  <2>1. /\ said[k] = Total(k) /\ said' = said /\ thread'[k] = "ended"
        /\ \A j \in Todo \ {k} : thread'[j] = thread[j]
    BY <1>0, <1>4 DEF Send, Total
  <2> QED BY <1>0, <1>1, <2>1 DEF Said
<1>5. CASE SetUp
  <2>0. next \in Todo
    BY <1>5 DEF SetUp, TypeOK, Todo
  <2>1. next \in Todo /\ work[next].setup \in Nat /\ work[next].lines \in Nat
    BY <2>0, SaysNat
  <2>2. /\ thread' = thread /\ said'[next] = work[next].setup
        /\ \A j \in Todo \ {next} : said'[j] = said[j]
    BY <1>0, <1>5, <2>1 DEF SetUp
  <2>3. said'[next] <= Total(next)
    BY <2>1, <2>2 DEF Total
  <2>4. thread[next] = "none"
    BY <1>5, <2>1 DEF SetUp, Places
  <2> QED BY <1>1, <2>1, <2>2, <2>3, <2>4 DEF Said
<1>6. ASSUME NEW k \in Todo, Start(k) PROVE Said'
  <2>1. /\ said' = said /\ thread'[k] = "working"
        /\ \A j \in Todo \ {k} : thread'[j] = thread[j]
    BY <1>0, <1>6 DEF Start
  <2> QED BY <1>1, <2>1 DEF Said
<1>7. CASE UNCHANGED <<said, thread>>
  BY <1>1, <1>7 DEF Said
<1> QED BY <1>2, <1>3, <1>4, <1>5, <1>6, <1>7
        DEF Next, Main, Member, Returned, vars, Hold, Settle, Receive, Advance,
            Flush, Collect

LEMMA StepHeadRests == Places /\ HeadRests /\ [Next]_vars => HeadRests'
<1> SUFFICES ASSUME Places, HeadRests, [Next]_vars PROVE HeadRests'
  OBVIOUS
<1> USE DEF chosen, schedule, speech, output
<1>1. ASSUME NEW k \in Todo, Member(k) PROVE HeadRests'
  BY <1>1 DEF HeadRests, Member, TakeGate, WriteLine, Send
<1>2. CASE Hold \/ Receive \/ Advance
  BY <1>2 DEF HeadRests, Hold, Receive, Advance
<1>3. CASE SetUp
  BY <1>3 DEF HeadRests, SetUp, Places
<1>4. CASE (\E k \in Todo : Start(k)) \/ Settle \/ Flush \/ Collect \/ UNCHANGED vars
  BY <1>4 DEF HeadRests, Start, Settle, Flush, Collect, vars
<1> QED BY <1>1, <1>2, <1>3, <1>4 DEF Next, Main, Returned

ShownInv == IInv /\ EndInv /\ Said /\ HeadRests

THEOREM ShownInvariance == Spec => []ShownInv
<1>1. Init => Said /\ HeadRests
  <2> SUFFICES ASSUME Init PROVE Said /\ HeadRests
    OBVIOUS
  <2>1. /\ pc = "hold" /\ \A k \in Todo : said[k] = 0 /\ thread[k] = "none"
        /\ \A k \in Todo : Total(k) \in Nat
    BY InitTypeOK, TotalIsNat DEF Init
  <2> QED BY <2>1 DEF Said, HeadRests
<1>2. IInv /\ Said /\ HeadRests /\ [Next]_vars => Said' /\ HeadRests'
  BY StepSaid, StepHeadRests DEF IInv
<1> QED BY <1>1, <1>2, EndsWell, PTL DEF Spec, ShownInv

\* When every member's work ends well all of them are built by the end of
\* the loop, and no gate is closed any more.
LEMMA AllBuilt ==
  ASSUME ShownInv, AllWell, pc \in {"flush", "results", "done"}
  PROVE  finished = Todo /\ held = {}
<1>1. finished \subseteq Todo /\ held \subseteq Todo /\ head \in 1..(N + 1)
  BY DEF ShownInv, IInv, TypeOK
<1>2. finished = Todo
  <2>1. running = {}
    BY DEF ShownInv, IInv, Places
  <2>2. waiting = {}
    BY DEF ShownInv, EndInv, Exhausted, AllWell
  <2>3. Todo = waiting \cup running \cup finished
    BY DEF ShownInv, EndInv, Exhausted
  <2> QED BY <2>1, <2>2, <2>3
<1>3. head = N + 1
  BY <1>1, <1>2 DEF ShownInv, HeadRests, Todo
<1>4. held = {}
  BY <1>1, <1>3 DEF ShownInv, IInv, Gates, Todo
<1> QED BY <1>2, <1>4

\* A member of which a line is on the terminal has every earlier member's
\* lines there too, all of them.
LEMMA EarlierAreShown ==
  ASSUME ShownInv, AllWell, NEW i \in 1..Len(screen),
         NEW j \in Todo, j < screen[i][1]
  PROVE  j \notin held /\ said[j] = Total(j)
<1>1. screen[i][1] \in Todo /\ screen[i][1] \notin held
  <2>1. screen[i] \in Line
    BY DEF ShownInv, IInv, TypeOK
  <2>2. screen[i][1] \in Todo
    BY <2>1 DEF Line
  <2> QED BY <2>2 DEF ShownInv, IInv, Buffers
<1>2. pc # "hold"
  <2> SUFFICES ASSUME pc = "hold" PROVE FALSE
    OBVIOUS
  <2>1. screen[i][1] >= next /\ said[screen[i][1]] = 0
    BY <1>1 DEF ShownInv, IInv, Begin, Todo
  <2>2. screen[i][2] \in 1..said[screen[i][1]]
    BY DEF ShownInv, IInv, Buffers
  <2> QED BY <2>1, <2>2
<1>3. CASE pc \in {"setup", "schedule", "receive", "advance"}
  <2>1. head \in Nat /\ \A k \in Todo : k \in Nat /\ k > 0
    BY DEF ShownInv, IInv, TypeOK, Todo
  <2>2. screen[i][1] <= head
    BY <1>1, <1>3, <2>1 DEF ShownInv, IInv, Gates
  <2>3. j \in 1..(head - 1) /\ j <= head
    BY <1>1, <2>1, <2>2
  <2>4. j \in finished /\ j \notin held
    BY <2>3 DEF ShownInv, IInv, Gates
  <2> QED BY <2>4 DEF ShownInv, IInv, Places, Said
<1>4. CASE pc \in {"flush", "results", "done"}
  <2>1. finished = Todo /\ held = {}
    BY <1>4, AllBuilt
  <2> QED BY <2>1 DEF ShownInv, IInv, Places, Said
<1>5. pc \in {"hold", "setup", "schedule", "receive", "advance", "flush", "results", "done"}
  BY DEF ShownInv, IInv, TypeOK
<1> QED BY <1>2, <1>3, <1>4, <1>5

\* With every member well the terminal's lines are in order throughout.
LEMMA ShownInOrder ==
  ASSUME ShownInv, AllWell
  PROVE  AllBefore(screen)
<1>1. CASE pc \notin {"results", "done"}
  BY <1>1 DEF ShownInv, IInv, Lines
<1>2. CASE pc \in {"results", "done"}
  <2>1. \A k \in Todo : thread[k] = "ended"
    BY <1>2, AllBuilt DEF ShownInv, IInv, Places
  <2>2. \A i \in 1..Len(screen) : screen[i][1] \in Todo
    <3>1. \A i \in 1..Len(screen) : screen[i] \in Line
      BY DEF ShownInv, IInv, TypeOK
    <3> QED BY <3>1 DEF Line
  <2>3. \A i \in 1..Len(screen) : Started(screen[i][1])
    BY <2>1, <2>2 DEF Started
  <2> QED BY <2>3 DEF ShownInv, IInv, Lines, RanInBuildOrder, AllBefore
<1> QED BY <1>1, <1>2

\* Whatever is on the terminal is a beginning of the transcript.
LEMMA ShowsABeginning ==
  ASSUME ShownInv, AllWell
  PROVE  /\ Len(screen) \in Nat /\ Len(Sequential!Transcript) \in Nat
         /\ Len(screen) <= Len(Sequential!Transcript)
         /\ screen = SubSeq(Sequential!Transcript, 1, Len(screen))
<1>1. TypeOK /\ screen \in Seq(Line) /\ said \in [Todo -> Nat] /\ Len(screen) \in Nat
  BY DEF ShownInv, IInv, TypeOK
<1>2. PICK t : t = Sequential!Transcript /\ LinesUpTo(t, N)
  BY <1>1, TranscriptIs
<1>3. /\ t \in Seq(Line) /\ AllBefore(t) /\ Len(t) \in Nat
      /\ \A j \in 1..Len(t) : t[j] \in Line /\ t[j][2] \in 1..Total(t[j][1])
      /\ \A k \in Todo : \A m \in 1..Total(k) : \E j \in 1..Len(t) : t[j] = <<k, m>>
  <2>1. t \in Seq(Line) /\ AllBefore(t)
    BY <1>2 DEF LinesUpTo
  <2>2. Len(t) \in Nat /\ \A j \in 1..Len(t) : t[j] \in Line
    BY <2>1
  <2>3. \A j \in 1..Len(t) : t[j][2] \in 1..Total(t[j][1])
    BY <1>2 DEF LinesUpTo
  <2>4. \A k \in Todo : \A m \in 1..Total(k) : \E j \in 1..Len(t) : t[j] = <<k, m>>
    BY <1>2 DEF LinesUpTo, Todo
  <2> QED BY <2>1, <2>2, <2>3, <2>4
<1>4. ASSUME NEW i \in 1..Len(screen)
      PROVE  \E k \in Todo : \E n \in 1..said[k] :
               screen[i] = <<k, n>> /\ k \notin held /\ n \in 1..Total(k)
  <2>1. screen[i] \in Line
    BY <1>1
  <2>2. PICK k \in Todo, n \in Nat : screen[i] = <<k, n>>
    BY <2>1 DEF Line
  <2>3. n \in 1..said[k]
    BY <2>2 DEF ShownInv, IInv, Buffers
  <2>4. k \notin held
    BY <2>2 DEF ShownInv, IInv, Buffers
  <2>5. said[k] <= Total(k) /\ said[k] \in Nat /\ Total(k) \in Nat
    BY <1>1, TotalIsNat DEF ShownInv, Said
  <2> QED BY <2>2, <2>3, <2>4, <2>5
<1>5. \A i \in 1..Len(screen) : \E j \in 1..Len(t) : screen[i] = t[j]
  BY <1>3, <1>4
<1>6. ASSUME NEW i \in 1..Len(screen), NEW j \in 1..Len(t), Before(t[j], screen[i])
      PROVE  \E m \in 1..Len(screen) : screen[m] = t[j]
  <2>1. PICK k \in Todo, n \in Nat :
          screen[i] = <<k, n>> /\ k \notin held /\ n \in 1..said[k]
    BY <1>1, <1>4
  <2>2. PICK l \in Todo, m \in Nat : t[j] = <<l, m>> /\ m \in 1..Total(l)
    BY <1>3 DEF Line
  <2>3. l < k \/ (l = k /\ m < n)
    BY <1>6, <2>1, <2>2 DEF Before
  <2>4. l \notin held /\ m \in 1..said[l]
    <3>1. CASE l < k
      <4>1. l < screen[i][1]
        BY <2>1, <3>1
      <4>2. l \notin held /\ said[l] = Total(l)
        BY <4>1, EarlierAreShown
      <4> QED BY <2>2, <4>2
    <3>2. CASE l = k /\ m < n
      <4>1. said[k] \in Nat /\ m >= 1
        BY <1>1, <2>2
      <4> QED BY <2>1, <3>2, <4>1
    <3> QED BY <2>3, <3>1, <3>2
  <2> QED BY <2>2, <2>4 DEF ShownInv, EndInv, Displayed
<1>7. \A i \in 1..Len(screen) : i <= Len(t) /\ screen[i] = t[i]
  BY <1>1, <1>3, <1>5, <1>6, ShownInOrder, Beginning
<1>8. Len(screen) <= Len(t)
  BY <1>1, <1>3, <1>7
<1>9. screen = SubSeq(t, 1, Len(screen))
  <2>1. /\ SubSeq(t, 1, Len(screen)) \in Seq(Line)
        /\ Len(SubSeq(t, 1, Len(screen))) = Len(screen)
        /\ \A i \in 1..Len(screen) : SubSeq(t, 1, Len(screen))[i] = t[i]
    BY <1>1, <1>3, <1>8
  <2>2. PICK u \in Seq(Line) : u = SubSeq(t, 1, Len(screen))
    BY <2>1
  <2>3. Len(u) = Len(screen) /\ \A i \in 1..Len(screen) : u[i] = screen[i]
    BY <1>7, <2>1, <2>2
  <2>4. u = screen
    BY <1>1, <2>3
  <2> QED BY <2>2, <2>4
<1> QED BY <1>1, <1>2, <1>3, <1>8, <1>9

\* No step takes a line off the terminal.
LEMMA ScreenGrows ==
  ASSUME IInv, [Next]_vars
  PROVE  Len(screen) \in Nat /\ Len(screen') \in Nat /\ Len(screen) <= Len(screen')
<1> USE DEF chosen, schedule, speech, output
<1>0. /\ TypeOK /\ Buffers /\ screen \in Seq(Line) /\ said \in [Todo -> Nat]
      /\ Len(screen) \in Nat
  BY DEF IInv, TypeOK
<1>1. ASSUME NEW t \in Seq(Line), screen' = screen \o t PROVE Len(screen) <= Len(screen')
  BY <1>0, <1>1, Concat
<1>2. ASSUME NEW k \in Todo, Release(k) PROVE Len(screen) <= Len(screen')
  BY <1>0, <1>1, <1>2, ReleaseMoves
<1>3. ASSUME NEW k \in Todo, WriteLine(k) PROVE Len(screen) <= Len(screen')
  <2>1. <<k, said[k] + 1>> \in Line
    BY <1>0 DEF Line
  <2> QED BY <1>0, <1>3, <2>1 DEF WriteLine
<1>4. CASE SetUp
  <2>1. next \in Todo
    BY <1>0, <1>4 DEF SetUp, TypeOK, Todo
  <2>2. work[next].setup \in Nat
    BY <1>0, <2>1, SaysNat
  <2>3. PICK t \in Seq(Line) : t = [i \in 1..work[next].setup |-> <<next, i>>]
    BY <2>1, <2>2, FirstLines
  <2>4. screen' = screen \/ screen' = screen \o t
    BY <1>4, <2>3 DEF SetUp
  <2> QED BY <1>0, <1>1, <2>4
<1>5. CASE Advance
  <2>1. CASE head \in finished /\ head < N
    <3>1. head + 1 \in Todo /\ Release(head + 1)
      BY <1>0, <1>5, <2>1 DEF Advance, TypeOK, Todo
    <3> QED BY <1>2, <3>1
  <2>2. CASE ~(head \in finished /\ head < N)
    BY <1>0, <1>5, <2>2 DEF Advance
  <2> QED BY <2>1, <2>2
<1>6. CASE Flush
  <2>1. CASE next \in finished
    BY <1>0, <1>2, <1>6, <2>1 DEF Flush, TypeOK
  <2>2. CASE next \notin finished
    BY <1>0, <1>6, <2>2 DEF Flush
  <2> QED BY <2>1, <2>2
<1>7. CASE Collect
  <2>1. CASE next \in finished
    BY <1>0, <1>7, <2>1 DEF Collect
  <2>2. CASE next \notin finished
    <3>1. next \in Todo /\ Release(next)
      BY <1>0, <1>7, <2>2 DEF Collect, TypeOK, Todo
    <3> QED BY <1>2, <3>1
  <2> QED BY <2>1, <2>2
<1>8. CASE screen' = screen
  BY <1>0, <1>8
<1>9. Len(screen) <= Len(screen')
  BY <1>3, <1>4, <1>5, <1>6, <1>7, <1>8
     DEF Next, Main, Member, Returned, TakeGate, Send, Hold, Start, Settle, Receive, vars
<1>10. Len(screen') \in Nat
  <2>1. TypeOK'
    BY StepTypeOK DEF IInv
  <2> QED BY <2>1 DEF TypeOK
<1> QED BY <1>0, <1>9, <1>10

\* The transcript is settled when the command begins.
LEMMA SameTranscript ==
  ASSUME work' = work
  PROVE  Sequential!Transcript' = Sequential!Transcript
<1> DEFINE scripts == [k \in Todo |-> Script(k)]
           inOrder == [k \in 1..N |-> scripts[k]]
<1>1. scripts' = scripts
  BY DEF Script, AllWell
<1>2. inOrder' = inOrder
  BY <1>1
<1>3. Sequential!FlattenSeq(inOrder)' = Sequential!FlattenSeq(inOrder)
  <2>1. Sequential!FlattenSeq(inOrder)' = Sequential!FlattenSeq(inOrder')
    OBVIOUS
  <2> HIDE DEF inOrder
  <2> QED BY <1>2, <2>1
<1>4. Sequential!Transcript' = Sequential!FlattenSeq(inOrder)'
  BY DEF Sequential!Transcript
<1> QED BY <1>3, <1>4 DEF Sequential!Transcript

\* What a step maps to: some more of the transcript on the terminal, or
\* nothing.
LEMMA StepExtends ==
  ASSUME ShownInv, ShownInv', [Next]_vars
  PROVE  [Sequential!Extend]_(Sequential!logVars)
<1>1. work' = work
  BY DEF Next, Main, Member, Returned, vars, chosen, TakeGate, WriteLine, Send, Hold,
         SetUp, Start, Settle, Receive, Advance, Flush, Collect
<1>2. (AllWell <=> AllWell') /\ [k \in Todo |-> Script(k)]' = [k \in Todo |-> Script(k)]
  BY <1>1 DEF AllWell, Script
<1>3. CASE ~AllWell
  BY <1>2, <1>3 DEF Sequential!logVars
<1>4. CASE AllWell
  <2>1. PICK t : t = Sequential!Transcript
    OBVIOUS
  <2>2. Sequential!Transcript' = t
    BY <1>1, <2>1, SameTranscript
  <2>3. Len(screen) \in Nat /\ Len(t) \in Nat
    BY <1>4, <2>1, ShowsABeginning
  <2>4. screen = SubSeq(t, 1, Len(screen))
    BY <1>4, <2>1, ShowsABeginning
  <2>5. (ShownInv /\ AllWell =>
           /\ Len(screen) <= Len(Sequential!Transcript)
           /\ screen = SubSeq(Sequential!Transcript, 1, Len(screen)))'
    BY ShowsABeginning, PTL
  <2>6. Len(screen') <= Len(t)
    BY <1>2, <1>4, <2>2, <2>5
  <2>7. screen' = SubSeq(t, 1, Len(screen'))
    BY <1>2, <1>4, <2>2, <2>5
  <2>8. Len(screen') \in Nat /\ Len(screen) <= Len(screen')
    BY ScreenGrows DEF ShownInv
  <2>9. CASE Len(screen') = Len(screen)
    <3>1. screen' = screen
      BY <2>9, <2>4, <2>7
    <3> QED BY <1>2, <1>4, <3>1 DEF Sequential!logVars
  <2>10. CASE Len(screen') # Len(screen)
    <3>1. PICK old \in Nat, new \in Nat, all \in Nat :
            old = Len(screen) /\ new = Len(screen') /\ all = Len(t)
      BY <2>3, <2>8
    <3>2. old <= new /\ new # old /\ new <= all
      BY <2>6, <2>8, <2>10, <3>1
    <3>3. new \in (old + 1)..all
      BY <3>2
    <3>4. Len(screen') \in (Len(screen) + 1)..Len(t)
      BY <3>1, <3>3
    <3> QED BY <1>2, <1>4, <2>1, <2>4, <2>7, <3>4 DEF Sequential!Extend
  <2> QED BY <2>9, <2>10
<1> QED BY <1>3, <1>4

\* The safety half of AsOneAfterTheOther: when every member's work ends well
\* each step of a command puts some more of the transcript of `--jobs 1` on
\* the terminal, in its order, or nothing.
THEOREM ShowsTheTranscript ==
  Spec => Sequential!LogInit /\ [][Sequential!Extend]_(Sequential!logVars)
<1>1. Init => Sequential!LogInit
  BY DEF Init, Sequential!LogInit
<1>2. ShownInv /\ ShownInv' /\ [Next]_vars => [Sequential!Extend]_(Sequential!logVars)
  BY StepExtends
<1> QED BY <1>1, <1>2, ShownInvariance, PTL DEF Spec
=============================================================================
