------------------------------- MODULE Members -------------------------------
(***************************************************************************)
(* A workspace command run over its members at once: Driver::at_once_until *)
(* (cli/members.rs) and the gates of Ui::deferred (ui/mod.rs).             *)
(*                                                                         *)
(* The main thread closes the gate of every member but the first, prepares *)
(* each member's session, then starts up to Jobs members on threads of     *)
(* their own, each as soon as its upstream members are done.  A member's   *)
(* thread says its lines through its own Ui: a closed gate holds them in a *)
(* buffer, an open one writes them to the terminal.  The main thread       *)
(* receives the results in the order they are sent and releases the gates  *)
(* in build order.                                                         *)
(*                                                                         *)
(* Members are numbered 1 .. N in build order.  What a member will say and *)
(* how its work ends is chosen in Init (`work`), and so is the graph: the  *)
(* schedule cannot depend on either before it happens.                     *)
(***************************************************************************)
EXTENDS Naturals, Sequences, FiniteSets, FiniteSetsExt

CONSTANTS N,        \* how many members the command runs over (todo)
          Jobs,     \* parallel_jobs()
          Graphs,   \* the upstream functions to consider
          Works     \* what a member may say and come to, to consider

Todo == 1..N

\* How a member's work ends: well, well but with a result `stop` holds for
\* (a failing suite under --fail-fast), or with an error.
Endings == {"ok", "stop", "err"}

ASSUME NAssumption == N \in Nat \ {0, 1}      \* one member runs in place
ASSUME JobsAssumption == Jobs \in Nat \ {0, 1} \* one job is the plain loop
\* Members are in build order: what one depends on comes before it.
ASSUME GraphsAssumption ==
  \A g \in Graphs : /\ g \in [Todo -> SUBSET Todo]
                    /\ \A k \in Todo : g[k] \subseteq 1..(k - 1)
\* setup: the lines the main thread says through the member's Ui while it
\* finds the member's JDK; lines: those its work says.
ASSUME WorksAssumption ==
  \A w \in Works : /\ w.setup \in Nat /\ w.lines \in Nat
                   /\ w.ending \in Endings

VARIABLES
  work,      \* work[k]: what member k says and comes to (chosen in Init)
  upstream,  \* upstream[k]: the members k waits for (chosen in Init)
  pc,        \* where the main thread is
  next,      \* the member its present loop is at
  waiting,   \* sessions not handed to a thread yet
  running,   \* members started whose result the main thread has not received
  channel,   \* results sent and not received, oldest first
  finished,  \* members whose result the main thread has received
  failed,    \* the loop's flag: start nothing more
  head,      \* the earliest member in build order not received
  said,      \* said[k]: how many lines member k has said
  thread,    \* what member k's thread is doing
  gateLock,  \* gates whose lock member k's thread holds
  held,      \* members whose gate is closed
  buffer,    \* buffer[k]: the lines held back behind it
  screen,    \* the terminal
  verdict    \* the first error in build order, 0 while there is none

schedule == <<pc, next, waiting, running, finished, failed, head, verdict>>
speech == <<said, thread, gateLock>>
output == <<held, buffer, screen>>
chosen == <<work, upstream>>
vars == <<chosen, schedule, channel, speech, output>>

Line == Todo \X Nat

Init ==
  /\ work \in [Todo -> Works]
  /\ upstream \in Graphs
  /\ pc = "hold" /\ next = 1
  /\ waiting = {} /\ running = {} /\ finished = {}
  /\ channel = <<>>
  /\ failed = FALSE /\ head = 1 /\ verdict = 0
  /\ said = [k \in Todo |-> 0]
  /\ thread = [k \in Todo |-> "none"]
  /\ gateLock = {}
  /\ held = {}
  /\ buffer = [k \in Todo |-> <<>>]
  /\ screen = <<>>

-----------------------------------------------------------------------------
(* ui/mod.rs: the gate of a deferred Ui.                                   *)

\* Ui::release: with the gate's lock and the renderer's, replay what the
\* gate held and open it; an open gate stays as it is.
Release(k) ==
  /\ k \notin gateLock
  /\ IF k \in held THEN /\ held' = held \ {k}
                     /\ buffer' = [buffer EXCEPT ![k] = <<>>]
                     /\ screen' = screen \o buffer[k]
                ELSE UNCHANGED output

\* Mutant of TakeGate: the gate is looked at without keeping its lock.
TakeGateUnlocked(k) ==
  /\ thread[k] = "working"
  /\ said[k] < work[k].setup + work[k].lines
  /\ thread' = [thread EXCEPT ![k] = IF k \in held THEN "holding" ELSE "writing"]
  /\ UNCHANGED <<chosen, schedule, channel, gateLock, said, output>>

\* Member k's thread takes its gate's lock to write a line, and finds the
\* gate closed or open.
TakeGate(k) ==
  /\ thread[k] = "working"
  /\ said[k] < work[k].setup + work[k].lines
  /\ k \notin gateLock
  /\ gateLock' = gateLock \cup {k}
  /\ thread' = [thread EXCEPT ![k] = IF k \in held THEN "holding" ELSE "writing"]
  /\ UNCHANGED <<chosen, schedule, channel, said, output>>

\* The line is kept behind the gate, or written; either way with the lock
\* held, which is dropped with it.
WriteLine(k) ==
  /\ thread[k] \in {"holding", "writing"}
  /\ LET line == <<k, said[k] + 1>> IN
       IF thread[k] = "holding"
       THEN /\ buffer' = [buffer EXCEPT ![k] = Append(@, line)]
            /\ UNCHANGED <<held, screen>>
       ELSE /\ screen' = Append(screen, line)
            /\ UNCHANGED <<held, buffer>>
  /\ said' = [said EXCEPT ![k] = @ + 1]
  /\ thread' = [thread EXCEPT ![k] = "working"]
  /\ gateLock' = gateLock \ {k}
  /\ UNCHANGED <<chosen, schedule, channel>>

\* The work is over: the thread sends its result and its session, and ends.
Send(k) ==
  /\ thread[k] = "working"
  /\ said[k] = work[k].setup + work[k].lines
  /\ thread' = [thread EXCEPT ![k] = "ended"]
  /\ channel' = Append(channel, k)
  /\ UNCHANGED <<chosen, schedule, said, gateLock, output>>

Member(k) == TakeGate(k) \/ WriteLine(k) \/ Send(k)
-----------------------------------------------------------------------------
(* cli/members.rs: the main thread in at_once_until.                       *)

\* Mutant of Hold: as many members as may run write straight through.
HoldAfterJobs ==
  /\ pc = "hold"
  /\ held' = {k \in Todo : k > Jobs}
  /\ pc' = "setup" /\ next' = 1
  /\ UNCHANGED <<chosen, waiting, running, finished, failed, head, verdict,
                 channel, speech, buffer, screen>>

\* Every member but the first in build order holds its lines back.
Hold ==
  /\ pc = "hold"
  /\ held' = Todo \ {1}
  /\ pc' = "setup" /\ next' = 1
  /\ UNCHANGED <<chosen, waiting, running, finished, failed, head, verdict,
                 channel, speech, buffer, screen>>

\* Member `next` gets its session, and its JDK is found: what that says goes
\* through the member's own gate.
SetUp ==
  LET k == next
      lines == [i \in 1..work[k].setup |-> <<k, i>>] IN
  /\ pc = "setup" /\ next <= N
  /\ IF k \in held THEN /\ buffer' = [buffer EXCEPT ![k] = @ \o lines]
                     /\ UNCHANGED <<held, screen>>
                ELSE /\ screen' = screen \o lines
                     /\ UNCHANGED <<held, buffer>>
  /\ said' = [said EXCEPT ![k] = work[k].setup]
  /\ waiting' = waiting \cup {k}
  /\ next' = next + 1
  /\ pc' = IF next = N THEN "schedule" ELSE "setup"
  /\ UNCHANGED <<chosen, running, finished, failed, head, verdict,
                 channel, thread, gateLock>>

\* remaining_paths: how many members lie on the longest path from each,
\* itself included, to a member nothing waits for.
Remaining ==
  LET paths[k \in Todo] ==
        LET after == {d \in Todo : k \in upstream[d]} IN
        IF after = {} THEN 1 ELSE 1 + Max({paths[d] : d \in after})
  IN  paths

\* Mutant of Ready: a member whose upstream members have started is ready.
ReadyOnceStarted == {k \in waiting : upstream[k] \cap waiting = {}}

\* The waiting members whose upstream members are done, and well.
Ready == {k \in waiting :
            \A u \in upstream[k] : u \in finished /\ work[u].ending # "err"}

\* The ready member the loop takes: the one with the longest path after it,
\* the earlier one of two.
First(k) == /\ k \in Ready
            /\ \A j \in Ready : \/ Remaining[k] > Remaining[j]
                              \/ (Remaining[k] = Remaining[j] /\ k <= j)

CanStart == ~failed /\ Cardinality(running) < Jobs /\ Ready # {}

Start(k) ==
  /\ pc = "schedule" /\ CanStart
  /\ First(k)
  /\ waiting' = waiting \ {k}
  /\ running' = running \cup {k}
  /\ thread' = [thread EXCEPT ![k] = "working"]
  /\ UNCHANGED <<chosen, pc, next, finished, failed, head, verdict,
                 channel, said, gateLock, output>>

\* Mutant of Settle: with nothing running the loop goes round again.
SettleForever ==
  /\ pc = "schedule" /\ ~CanStart
  /\ pc' = IF running = {} THEN "schedule" ELSE "receive"
  /\ next' = 1
  /\ UNCHANGED <<chosen, waiting, running, finished, failed, head, verdict,
                 channel, speech, output>>

\* Nothing more can start: wait for a result, or leave the loop when no
\* member runs.
Settle ==
  /\ pc = "schedule" /\ ~CanStart
  /\ pc' = IF running = {} THEN "flush" ELSE "receive"
  /\ next' = 1
  /\ UNCHANGED <<chosen, waiting, running, finished, failed, head, verdict,
                 channel, speech, output>>

Receive ==
  /\ pc = "receive" /\ channel # <<>>
  /\ LET k == Head(channel) IN
       /\ running' = running \ {k}
       /\ finished' = finished \cup {k}
       /\ failed' = (failed \/ work[k].ending # "ok")
  /\ channel' = Tail(channel)
  /\ pc' = "advance"
  /\ UNCHANGED <<chosen, next, waiting, head, verdict, speech, output>>

\* While the head is done the head moves on, and the gate of the member it
\* comes to is released.
Advance ==
  /\ pc = "advance"
  /\ IF head \in finished
     THEN /\ head' = head + 1
          /\ IF head < N THEN Release(head + 1) ELSE UNCHANGED output
          /\ UNCHANGED pc
     ELSE /\ pc' = "schedule"
          /\ UNCHANGED <<head, output>>
  /\ UNCHANGED <<chosen, next, waiting, running, finished, failed, verdict,
                 channel, speech>>

\* Mutant of Flush: the gates are released from the last member back.
FlushBackwards ==
  /\ pc = "flush"
  /\ IF (N + 1 - next) \in finished THEN Release(N + 1 - next)
                                   ELSE UNCHANGED output
  /\ IF next < N THEN next' = next + 1 /\ UNCHANGED pc
                 ELSE next' = 1 /\ pc' = "results"
  /\ UNCHANGED <<chosen, waiting, running, finished, failed, head, verdict,
                 channel, speech>>

\* After the loop whatever finished comes out too, in build order.
Flush ==
  /\ pc = "flush"
  /\ IF next \in finished THEN Release(next) ELSE UNCHANGED output
  /\ IF next < N THEN next' = next + 1 /\ UNCHANGED pc
                 ELSE next' = 1 /\ pc' = "results"
  /\ UNCHANGED <<chosen, waiting, running, finished, failed, head, verdict,
                 channel, speech>>

\* Mutant of Collect: the last error in build order is kept.
CollectLastError ==
  /\ pc = "results" /\ next <= N
  /\ IF next \in finished
     THEN /\ verdict' = IF work[next].ending = "err" THEN next ELSE verdict
          /\ UNCHANGED output
     ELSE Release(next) /\ UNCHANGED verdict
  /\ IF next < N THEN next' = next + 1 /\ UNCHANGED pc
                 ELSE next' = 1 /\ pc' = "done"
  /\ UNCHANGED <<chosen, waiting, running, finished, failed, head,
                 channel, speech>>

\* The results in build order: the first error is the command's; a member
\* that never started has its gate opened for whatever runs next.
Collect ==
  /\ pc = "results" /\ next <= N
  /\ IF next \in finished
     THEN /\ verdict' = IF verdict = 0 /\ work[next].ending = "err"
                        THEN next ELSE verdict
          /\ UNCHANGED output
     ELSE Release(next) /\ UNCHANGED verdict
  /\ IF next < N THEN next' = next + 1 /\ UNCHANGED pc
                 ELSE next' = 1 /\ pc' = "done"
  /\ UNCHANGED <<chosen, waiting, running, finished, failed, head,
                 channel, speech>>

Main == \/ Hold \/ SetUp \/ Settle \/ Receive \/ Advance \/ Flush \/ Collect
        \/ \E k \in Todo : Start(k)

Returned == pc = "done" /\ UNCHANGED vars

Next == Main \/ Returned \/ \E k \in Todo : Member(k)

\* The main thread and every member's thread are scheduled by the operating
\* system, and neither waits for anything but a lock or a result.
Fairness == WF_vars(Main) /\ \A k \in Todo : WF_vars(Member(k))

Spec == Init /\ [][Next]_vars /\ Fairness

-----------------------------------------------------------------------------
(* Correctness.                                                            *)

TypeOK ==
  /\ work \in [Todo -> Works] /\ upstream \in Graphs
  /\ pc \in {"hold", "setup", "schedule", "receive", "advance", "flush",
             "results", "done"}
  /\ next \in 1..(N + 1) /\ head \in 1..(N + 1) /\ verdict \in 0..N
  /\ waiting \subseteq Todo /\ running \subseteq Todo /\ finished \subseteq Todo
  /\ failed \in BOOLEAN
  /\ channel \in Seq(Todo)
  /\ said \in [Todo -> Nat]
  /\ thread \in [Todo -> {"none", "working", "holding", "writing", "ended"}]
  /\ gateLock \subseteq Todo
  /\ held \subseteq Todo
  /\ buffer \in [Todo -> Seq(Line)]
  /\ screen \in Seq(Line)

Started(k) == thread[k] # "none"
AtWork(k) == thread[k] \in {"working", "holding", "writing"}

\* A member works only once every member it depends on is done, and well
\* (at_once: "each as soon as its upstream members' work is done").
UpstreamFirst ==
  \A k \in Todo : Started(k) =>
    \A u \in upstream[k] : thread[u] = "ended" /\ work[u].ending # "err"

\* Never more than Jobs members' threads at work.
AtMostJobs == Cardinality({k \in Todo : AtWork(k)}) <= Jobs

\* At any moment one member at most can write to the terminal: the gates of
\* all members at work are closed but the earliest's, so that no two
\* members' lines mix.
OneVoice ==
  \A j, k \in Todo : AtWork(j) /\ j \notin held /\ AtWork(k) /\ k \notin held => j = k

\* Line a stands before line b in the transcript of one member after another.
Before(a, b) == a[1] < b[1] \/ (a[1] = b[1] /\ a[2] < b[2])

\* The lines of the members that ran stand on the terminal in build order,
\* each member's in the order it said them.
RanInBuildOrder ==
  \A i, j \in 1..Len(screen) :
    (i < j /\ Started(screen[i][1]) /\ Started(screen[j][1])) =>
      Before(screen[i], screen[j])

\* Nothing that ran is hidden, and nothing is said twice: once the command
\* is over every line a member said is on the terminal, exactly once, and
\* no gate is left closed for whatever runs next.
NothingHidden ==
  pc = "done" =>
    /\ \A k \in Todo, n \in 1..2 * N :
         Cardinality({i \in 1..Len(screen) : screen[i] = <<k, n>>})
           = (IF n <= said[k] THEN 1 ELSE 0)
    /\ held = {} /\ \A k \in Todo : buffer[k] = <<>>

\* The command fails with the error of the first member in build order that
\* failed, whichever failed first in time; and it succeeds only when every
\* member was built or a result asked to stop.
FirstErrorWins ==
  pc = "done" =>
    LET errs == {k \in Todo : thread[k] = "ended" /\ work[k].ending = "err"} IN
    /\ IF errs = {} THEN verdict = 0 ELSE verdict = Min(errs)
    /\ (\A k \in Todo : work[k].ending = "ok") => finished = Todo

\* Once the main thread has received a failure no other member starts.
NoStartAfterFailure ==
  [][failed => \A k \in Todo : thread[k] = "none" => thread'[k] = "none"]_vars

\* Every command comes to an end, and every member it started does too.
Terminates == <>(pc = "done" /\ \A k \in Todo : thread[k] \in {"none", "ended"})

\* When every member's work ends well the terminal shows what building one
\* member after the other shows: Members implements BuildLog (cli/members.rs:
\* "the transcript is line for line the one `--jobs 1` prints").  A command
\* one of whose members ends otherwise promises no transcript.
AllWell == \A k \in Todo : work[k].ending = "ok"
Script(k) == IF AllWell THEN [i \in 1..(work[k].setup + work[k].lines) |-> <<k, i>>]
                        ELSE <<>>
Sequential == INSTANCE BuildLog WITH
  Members <- N, shown <- IF AllWell THEN screen ELSE <<>>,
  script <- [k \in Todo |-> Script(k)]
AsOneAfterTheOther == Sequential!LogSpec
=============================================================================
