----------------------------- MODULE TasksProofs ------------------------------
(***************************************************************************)
(* A restored task never costs the user what they wrote, whatever the      *)
(* graph of the tasks, and whatever is changed, killed, failed or cleaned. *)
(* What the user writes at one moment is unlike anything written before    *)
(* (Aged), so the record of a task's outputs never names it (Edited), and  *)
(* a restore is not begun while there is any of it (Spared).               *)
(*                                                                         *)
(* And each task of a command runs once, after what it depends on.  A plan *)
(* is in that order (PlanIsOrdered), by the number of nodes a node reaches *)
(* in a graph without a cycle; and so is what a command has still to do    *)
(* (Agenda), as its steps give way to those they open.                     *)
(*                                                                         *)
(* And what a command leaves is what a run of all its tasks would.  Inputs *)
(* with the times of a fingerprint hold what they held (Tally), so a fresh *)
(* task's output is of what it would read now (Printed, Current), and a    *)
(* restored one's is (Stored, Restorable); and since no task that is over  *)
(* reads the one at work, it stays so up to the end (OverInv, EndInv).     *)
(***************************************************************************)
EXTENDS Tasks, FiniteSetTheorems, WellFoundedInduction, TLAPS

\* What a command is: fields, and at which of its steps it is at a task.
JobFields == {"at", "extra", "named", "ran", "done", "todo", "over", "task", "print",
              "key", "read", "entry", "rest"}
AtATask == {"prepare", "key", "unsay", "remove", "write", "run", "running", "book"}

Shape ==
  /\ clock \in Nat
  /\ DOMAIN out = Tasks /\ DOMAIN record = Tasks /\ DOMAIN edits = Tasks
  /\ job.at \in AtATask \cup {"idle", "step"}
  /\ job.at # "idle" => DOMAIN job = JobFields
  /\ job.at \in AtATask => job.task \in Tasks

\* What the user wrote, v has it from no later moment than now.
Old(v, now) == \A n \in Nat : v = <<"user", n>> => n <= now
AllOld(held, now) == \A f \in DOMAIN held : Old(held[f], now)

Aged ==
  /\ \A t \in Tasks : \A f \in DOMAIN out[t] : Old(out[t][f].is, clock)
  /\ \A t \in Tasks : AllOld(record[t], clock)
  /\ \A key \in DOMAIN entries : AllOld(entries[key], clock)
  /\ job.at # "idle" => AllOld(job.entry, clock)

\* The user's files are where they put them, and not in the record.
Edited ==
  \A t \in Tasks :
    /\ edits[t] \subseteq DOMAIN out[t] /\ (t \in InTarget => edits[t] = {})
    /\ \A f \in edits[t] : f \in DOMAIN record[t] => record[t][f] # out[t][f].is

Spared == job.at \in {"unsay", "remove", "write", "book"} => edits[job.task] = {}

IInv == Shape /\ Aged /\ Edited /\ Spared

-----------------------------------------------------------------------------
(* What changes hands.                                                     *)

LEMMA InitIInv == Init => IInv
<1> SUFFICES ASSUME Init PROVE IInv
  OBVIOUS
<1>1. /\ clock = 0 /\ job = [at |-> "idle"] /\ entries = <<>>
      /\ out = [t \in Tasks |-> <<>>] /\ record = out /\ edits = [t \in Tasks |-> {}]
  BY DEF Init, NoJob, Nothing
<1>2. Shape /\ Spared
  BY <1>1 DEF Shape, Spared, AtATask
<1>3. Aged
  BY <1>1 DEF Aged, AllOld
<1>4. Edited
  BY <1>1 DEF Edited
<1> QED BY <1>2, <1>3, <1>4 DEF IInv

LEMMA OldLater ==
  ASSUME NEW v, NEW now \in Nat, Old(v, now)
  PROVE  Old(v, now + 1)
BY DEF Old

LEMMA AllOldLater ==
  ASSUME NEW held, NEW now \in Nat, AllOld(held, now)
  PROVE  AllOld(held, now + 1)
BY OldLater DEF AllOld

\* A step of a command that writes nothing.
LEMMA Aside ==
  ASSUME IInv, UNCHANGED <<out, record, entries, clock, edits>>,
         job'.at \in AtATask \cup {"idle", "step"},
         job'.at # "idle" => DOMAIN job' = JobFields /\ AllOld(job'.entry, clock),
         job'.at \in AtATask => job'.task \in Tasks,
         job'.at \in {"unsay", "remove", "write", "book"} => edits[job'.task] = {}
  PROVE  IInv'
<1>1. Shape'
  BY DEF IInv, Shape
<1>2. Aged'
  <2>1. Aged
    BY DEF IInv
  <2> QED BY <2>1 DEF Aged
<1>3. Edited' /\ Spared'
  BY DEF IInv, Edited, Spared
<1> QED BY <1>1, <1>2, <1>3 DEF IInv

\* A task's process writes its file, and what the user wrote there is over.
LEMMA WritesOwn ==
  ASSUME IInv, job.at = "running", NEW what, Writes(what),
         \A n \in Nat : what # <<"user", n>>,
         entries' = entries, record' \in {record, [record EXCEPT ![job.task] = <<>>]},
         job'.at \in {"idle", "book"},
         job'.at = "book" => job' = [job EXCEPT !.at = "book"]
  PROVE  IInv'
<1> DEFINE t == job.task
<1> DEFINE new == [is |-> what, time |-> clock']
<1>1. /\ clock \in Nat /\ clock' = clock + 1 /\ t \in Tasks
      /\ DOMAIN out = Tasks /\ DOMAIN record = Tasks /\ DOMAIN edits = Tasks
  BY DEF IInv, Shape, AtATask, Writes
<1>2. /\ DOMAIN out' = Tasks /\ DOMAIN record' = Tasks /\ DOMAIN edits' = Tasks
      /\ edits'[t] = {} /\ \A u \in Tasks \ {t} : edits'[u] = edits[u] /\ out'[u] = out[u]
      /\ out'[t] = Put(out[t], "own", new)
  BY <1>1 DEF Writes, T
<1>3. /\ DOMAIN out'[t] = {"own"} \cup DOMAIN out[t] /\ out'[t]["own"] = new
      /\ \A f \in DOMAIN out[t] \ {"own"} : out'[t][f] = out[t][f]
  BY <1>2 DEF Put
<1>4. \A u \in Tasks : record'[u] = record[u] \/ record'[u] = <<>>
  BY <1>1
<1>5. job'.at = "book" => DOMAIN job' = JobFields /\ job'.entry = job.entry /\ job'.task = t
  BY DEF IInv, Shape, JobFields
<1>6. Shape'
  BY <1>1, <1>2, <1>5 DEF Shape, AtATask
<1>7. Aged'
  <2>1. \A u \in Tasks : \A f \in DOMAIN out'[u] : Old(out'[u][f].is, clock')
    <3>1. \A u \in Tasks : \A f \in DOMAIN out[u] : Old(out[u][f].is, clock')
      BY <1>1, OldLater DEF IInv, Aged
    <3>2. Old(new.is, clock')
      BY DEF Old
    <3> QED BY <1>1, <1>2, <1>3, <3>1, <3>2
  <2>2. \A u \in Tasks : AllOld(record'[u], clock')
    <3>1. \A u \in Tasks : AllOld(record[u], clock')
      BY <1>1, AllOldLater DEF IInv, Aged
    <3>2. AllOld(<<>>, clock')
      BY DEF AllOld
    <3> QED BY <1>4, <3>1, <3>2
  <2>3. \A key \in DOMAIN entries : AllOld(entries[key], clock')
    BY <1>1, AllOldLater DEF IInv, Aged
  <2>4. job'.at # "idle" => AllOld(job'.entry, clock')
    BY <1>1, <1>5, AllOldLater DEF IInv, Aged
  <2> QED BY <2>1, <2>2, <2>3, <2>4 DEF Aged
<1>8. Edited'
  BY <1>1, <1>2, <1>3, <1>4 DEF IInv, Edited
<1>9. Spared'
  BY <1>2, <1>5 DEF Spared
<1> QED BY <1>6, <1>7, <1>8, <1>9 DEF IInv

\* The commands, up to where one of their tasks writes.
LEMMA Quiet ==
  ASSUME IInv,
         \/ Command \/ Step \/ Open \/ Finish \/ Prepare \/ Run \/ Imprint \/ Booked
         \/ UNCHANGED vars
  PROVE  IInv'
<1> USE DEF tree, files, user, At, Goes, T
<1>1. Shape /\ Aged
  BY DEF IInv
<1>2. CASE Command
  <2>1. /\ UNCHANGED <<out, record, entries, clock, edits>>
        /\ job'.at = "step" /\ job'.entry = <<>> /\ DOMAIN job' = JobFields
    BY <1>2 DEF Command, JobFields, Nothing
  <2>2. AllOld(<<>>, clock)
    BY DEF AllOld
  <2> QED BY <2>1, <2>2, Aside DEF AtATask
<1>3. CASE Step
  <2>1. /\ UNCHANGED <<out, record, entries, clock, edits>> /\ job.at = "step"
        /\ \/ job' = [job EXCEPT !.todo = Pop]
           \/ /\ Item \in Tasks
              /\ job' = [job EXCEPT !.ran = @ \cup {Item}, !.task = Item, !.at = "prepare",
                                    !.todo = Pop]
           \/ job' = [job EXCEPT !.done = @ \cup {Item}, !.todo = Work(Item) \o Pop]
    BY <1>3 DEF Step, Todo
  <2>2. DOMAIN job = JobFields /\ AllOld(job.entry, clock)
    BY <1>1, <2>1 DEF Shape, Aged
  <2> HIDE DEF T
  <2>3. /\ DOMAIN job' = JobFields /\ job'.entry = job.entry
        /\ job'.at = "step" \/ (job'.at = "prepare" /\ job'.task \in Tasks)
    BY <2>1, <2>2 DEF JobFields
  <2> QED BY <2>1, <2>2, <2>3, Aside DEF AtATask
<1>4. CASE Open
  <2>1. /\ UNCHANGED <<out, record, entries, clock, edits>> /\ job.at = "step"
        /\ \/ \E next : job' = [job EXCEPT !.todo = next]
           \/ \E next, over : job' = [job EXCEPT !.todo = next, !.over = over]
    BY <1>4 DEF Open, Todo
  <2>2. DOMAIN job = JobFields /\ AllOld(job.entry, clock)
    BY <1>1, <2>1 DEF Shape, Aged
  <2>3. DOMAIN job' = JobFields /\ job'.entry = job.entry /\ job'.at = "step"
    BY <2>1, <2>2 DEF JobFields
  <2> QED BY <2>1, <2>2, <2>3, Aside DEF AtATask
<1>5. CASE Finish
  <2>1. UNCHANGED <<out, record, entries, clock, edits>> /\ job'.at = "idle"
    BY <1>5 DEF Finish, End, NoJob
  <2> QED BY <2>1, Aside DEF AtATask
<1>6. CASE Prepare
  <2>1. /\ UNCHANGED <<out, record, entries, clock, edits>> /\ job.at = "prepare"
        /\ \/ \E over : job' = [job EXCEPT !.at = "step", !.over = over]
           \/ \E print, rest, at : /\ at \in {"key", "run"}
                                   /\ job' = [job EXCEPT !.print = print, !.key = Nothing,
                                                         !.rest = rest, !.at = at]
    BY <1>6 DEF Prepare, Ended
  <2>2. DOMAIN job = JobFields /\ AllOld(job.entry, clock) /\ job.task \in Tasks
    BY <1>1, <2>1 DEF Shape, Aged, AtATask
  <2>3. /\ DOMAIN job' = JobFields /\ job'.entry = job.entry /\ job'.task = job.task
        /\ job'.at \in {"step", "key", "run"}
    BY <2>1, <2>2 DEF JobFields
  <2> QED BY <2>1, <2>2, <2>3, Aside DEF AtATask
<1>7. CASE Run
  <2>1. /\ UNCHANGED <<out, record, entries, clock, edits>> /\ job.at = "run"
        /\ \E read : job' = [job EXCEPT !.at = "running", !.read = read]
    BY <1>7 DEF Run
  <2>2. DOMAIN job = JobFields /\ AllOld(job.entry, clock) /\ job.task \in Tasks
    BY <1>1, <2>1 DEF Shape, Aged, AtATask
  <2>3. /\ DOMAIN job' = JobFields /\ job'.entry = job.entry /\ job'.task = job.task
        /\ job'.at = "running"
    BY <2>1, <2>2 DEF JobFields
  <2> QED BY <2>1, <2>2, <2>3, Aside DEF AtATask
<1>8. CASE Imprint \/ Booked
  <2>1. /\ UNCHANGED <<out, record, entries, clock, edits>> /\ job.at = "book"
        /\ \/ \E rest : job' = [job EXCEPT !.rest = rest]
           \/ \E over : job' = [job EXCEPT !.at = "step", !.over = over]
    BY <1>8 DEF Imprint, Books, OneLess, Booked, Ended
  <2>2. /\ DOMAIN job = JobFields /\ AllOld(job.entry, clock) /\ job.task \in Tasks
        /\ edits[job.task] = {}
    BY <1>1, <2>1 DEF IInv, Shape, Aged, Spared, AtATask
  <2>3. /\ DOMAIN job' = JobFields /\ job'.entry = job.entry /\ job'.task = job.task
        /\ job'.at \in {"book", "step"}
    BY <2>1, <2>2 DEF JobFields
  <2> QED BY <2>1, <2>2, <2>3, Aside DEF AtATask
<1>9. CASE UNCHANGED vars
  BY <1>1, <1>9, Aside DEF vars, Shape, Aged, IInv, Spared
<1> QED BY <1>2, <1>3, <1>4, <1>5, <1>6, <1>7, <1>8, <1>9 DEF vars

\* No restore is begun over what the user wrote: it would not be the task's.
LEMMA KeyKeeps == ASSUME IInv, Key PROVE IInv'
<1>1. /\ UNCHANGED <<out, record, entries, clock, edits>> /\ job.at = "key"
      /\ \E key, rest :
           \/ /\ key \in DOMAIN entries /\ ~UserFile
              /\ job' = [job EXCEPT !.key = key, !.at = "unsay", !.entry = entries[key],
                                    !.rest = rest]
           \/ job' = [job EXCEPT !.key = key, !.at = "run", !.entry = <<>>, !.rest = rest]
  BY DEF Key, At, files, user, Nothing
<1>2. /\ DOMAIN job = JobFields /\ job.task \in Tasks
      /\ \A key \in DOMAIN entries : AllOld(entries[key], clock)
  BY <1>1 DEF IInv, Shape, Aged, AtATask
<1>3. AllOld(<<>>, clock)
  BY DEF AllOld
<1>4. /\ DOMAIN job' = JobFields /\ job'.task = job.task /\ AllOld(job'.entry, clock)
      /\ (job'.at = "unsay" /\ ~UserFile) \/ job'.at = "run"
  BY <1>1, <1>2, <1>3 DEF JobFields
<1>5. ~UserFile => edits[job.task] = {}
  BY <1>2 DEF IInv, Edited, UserFile, Ours, T
<1> QED BY <1>1, <1>2, <1>4, <1>5, Aside DEF AtATask

\* What a step makes of the files, one task's at a time.
LEMMA Restores == ASSUME IInv, Unsay \/ ClearOut \/ PutBack PROVE IInv'
<1> DEFINE t == job.task
<1>1. PICK at \in {"remove", "write", "book"} : job' = [job EXCEPT !.at = at]
  BY DEF Unsay, ClearOut, PutBack, Goes
<1>2. /\ job.at \in {"unsay", "remove", "write"} /\ UNCHANGED <<edits, entries>>
      /\ clock' \in {clock, clock + 1}
  BY DEF Unsay, ClearOut, PutBack, Forget, At, user
<1>3. /\ t \in Tasks /\ edits[t] = {} /\ clock \in Nat /\ DOMAIN out = Tasks
      /\ DOMAIN record = Tasks /\ DOMAIN job = JobFields /\ AllOld(job.entry, clock)
  BY <1>2 DEF IInv, Shape, Spared, Aged, AtATask
<1>4. /\ DOMAIN job' = JobFields /\ job'.at = at /\ job'.task = t /\ job'.entry = job.entry
  BY <1>1, <1>3 DEF JobFields
<1>5. /\ DOMAIN out' = Tasks /\ \A u \in Tasks \ {t} : out'[u] = out[u]
      /\ \/ out'[t] = out[t] \/ out'[t] = <<>>
         \/ /\ DOMAIN out'[t] = DOMAIN job.entry
            /\ \A f \in DOMAIN job.entry : out'[t][f].is = job.entry[f]
  <2>1. \/ out' = out \/ out' = [out EXCEPT ![t] = <<>>]
        \/ out' = [out EXCEPT ![t] = [f \in DOMAIN job.entry |-> [is |-> job.entry[f], time |-> clock']]]
    BY DEF Unsay, ClearOut, PutBack, T, Nothing
  <2> QED BY <1>3, <2>1
<1>6. /\ DOMAIN record' = Tasks /\ \A u \in Tasks : record'[u] \in {record[u], <<>>}
  BY <1>3 DEF Unsay, ClearOut, PutBack, Forget, T, Nothing
<1>7. Shape'
  BY <1>2, <1>3, <1>4, <1>5, <1>6 DEF IInv, Shape, AtATask
<1>8. Aged'
  <2>1. Old(<<>>, clock') /\ AllOld(<<>>, clock')
    BY DEF Old, AllOld
  <2>2. /\ \A u \in Tasks : \A f \in DOMAIN out[u] : Old(out[u][f].is, clock')
        /\ \A u \in Tasks : AllOld(record[u], clock')
        /\ \A key \in DOMAIN entries : AllOld(entries[key], clock')
        /\ AllOld(job.entry, clock')
    BY <1>2, <1>3, OldLater, AllOldLater DEF IInv, Aged
  <2>3. \A u \in Tasks : \A f \in DOMAIN out'[u] : Old(out'[u][f].is, clock')
    BY <1>3, <1>5, <2>1, <2>2 DEF AllOld
  <2>4. \A u \in Tasks : AllOld(record'[u], clock')
    BY <1>6, <2>1, <2>2
  <2> QED BY <1>2, <1>4, <2>2, <2>3, <2>4 DEF Aged
<1>9. Edited' /\ Spared'
  BY <1>2, <1>3, <1>4, <1>5, <1>6 DEF IInv, Edited, Spared
<1> QED BY <1>7, <1>8, <1>9 DEF IInv

LEMMA Bookkeeping == ASSUME IInv, Outs \/ SaveEntry PROVE IInv'
<1> DEFINE t == job.task
<1> DEFINE now == [f \in DOMAIN out[t] |-> out[t][f].is]
<1>1. job.at = "book" /\ UNCHANGED <<out, edits, clock>>
  BY DEF Outs, SaveEntry, Books, At, user
<1>2. /\ t \in Tasks /\ edits[t] = {} /\ clock \in Nat /\ DOMAIN record = Tasks
      /\ DOMAIN job = JobFields /\ AllOld(job.entry, clock)
  BY <1>1 DEF IInv, Shape, Spared, Aged, AtATask
<1>3. AllOld(now, clock)
  BY <1>2 DEF IInv, Aged, AllOld
<1> HIDE DEF now
<1>4. /\ record' = record \/ record' = [record EXCEPT ![t] = now]
      /\ entries' = entries \/ entries' = Put(entries, job.key, job.entry)
      /\ \E rest : \/ job' = [job EXCEPT !.rest = rest]
                   \/ job' = [job EXCEPT !.rest = rest, !.entry = now]
  BY DEF Outs, SaveEntry, OneLess, T, now
<1>5. /\ DOMAIN job' = JobFields /\ job'.at = "book" /\ job'.task = t
      /\ AllOld(job'.entry, clock)
  BY <1>1, <1>2, <1>3, <1>4 DEF JobFields
<1>6. /\ DOMAIN record' = Tasks /\ \A u \in Tasks \ {t} : record'[u] = record[u]
      /\ \A u \in Tasks : AllOld(record'[u], clock)
  BY <1>2, <1>3, <1>4 DEF IInv, Aged
<1>7. \A key \in DOMAIN entries' : AllOld(entries'[key], clock)
  BY <1>2, <1>4 DEF IInv, Aged, Put
<1>8. Shape'
  BY <1>1, <1>2, <1>5, <1>6 DEF IInv, Shape, AtATask
<1>9. Aged'
  <2>1. \A u \in Tasks : \A f \in DOMAIN out'[u] : Old(out'[u][f].is, clock')
    BY <1>1 DEF IInv, Aged
  <2> QED BY <1>1, <1>5, <1>6, <1>7, <2>1 DEF Aged
<1>10. Edited' /\ Spared'
  BY <1>1, <1>2, <1>5, <1>6 DEF IInv, Edited, Spared
<1> QED BY <1>8, <1>9, <1>10 DEF IInv

\* A run that ends, well or half-way, and one that is killed.
LEMMA Writing == ASSUME IInv, Ran \/ Fail \/ Kill PROVE IInv'
<1> USE DEF At, T, tree, files, user
<1>1. CASE Ran
  <2>1. \A n \in Nat : <<"made", arg, Extra, job.read>> # <<"user", n>>
    OBVIOUS
  <2>2. /\ job.at = "running" /\ Writes(<<"made", arg, Extra, job.read>>)
        /\ record' = record /\ entries' = entries /\ job' = [job EXCEPT !.at = "book"]
    BY <1>1 DEF Ran, Goes
  <2>3. job'.at = "book"
    BY <2>2 DEF IInv, Shape, JobFields
  <2> QED BY <2>1, <2>2, <2>3, WritesOwn
<1>2. CASE Fail
  <2>1. \A n \in Nat : Half # <<"user", n>>
    BY DEF Half
  <2>2. /\ job.at = "running" /\ Writes(Half) /\ entries' = entries
        /\ record' = [record EXCEPT ![job.task] = <<>>] /\ job'.at = "idle"
    BY <1>2 DEF Fail, Forget, End, NoJob, Nothing
  <2> QED BY <2>1, <2>2, WritesOwn
<1>3. CASE Kill /\ UNCHANGED <<out, clock, edits, mine>>
  <2>1. UNCHANGED <<out, record, entries, clock, edits>> /\ job'.at = "idle"
    BY <1>3 DEF Kill, End, NoJob
  <2> QED BY <2>1, Aside DEF AtATask
<1>4. CASE Kill /\ job.at = "running" /\ Writes(Half)
  <2>1. \A n \in Nat : Half # <<"user", n>>
    BY DEF Half
  <2>2. job.at = "running" /\ record' = record /\ entries' = entries /\ job'.at = "idle"
    BY <1>4 DEF Kill, End, NoJob
  <2> QED BY <1>4, <2>1, <2>2, WritesOwn
<1> QED BY <1>1, <1>2, <1>3, <1>4 DEF Kill

\* Around the commands: what the user writes now is unlike all that was.
LEMMA Around == ASSUME IInv, Save \/ EditManifest \/ Clean PROVE IInv'
<1> USE DEF files, user
<1>1. /\ clock \in Nat /\ clock' \in {clock, clock + 1} /\ UNCHANGED <<entries, edits, job>>
      /\ \/ UNCHANGED <<out, record>>
         \/ /\ out' = [t \in Tasks |-> IF t \in InTarget THEN <<>> ELSE out[t]]
            /\ record' = [t \in Tasks |-> <<>>]
  BY DEF IInv, Shape, Save, EditManifest, Clean, Nothing
<1>2. /\ DOMAIN out' = Tasks /\ DOMAIN record' = Tasks
      /\ \A t \in Tasks : /\ out'[t] = out[t] \/ (t \in InTarget /\ out'[t] = <<>>)
                          /\ record'[t] \in {record[t], <<>>}
  BY <1>1 DEF IInv, Shape
<1>3. Shape'
  BY <1>1, <1>2 DEF IInv, Shape
<1>4. Aged'
  <2>1. AllOld(<<>>, clock')
    BY DEF AllOld
  <2>2. /\ \A t \in Tasks : \A f \in DOMAIN out[t] : Old(out[t][f].is, clock')
        /\ \A t \in Tasks : AllOld(record[t], clock')
        /\ \A key \in DOMAIN entries : AllOld(entries[key], clock')
        /\ job.at # "idle" => AllOld(job.entry, clock')
    BY <1>1, OldLater, AllOldLater DEF IInv, Aged
  <2>3. \A t \in Tasks : \A f \in DOMAIN out'[t] : Old(out'[t][f].is, clock')
    BY <1>2, <2>2
  <2>4. \A t \in Tasks : AllOld(record'[t], clock')
    BY <1>2, <2>1, <2>2
  <2> QED BY <1>1, <2>2, <2>3, <2>4 DEF Aged
<1>5. Edited' /\ Spared'
  BY <1>1, <1>2 DEF IInv, Edited, Spared
<1> QED BY <1>3, <1>4, <1>5 DEF IInv

LEMMA EditIsNew == ASSUME IInv, Edit PROVE IInv'
<1> DEFINE new == [is |-> <<"user", clock'>>, time |-> clock']
<1>1. PICK t \in Tasks \ InTarget, f \in {"own", "mine"} :
         /\ out' = [out EXCEPT ![t] = Put(@, f, new)]
         /\ edits' = [edits EXCEPT ![t] = @ \cup {f}]
  BY DEF Edit
<1>2. /\ job.at = "idle" /\ clock \in Nat /\ clock' = clock + 1 /\ UNCHANGED <<entries, record, job>>
      /\ DOMAIN out = Tasks /\ DOMAIN record = Tasks /\ DOMAIN edits = Tasks
  BY DEF IInv, Shape, Edit, Idle
<1>3. /\ DOMAIN out' = Tasks /\ DOMAIN edits' = Tasks /\ edits'[t] = edits[t] \cup {f}
      /\ \A u \in Tasks \ {t} : out'[u] = out[u] /\ edits'[u] = edits[u]
      /\ DOMAIN out'[t] = DOMAIN out[t] \cup {f} /\ out'[t][f] = new
      /\ \A g \in DOMAIN out[t] \ {f} : out'[t][g] = out[t][g]
  BY <1>1, <1>2 DEF Put
<1>4. Shape'
  BY <1>2, <1>3 DEF IInv, Shape
<1>5. Aged'
  <2>1. /\ \A u \in Tasks : \A g \in DOMAIN out[u] : Old(out[u][g].is, clock')
        /\ \A u \in Tasks : AllOld(record[u], clock')
        /\ \A key \in DOMAIN entries : AllOld(entries[key], clock')
    BY <1>2, OldLater, AllOldLater DEF IInv, Aged
  <2>2. Old(new.is, clock')
    BY DEF Old
  <2>3. \A u \in Tasks : \A g \in DOMAIN out'[u] : Old(out'[u][g].is, clock')
    BY <1>3, <2>1, <2>2
  <2> QED BY <1>2, <2>1, <2>3 DEF Aged
<1>6. Edited'
  <2>1. f \in DOMAIN record[t] => record[t][f] # new.is
    <3>1. SUFFICES ASSUME f \in DOMAIN record[t], record[t][f] = <<"user", clock + 1>>
                   PROVE  FALSE
      BY <1>2
    <3>2. Old(record[t][f], clock)
      BY <3>1 DEF IInv, Aged, AllOld
    <3>3. clock + 1 <= clock
      BY <1>2, <3>1, <3>2 DEF Old
    <3> QED BY <1>2, <3>3
  <2> HIDE DEF new
  <2> QED BY <1>2, <1>3, <2>1 DEF IInv, Edited
<1>7. Spared'
  BY <1>2 DEF Spared
<1> QED BY <1>4, <1>5, <1>6, <1>7 DEF IInv

-----------------------------------------------------------------------------
(* The theorems.                                                           *)

\* The invariant: what is on disk and in the books is older than what the
\* user may write next, and no restore goes on over anything they wrote.
THEOREM Invariance == Spec => []IInv
<1>1. IInv /\ [Next]_vars => IInv'
  BY Quiet, KeyKeeps, Restores, Bookkeeping, Writing, Around, EditIsNew DEF Next
<1> QED BY <1>1, InitIInv, PTL DEF Spec

\* A restore, which begins by removing a task's outputs, removes nothing the
\* user wrote: for every graph of tasks, with and without the build cache.
THEOREM EditsAreSpared == Spec => []RestoreSparesEdits
<1>1. IInv => RestoreSparesEdits
  BY DEF IInv, Spared, RestoreSparesEdits, At, T
<1> QED BY <1>1, Invariance, PTL

-----------------------------------------------------------------------------
(* Recursion over the numbers.                                             *)

\* Induction over a set of numbers.
LEMMA Induct ==
  ASSUME NEW S \in SUBSET Nat, 0 \in S, \A n \in S : n + 1 \in S
  PROVE  S = Nat
<1>1. SUFFICES ASSUME Nat \ S # {} PROVE FALSE
  OBVIOUS
<1>2. PICK n \in Nat \ S : \A m \in Nat \ S : ~(<<m, n>> \in OpToRel(<, Nat))
  BY <1>1, NatLessThanWellFounded, WFMin
<1>3. n - 1 \in Nat /\ n - 1 \notin S
  <2>1. n \in Nat /\ n # 0
    BY <1>2
  <2>2. n - 1 \in Nat /\ (n - 1) + 1 = n
    BY <2>1
  <2>3. QED BY <1>2, <2>2
<1>4. <<n - 1, n>> \in OpToRel(<, Nat)
  BY <1>2, <1>3 DEF OpToRel
<1>5. QED BY <1>2, <1>3, <1>4

\* The first n steps of a recursion.
Beginnings(X, x, g, n) ==
  {h \in [0..n -> X] : h[0] = x /\ \A i \in 1..n : h[i] = g[i - 1][h[i - 1]]}

LEMMA SomeBeginning ==
  ASSUME NEW X, NEW x \in X, NEW g \in [Nat -> [X -> X]]
  PROVE  \A n \in Nat : Beginnings(X, x, g, n) # {}
<1> DEFINE S == {n \in Nat : Beginnings(X, x, g, n) # {}}
<1>1. 0 \in S
  <2>1. [i \in 0..0 |-> x] \in Beginnings(X, x, g, 0)
    BY DEF Beginnings
  <2>2. QED BY <2>1
<1>2. ASSUME NEW n \in S PROVE n + 1 \in S
  <2>1. PICK h \in [0..n -> X] :
          h[0] = x /\ \A i \in 1..n : h[i] = g[i - 1][h[i - 1]]
    BY <1>2 DEF Beginnings
  <2>2. n \in Nat /\ h[n] \in X /\ g[n][h[n]] \in X
    BY <2>1
  <2>3. PICK k \in [0..(n + 1) -> X] :
          \A i \in 0..(n + 1) : k[i] = IF i = n + 1 THEN g[n][h[n]] ELSE h[i]
    <3>1. \A i \in 0..(n + 1) : (IF i = n + 1 THEN g[n][h[n]] ELSE h[i]) \in X
      BY <2>1, <2>2
    <3>2. [i \in 0..(n + 1) |-> IF i = n + 1 THEN g[n][h[n]] ELSE h[i]] \in [0..(n + 1) -> X]
      BY <3>1
    <3>3. QED BY <3>2
  <2>4. k[0] = x
    BY <2>1, <2>2, <2>3
  <2>5. ASSUME NEW i \in 1..(n + 1) PROVE k[i] = g[i - 1][k[i - 1]]
    <3>1. k[i - 1] = h[i - 1]
      BY <2>2, <2>3
    <3>2. CASE i = n + 1
      BY <2>2, <2>3, <3>1, <3>2
    <3>3. CASE i # n + 1
      <4>1. i \in 1..n
        BY <2>2, <3>3
      <4>2. k[i] = h[i]
        BY <2>2, <2>3, <3>3
      <4>3. QED BY <2>1, <3>1, <4>1, <4>2
    <3>4. QED BY <3>2, <3>3
  <2>6. k \in Beginnings(X, x, g, n + 1)
    BY <2>2, <2>3, <2>4, <2>5 DEF Beginnings
  <2>7. QED BY <2>2, <2>6
<1>3. S = Nat
  BY <1>1, <1>2, Induct
<1>4. QED BY <1>3

\* All its steps: the beginnings agree where both are.
Recursions(X, x, g) == {f \in [Nat -> X] : f[0] = x /\ \A n \in Nat : f[n + 1] = g[n][f[n]]}

LEMMA SomeRecursion ==
  ASSUME NEW X, NEW x \in X, NEW g \in [Nat -> [X -> X]]
  PROVE  Recursions(X, x, g) # {}
<1>1. PICK b : b = [n \in Nat |-> CHOOSE h : h \in Beginnings(X, x, g, n)]
  OBVIOUS
<1>2. ASSUME NEW n \in Nat
      PROVE  b[n] \in [0..n -> X] /\ b[n][0] = x
             /\ \A i \in 1..n : b[n][i] = g[i - 1][b[n][i - 1]]
  <2>1. b[n] \in Beginnings(X, x, g, n)
    BY <1>1, SomeBeginning
  <2>2. QED BY <2>1 DEF Beginnings
<1>3. ASSUME NEW n \in Nat PROVE \A i \in 0..n : b[n + 1][i] = b[n][i]
  <2> DEFINE S == {i \in Nat : i <= n => b[n + 1][i] = b[n][i]}
  <2>1. 0 \in S
    BY <1>2
  <2>2. ASSUME NEW i \in S, i + 1 <= n PROVE b[n + 1][i + 1] = b[n][i + 1]
    <3>1. i + 1 \in 1..n /\ i + 1 \in 1..(n + 1) /\ (i + 1) - 1 = i /\ n + 1 \in Nat
      BY <2>2
    <3>2. b[n + 1][i] = b[n][i]
      BY <2>2
    <3>3. PICK j : j = i + 1
      OBVIOUS
    <3>4. b[n + 1][j] = g[j - 1][b[n + 1][j - 1]] /\ b[n][j] = g[j - 1][b[n][j - 1]]
      BY <1>2, <3>1, <3>3
    <3>5. QED BY <3>1, <3>2, <3>3, <3>4
  <2>3. ASSUME NEW i \in S PROVE i + 1 \in S
    BY <2>2
  <2>4. S = Nat
    BY <2>1, <2>3, Induct
  <2>5. QED BY <2>4
<1>4. PICK f : f = [n \in Nat |-> b[n][n]]
  OBVIOUS
<1>5. f \in [Nat -> X]
  <2>1. \A n \in Nat : b[n][n] \in X
    BY <1>2
  <2>2. QED BY <1>4, <2>1
<1>6. f[0] = x
  BY <1>2, <1>4
<1>7. ASSUME NEW n \in Nat PROVE f[n + 1] = g[n][f[n]]
  <2>1. n + 1 \in Nat /\ n + 1 \in 1..(n + 1) /\ (n + 1) - 1 = n
    OBVIOUS
  <2>2. PICK m \in Nat : m = n + 1
    OBVIOUS
  <2>3. b[m][m] = g[m - 1][b[m][m - 1]]
    BY <1>2, <2>1, <2>2
  <2>4. b[m][n] = b[n][n]
    BY <1>3, <2>2
  <2>5. QED BY <1>4, <2>1, <2>2, <2>3, <2>4
<1>8. QED BY <1>5, <1>6, <1>7 DEF Recursions

-----------------------------------------------------------------------------
(* What a node leads to.                                                   *)

\* A graph of the tasks.
GraphOK(g) == g.depends \in [Tasks -> Seq(Nodes)] /\ g.hooks \in [Hooks -> Seq(Nodes)]

LEMMA EdgesType ==
  ASSUME NEW g, GraphOK(g), NEW n
  PROVE  Edges(g, n) \subseteq Nodes
<1>1. ASSUME n \in Tasks PROVE Edges(g, n) \subseteq Nodes
  <2>1. g.depends[n] \in Seq(Nodes)
    BY <1>1 DEF GraphOK
  <2>2. QED BY <1>1, <2>1 DEF Edges, ToSet
<1>2. ASSUME n \notin Tasks PROVE Edges(g, n) \subseteq Nodes
  <2>1. \A h \in HooksOf(n) : g.hooks[h] \in Seq(Nodes)
    BY DEF GraphOK, HooksOf, Hooks
  <2>2. \A h \in HooksOf(n) : ToSet(g.hooks[h]) \subseteq Nodes
    BY <2>1 DEF ToSet
  <2>3. QED BY <1>2, <2>2 DEF Edges
<1>3. QED BY <1>1, <1>2

\* What a step along the edges adds.
Wider(g, X) == X \cup UNION {Edges(g, n) : n \in X}

LEMMA ReachedUnfolds ==
  ASSUME NEW g, GraphOK(g), NEW node
  PROVE  \E f : /\ Reached(g, node) = f[Cardinality(Nodes)]
                /\ f[0] = Edges(g, node)
                /\ \A k \in Nat : f[k + 1] = Wider(g, f[k])
<1> DEFINE more(nodes) == nodes \cup UNION {Edges(g, n) : n \in nodes}
           within[k \in Nat] == IF k = 0 THEN Edges(g, node) ELSE more(within[k - 1])
<1>1. PICK X : X = SUBSET Nodes
  OBVIOUS
<1>2. PICK x \in X : x = Edges(g, node)
  BY <1>1, EdgesType
<1>3. PICK wider \in [Nat -> [X -> X]] : \A n \in Nat, S \in X : wider[n][S] = Wider(g, S)
  <2>1. \A S \in X : Wider(g, S) \in X
    BY <1>1, EdgesType DEF Wider
  <2>2. [n \in Nat |-> [S \in X |-> Wider(g, S)]] \in [Nat -> [X -> X]]
    BY <2>1
  <2>3. QED BY <2>2
<1>4. PICK f \in [Nat -> X] : f[0] = x /\ \A n \in Nat : f[n + 1] = wider[n][f[n]]
  <2>1. wider \in [Nat -> [X -> X]]
    BY <1>3
  <2>2. x \in X
    BY <1>2
  <2>3. Recursions(X, x, wider) # {}
    BY <2>1, <2>2, SomeRecursion
  <2>4. QED BY <2>3 DEF Recursions
<1>5. ASSUME NEW k \in Nat PROVE f[k] = IF k = 0 THEN Edges(g, node) ELSE Wider(g, f[k - 1])
  <2>1. CASE k = 0
    BY <1>2, <1>4, <2>1
  <2>2. CASE k # 0
    <3>1. PICK n \in Nat : n = k - 1 /\ n + 1 = k
      BY <2>2
    <3>2. QED BY <1>3, <1>4, <2>2, <3>1
  <2>3. QED BY <2>1, <2>2
<1>6. f = [k \in Nat |-> IF k = 0 THEN Edges(g, node) ELSE more(f[k - 1])]
  BY <1>4, <1>5 DEF Wider
<1>7. within = [k \in Nat |-> IF k = 0 THEN Edges(g, node) ELSE more(within[k - 1])]
  BY <1>6
<1>8. Reached(g, node) = within[Cardinality(Nodes)]
  BY DEF Reached
<1> HIDE DEF within
<1>9. PICK h : h = within
  OBVIOUS
<1>10. \A k \in Nat : h[k] = IF k = 0 THEN Edges(g, node) ELSE Wider(g, h[k - 1])
  BY <1>7, <1>9 DEF Wider
<1>11. \A k \in Nat : k + 1 \in Nat /\ k + 1 # 0 /\ (k + 1) - 1 = k
  OBVIOUS
<1>12. h[0] = Edges(g, node) /\ \A k \in Nat : h[k + 1] = Wider(g, h[k])
  BY <1>10, <1>11
<1>13. QED BY <1>8, <1>9, <1>12

LEMMA NodesFinite == IsFiniteSet(Nodes) /\ Cardinality(Nodes) \in Nat
<1>1. IsFiniteSet(Builtins)
  <2>1. IsFiniteSet({"build"}) /\ IsFiniteSet({"test"})
    BY FS_Singleton
  <2>2. IsFiniteSet({"build"} \cup {"test"})
    BY <2>1, FS_Union
  <2>3. Builtins = {"build"} \cup {"test"}
    BY DEF Builtins
  <2>4. QED BY <2>2, <2>3
<1>2. IsFiniteSet(Nodes)
  BY <1>1, TaskPlanAssumption, FS_Union DEF Nodes
<1>3. QED BY <1>2, FS_CardinalityType

\* find_cycle comes to the least set that holds what the node points at and
\* is closed: a round that is not the last adds a node.
LEMMA ReachedIsLeast ==
  ASSUME NEW g, GraphOK(g), NEW node
  PROVE  /\ Edges(g, node) \subseteq Reached(g, node) /\ Reached(g, node) \subseteq Nodes
         /\ \A n \in Reached(g, node) : Edges(g, n) \subseteq Reached(g, node)
         /\ \A X : Edges(g, node) \subseteq X /\ (\A n \in X : Edges(g, n) \subseteq X)
                     => Reached(g, node) \subseteq X
<1>1. PICK f : /\ Reached(g, node) = f[Cardinality(Nodes)]
               /\ f[0] = Edges(g, node)
               /\ \A k \in Nat : f[k + 1] = Wider(g, f[k])
  BY ReachedUnfolds
<1>2. IsFiniteSet(Nodes) /\ Cardinality(Nodes) \in Nat
  BY NodesFinite
<1>3. ASSUME NEW X, Edges(g, node) \subseteq X, \A n \in X : Edges(g, n) \subseteq X
      PROVE  \A k \in Nat : f[k] \subseteq X
  <2> DEFINE S == {k \in Nat : f[k] \subseteq X}
  <2>1. 0 \in S
    BY <1>1, <1>3
  <2>2. ASSUME NEW k \in S PROVE k + 1 \in S
    <3>1. f[k + 1] = Wider(g, f[k]) /\ f[k] \subseteq X
      BY <1>1
    <3>2. QED BY <1>3, <3>1 DEF Wider
  <2>3. S = Nat
    BY <2>1, <2>2, Induct
  <2>4. QED BY <2>3
<1>4. \A k \in Nat : f[k] \subseteq Nodes
  BY <1>3, EdgesType
<1>5. \A k \in Nat : Edges(g, node) \subseteq f[k]
  <2> DEFINE S == {k \in Nat : Edges(g, node) \subseteq f[k]}
  <2>1. 0 \in S
    BY <1>1
  <2>2. ASSUME NEW k \in S PROVE k + 1 \in S
    BY <1>1 DEF Wider
  <2>3. S = Nat
    BY <2>1, <2>2, Induct
  <2>4. QED BY <2>3
<1>6. \A k \in Nat : IsFiniteSet(f[k]) /\ Cardinality(f[k]) \in Nat
                     /\ Cardinality(f[k]) <= Cardinality(Nodes)
  BY <1>2, <1>4, FS_Subset, FS_CardinalityType
<1>7. \A k \in Nat : Wider(g, f[k]) = f[k] \/ Cardinality(f[k]) >= k
  <2> DEFINE S == {k \in Nat : Wider(g, f[k]) = f[k] \/ Cardinality(f[k]) >= k}
  <2>1. 0 \in S
    BY <1>6
  <2>2. ASSUME NEW k \in S PROVE k + 1 \in S
    <3>1. f[k + 1] = Wider(g, f[k]) /\ k + 1 \in Nat
      BY <1>1
    <3>2. CASE Wider(g, f[k]) = f[k]
      BY <3>1, <3>2
    <3>3. CASE Wider(g, f[k]) # f[k]
      <4>1. f[k] \subseteq f[k + 1] /\ f[k] # f[k + 1]
        BY <3>1, <3>3 DEF Wider
      <4>2. Cardinality(f[k]) < Cardinality(f[k + 1])
        BY <1>6, <3>1, <4>1, FS_Subset
      <4>3. Cardinality(f[k]) >= k
        BY <3>3
      <4>4. Cardinality(f[k + 1]) >= k + 1
        BY <1>6, <3>1, <4>2, <4>3
      <4>5. QED BY <3>1, <4>4
    <3>4. QED BY <3>2, <3>3
  <2>3. S = Nat
    BY <2>1, <2>2, Induct
  <2>4. QED BY <2>3
<1>8. Wider(g, f[Cardinality(Nodes)]) = f[Cardinality(Nodes)]
  <2>1. PICK N \in Nat : N = Cardinality(Nodes)
    BY <1>2
  <2>2. Wider(g, f[N]) = f[N] \/ Cardinality(f[N]) = N
    BY <1>6, <1>7, <2>1
  <2>3. CASE Cardinality(f[N]) = N
    <3>1. f[N] = Nodes
      BY <1>2, <1>4, <2>1, <2>3, FS_Subset
    <3>2. QED BY <2>1, <3>1, EdgesType DEF Wider
  <2>4. QED BY <2>1, <2>2, <2>3
<1>9. \A n \in f[Cardinality(Nodes)] : Edges(g, n) \subseteq f[Cardinality(Nodes)]
  BY <1>8 DEF Wider
<1>10. QED BY <1>1, <1>2, <1>3, <1>4, <1>5, <1>9

LEMMA ReachedOn ==
  ASSUME NEW g, GraphOK(g), NEW node, NEW n \in Reached(g, node)
  PROVE  Reached(g, n) \subseteq Reached(g, node)
<1>1. PICK X : X = Reached(g, node)
  OBVIOUS
<1>2. Edges(g, n) \subseteq X /\ \A m \in X : Edges(g, m) \subseteq X
  BY <1>1, ReachedIsLeast
<1>3. QED BY <1>1, <1>2, ReachedIsLeast

-----------------------------------------------------------------------------
(* A plan.                                                                 *)

\* What a task depends on is before it.
Ordered(g, s) ==
  \A i \in 1..Len(s) : s[i] \in Tasks =>
    \A d \in ToSet(g.depends[s[i]]) : \E j \in 1..(i - 1) : s[j] = d
Plans(g, X) == {s \in Seq(X) : Ordered(g, s)}

LEMMA NoPlan == ASSUME NEW g, NEW X PROVE <<>> \in Plans(g, X)
BY DEF Plans, Ordered

LEMMA PlansJoin ==
  ASSUME NEW g, NEW X, NEW a \in Plans(g, X), NEW b \in Plans(g, X)
  PROVE  /\ a \o b \in Plans(g, X) /\ ToSet(a) \subseteq ToSet(a \o b)
         /\ ToSet(b) \subseteq ToSet(a \o b)
<1>1. a \in Seq(X) /\ b \in Seq(X)
  BY DEF Plans
<1>2. PICK c \in Seq(X) : c = a \o b
  <2>1. a \o b \in Seq(X)
    BY <1>1
  <2>2. QED BY <2>1
<1>3. /\ Len(a) \in Nat /\ Len(b) \in Nat /\ Len(c) = Len(a) + Len(b)
      /\ \A i \in 1..Len(a) : c[i] = a[i]
      /\ \A i \in 1..Len(b) : c[Len(a) + i] = b[i] /\ Len(a) + i \in 1..Len(c)
  BY <1>1, <1>2
<1>4. ASSUME NEW i \in 1..Len(c), c[i] \in Tasks, NEW d \in ToSet(g.depends[c[i]])
      PROVE  \E j \in 1..(i - 1) : c[j] = d
  <2>1. CASE i \in 1..Len(a)
    <3>1. PICK j \in 1..(i - 1) : a[j] = d
      BY <1>3, <1>4, <2>1 DEF Plans, Ordered
    <3>2. j \in 1..Len(a)
      BY <1>3, <2>1
    <3>3. QED BY <1>3, <3>1, <3>2
  <2>2. CASE i \notin 1..Len(a)
    <3>1. PICK k \in 1..Len(b) : i = Len(a) + k
      <4>1. i - Len(a) \in 1..Len(b) /\ i = Len(a) + (i - Len(a))
        BY <1>3, <2>2
      <4>2. QED BY <4>1
    <3>2. c[i] = b[k]
      BY <1>3, <3>1
    <3>3. PICK j \in 1..(k - 1) : b[j] = d
      BY <1>4, <3>2 DEF Plans, Ordered
    <3>4. j \in 1..Len(b) /\ Len(a) + j \in 1..(i - 1)
      BY <1>3, <3>1
    <3>5. QED BY <1>3, <3>3, <3>4
  <2>3. QED BY <2>1, <2>2
<1>5. c \in Plans(g, X)
  BY <1>4 DEF Plans, Ordered
<1>6. \A i \in DOMAIN a : i \in DOMAIN c /\ c[i] = a[i]
  BY <1>1, <1>2, <1>3
<1>7. \A i \in DOMAIN b : Len(a) + i \in DOMAIN c /\ c[Len(a) + i] = b[i]
  BY <1>1, <1>2, <1>3
<1>8. QED BY <1>2, <1>5, <1>6, <1>7 DEF ToSet

LEMMA AppendSet ==
  ASSUME NEW R, NEW s \in Seq(R), NEW n \in R
  PROVE  Append(s, n) \in Seq(R) /\ ToSet(Append(s, n)) = ToSet(s) \cup {n}
<1>1. PICK c \in Seq(R) : c = Append(s, n)
  <2>1. Append(s, n) \in Seq(R)
    OBVIOUS
  <2>2. QED BY <2>1
<1>2. PICK m \in Nat : m = Len(s) /\ DOMAIN s = 1..m
  OBVIOUS
<1>3. DOMAIN c = 1..(m + 1) /\ c[m + 1] = n /\ \A i \in 1..m : c[i] = s[i]
  BY <1>1, <1>2
<1>4. /\ m + 1 \in 1..(m + 1) /\ 1..m \subseteq 1..(m + 1)
      /\ \A i \in 1..(m + 1) : i \in 1..m \/ i = m + 1
  BY <1>2
<1>5. ToSet(c) = ToSet(s) \cup {n}
  BY <1>2, <1>3, <1>4 DEF ToSet
<1>6. QED BY <1>1, <1>5

LEMMA PlansGrow ==
  ASSUME NEW g, NEW X, NEW a \in Plans(g, X), NEW n \in X,
         n \in Tasks => ToSet(g.depends[n]) \subseteq ToSet(a)
  PROVE  Append(a, n) \in Plans(g, X) /\ ToSet(Append(a, n)) = ToSet(a) \cup {n}
<1>1. a \in Seq(X) /\ Len(a) \in Nat
  BY DEF Plans
<1>2. PICK c \in Seq(X) : c = Append(a, n)
  <2>1. Append(a, n) \in Seq(X)
    BY <1>1
  <2>2. QED BY <2>1
<1>3. /\ Len(c) = Len(a) + 1 /\ c[Len(a) + 1] = n /\ DOMAIN c = 1..(Len(a) + 1)
      /\ \A i \in 1..Len(a) : c[i] = a[i]
  BY <1>1, <1>2
<1>4. DOMAIN a = 1..Len(a)
  BY <1>1
<1>5. ASSUME NEW i \in 1..Len(c), c[i] \in Tasks, NEW d \in ToSet(g.depends[c[i]])
      PROVE  \E j \in 1..(i - 1) : c[j] = d
  <2>1. CASE i \in 1..Len(a)
    <3>1. PICK j \in 1..(i - 1) : a[j] = d
      BY <1>3, <1>5, <2>1 DEF Plans, Ordered
    <3>2. j \in 1..Len(a)
      BY <1>1, <2>1
    <3>3. QED BY <1>3, <3>1, <3>2
  <2>2. CASE i \notin 1..Len(a)
    <3>1. i = Len(a) + 1 /\ i - 1 = Len(a) /\ c[i] = n
      BY <1>1, <1>3, <2>2
    <3>2. d \in ToSet(a)
      BY <1>5, <3>1
    <3>3. PICK j \in 1..Len(a) : a[j] = d
      BY <1>4, <3>2 DEF ToSet
    <3>4. QED BY <1>3, <3>1, <3>3
  <2>3. QED BY <2>1, <2>2
<1>6. c \in Plans(g, X)
  BY <1>5 DEF Plans, Ordered
<1>7. ToSet(c) = ToSet(a) \cup {n}
  BY <1>1, <1>2, AppendSet
<1>8. QED BY <1>2, <1>6, <1>7

\* FlattenSeq, one sequence after the other.
LEMMA FlatUnfolds ==
  ASSUME NEW R, NEW s \in Seq(Seq(R))
  PROVE  \E f : /\ FlattenSeq(s) = f[Len(s)] /\ f[0] = <<>>
                /\ \A i \in 1..Len(s) : f[i] = f[i - 1] \o s[i]
<1>0. PICK size \in Nat : size = Len(s) /\ s \in [1..size -> Seq(R)]
  OBVIOUS
<1>1. CASE size = 0
  <2>1. FlattenSeq(s) = <<>>
    BY <1>0, <1>1 DEF FlattenSeq
  <2>2. PICK f : f = [i \in 0..0 |-> <<>>]
    OBVIOUS
  <2>3. f[0] = <<>>
    BY <2>2
  <2>4. QED BY <1>0, <1>1, <2>1, <2>3
<1>2. CASE size # 0
  <2> DEFINE flatten[i \in 1..Len(s)] == IF i = 1 THEN s[i] ELSE flatten[i - 1] \o s[i]
  <2>1. FlattenSeq(s) = flatten[Len(s)]
    BY <1>0, <1>2 DEF FlattenSeq
  <2>2. PICK X : X = Seq(R)
    OBVIOUS
  <2>3. PICK g \in [Nat -> [X -> X]] :
          \A n \in Nat, x \in X : n + 1 \in 1..size => g[n][x] = x \o s[n + 1]
    <3>1. \A n \in Nat, x \in X : (IF n + 1 \in 1..size THEN x \o s[n + 1] ELSE x) \in X
      BY <1>0, <2>2
    <3>2. PICK k : k = [n \in Nat |-> [x \in X |-> IF n + 1 \in 1..size THEN x \o s[n + 1] ELSE x]]
      OBVIOUS
    <3>3. k \in [Nat -> [X -> X]]
      BY <3>1, <3>2
    <3>4. QED BY <3>2, <3>3
  <2>4. PICK none \in X : none = <<>>
    <3>1. <<>> \in X
      BY <2>2
    <3>2. QED BY <3>1
  <2>5. PICK h \in [Nat -> X] : h[0] = none /\ \A n \in Nat : h[n + 1] = g[n][h[n]]
    <3>1. g \in [Nat -> [X -> X]]
      BY <2>3
    <3>2. none \in X
      BY <2>4
    <3>3. Recursions(X, none, g) # {}
      BY <3>1, <3>2, SomeRecursion
    <3>4. QED BY <3>3 DEF Recursions
  <2>6. PICK f : f = [i \in 1..size |-> h[i]]
    OBVIOUS
  <2>7. ASSUME NEW i \in 1..size PROVE f[i] = IF i = 1 THEN s[i] ELSE f[i - 1] \o s[i]
    <3>1. PICK n \in Nat : n = i - 1 /\ n + 1 = i
      <4>1. i - 1 \in Nat /\ (i - 1) + 1 = i
        OBVIOUS
      <4>2. QED BY <4>1
    <3>2. f[i] = h[n] \o s[i]
      BY <2>3, <2>5, <2>6, <3>1
    <3>3. CASE i = 1
      <4>1. h[n] = <<>>
        BY <2>4, <2>5, <3>1, <3>3
      <4>2. s[i] \in Seq(R)
        BY <1>0
      <4>3. <<>> \o s[i] = s[i]
        BY <4>2
      <4>4. QED BY <3>2, <3>3, <4>1, <4>3
    <3>4. CASE i # 1
      <4>1. i - 1 \in 1..size
        BY <1>0, <3>4
      <4>2. QED BY <2>6, <3>1, <3>2, <3>4, <4>1
    <3>5. QED BY <3>3, <3>4
  <2>8. f = [i \in 1..Len(s) |-> IF i = 1 THEN s[i] ELSE f[i - 1] \o s[i]]
    BY <1>0, <2>6, <2>7
  <2>9. flatten = [i \in 1..Len(s) |-> IF i = 1 THEN s[i] ELSE flatten[i - 1] \o s[i]]
    BY <2>8
  <2> HIDE DEF flatten
  <2>10. PICK k : k = flatten
    OBVIOUS
  <2>11. \A i \in 1..size : k[i] = IF i = 1 THEN s[i] ELSE k[i - 1] \o s[i]
    BY <1>0, <2>9, <2>10
  <2>12. PICK e : e = [i \in 0..size |-> IF i = 0 THEN <<>> ELSE k[i]]
    OBVIOUS
  <2>13. e[0] = <<>> /\ e[size] = k[size]
    BY <1>0, <1>2, <2>12
  <2>14. ASSUME NEW i \in 1..size PROVE e[i] = e[i - 1] \o s[i]
    <3>1. e[i] = k[i] /\ s[i] \in Seq(R)
      BY <1>0, <2>12
    <3>2. CASE i = 1
      <4>1. e[i - 1] = <<>> /\ k[i] = s[i]
        BY <2>11, <2>13, <3>2
      <4>2. <<>> \o s[i] = s[i]
        BY <3>1
      <4>3. QED BY <3>1, <4>1, <4>2
    <3>3. CASE i # 1
      <4>1. i - 1 \in 0..size /\ i - 1 # 0
        BY <1>0, <3>3
      <4>2. QED BY <2>11, <2>12, <3>1, <3>3, <4>1
    <3>4. QED BY <3>2, <3>3
  <2>15. QED BY <1>0, <2>1, <2>10, <2>13, <2>14
<1>3. QED BY <1>1, <1>2

LEMMA FlatIsPlan ==
  ASSUME NEW g, NEW X, NEW s \in Seq(Plans(g, X))
  PROVE  /\ FlattenSeq(s) \in Plans(g, X)
         /\ \A i \in 1..Len(s) : ToSet(s[i]) \subseteq ToSet(FlattenSeq(s))
<1>1. PICK size \in Nat : size = Len(s) /\ \A i \in 1..size : s[i] \in Plans(g, X)
  OBVIOUS
<1>2. PICK f : /\ FlattenSeq(s) = f[Len(s)] /\ f[0] = <<>>
               /\ \A i \in 1..Len(s) : f[i] = f[i - 1] \o s[i]
  <2>1. s \in Seq(Seq(X))
    BY DEF Plans
  <2>2. QED BY <2>1, FlatUnfolds
<1> DEFINE S == {n \in Nat : n <= size => /\ f[n] \in Plans(g, X)
                                         /\ \A i \in 1..n : ToSet(s[i]) \subseteq ToSet(f[n])}
<1>3. 0 \in S
  BY <1>2, NoPlan
<1>4. ASSUME NEW n \in S PROVE n + 1 \in S
  <2>1. SUFFICES ASSUME n + 1 <= size
                 PROVE  /\ f[n + 1] \in Plans(g, X)
                        /\ \A i \in 1..(n + 1) : ToSet(s[i]) \subseteq ToSet(f[n + 1])
    OBVIOUS
  <2>2. n \in Nat /\ n <= size /\ n + 1 \in 1..size /\ (n + 1) - 1 = n
    BY <2>1
  <2>3. f[n] \in Plans(g, X) /\ \A i \in 1..n : ToSet(s[i]) \subseteq ToSet(f[n])
    BY <2>2
  <2>4. PICK m : m = n + 1
    OBVIOUS
  <2>5. f[m] = f[n] \o s[m] /\ s[m] \in Plans(g, X)
    BY <1>1, <1>2, <2>2, <2>4
  <2>6. /\ f[m] \in Plans(g, X) /\ ToSet(f[n]) \subseteq ToSet(f[m])
        /\ ToSet(s[m]) \subseteq ToSet(f[m])
    BY <2>3, <2>5, PlansJoin
  <2>7. \A i \in 1..m : i \in 1..n \/ i = m
    BY <2>2, <2>4
  <2>8. QED BY <2>3, <2>4, <2>6, <2>7
<1>5. S = Nat
  BY <1>3, <1>4, Induct
<1>6. size \in S
  BY <1>5
<1>7. QED BY <1>1, <1>2, <1>6

LEMMA OnceUnfolds ==
  ASSUME NEW R, NEW s \in Seq(R)
  PROVE  \E f : /\ Once(s) = f[Len(s)] /\ f[0] = <<>>
                /\ \A i \in 1..Len(s) : f[i] = Added(f[i - 1], s[i])
<1> DEFINE once[k \in 0..Len(s)] == IF k = 0 THEN <<>> ELSE Added(once[k - 1], s[k])
<1>1. PICK size \in Nat : size = Len(s) /\ \A i \in 1..size : s[i] \in R
  OBVIOUS
<1>2. PICK X : X = Seq(R)
  OBVIOUS
<1>3. PICK g \in [Nat -> [X -> X]] :
        \A n \in Nat, x \in X : n + 1 \in 1..size => g[n][x] = Added(x, s[n + 1])
  <2>1. \A n \in Nat, x \in X : (IF n + 1 \in 1..size THEN Added(x, s[n + 1]) ELSE x) \in X
    BY <1>1, <1>2 DEF Added
  <2>2. PICK k : k = [n \in Nat |-> [x \in X |-> IF n + 1 \in 1..size THEN Added(x, s[n + 1]) ELSE x]]
    OBVIOUS
  <2>3. k \in [Nat -> [X -> X]]
    BY <2>1, <2>2
  <2>4. QED BY <2>2, <2>3
<1>4. PICK none \in X : none = <<>>
  <2>1. <<>> \in X
    BY <1>2
  <2>2. QED BY <2>1
<1>5. PICK h \in [Nat -> X] : h[0] = none /\ \A n \in Nat : h[n + 1] = g[n][h[n]]
  <2>1. g \in [Nat -> [X -> X]]
    BY <1>3
  <2>2. none \in X
    BY <1>4
  <2>3. Recursions(X, none, g) # {}
    BY <2>1, <2>2, SomeRecursion
  <2>4. QED BY <2>3 DEF Recursions
<1>6. PICK f : f = [i \in 0..size |-> h[i]]
  OBVIOUS
<1>7. ASSUME NEW i \in 0..size PROVE f[i] = IF i = 0 THEN <<>> ELSE Added(f[i - 1], s[i])
  <2>1. CASE i = 0
    BY <1>4, <1>5, <1>6, <2>1
  <2>2. CASE i # 0
    <3>1. PICK n \in Nat : n = i - 1 /\ n + 1 = i /\ n \in 0..size /\ i \in 1..size
      <4>1. i - 1 \in Nat /\ (i - 1) + 1 = i /\ i - 1 \in 0..size /\ i \in 1..size
        BY <1>1, <2>2
      <4>2. QED BY <4>1
    <3>2. QED BY <1>3, <1>5, <1>6, <2>2, <3>1
  <2>3. QED BY <2>1, <2>2
<1>8. f = [k \in 0..Len(s) |-> IF k = 0 THEN <<>> ELSE Added(f[k - 1], s[k])]
  BY <1>1, <1>6, <1>7
<1>9. once = [k \in 0..Len(s) |-> IF k = 0 THEN <<>> ELSE Added(once[k - 1], s[k])]
  BY <1>8
<1>10. Once(s) = once[Len(s)]
  BY DEF Once
<1> HIDE DEF once
<1>11. PICK k : k = once
  OBVIOUS
<1>12. \A i \in 0..size : k[i] = IF i = 0 THEN <<>> ELSE Added(k[i - 1], s[i])
  BY <1>1, <1>9, <1>11
<1>13. k[0] = <<>> /\ \A i \in 1..size : k[i] = Added(k[i - 1], s[i])
  <2>1. 0 \in 0..size /\ \A i \in 1..size : i \in 0..size /\ i # 0
    BY <1>1
  <2>2. QED BY <1>12, <2>1
<1>14. QED BY <1>1, <1>10, <1>11, <1>13

LEMMA OnceIsPlan ==
  ASSUME NEW g, NEW X, NEW s \in Plans(g, X)
  PROVE  Once(s) \in Plans(g, X)
<1>0. PICK size \in Nat : size = Len(s) /\ DOMAIN s = 1..size /\ \A i \in 1..size : s[i] \in X
  BY DEF Plans
<1>1. PICK f : /\ Once(s) = f[Len(s)] /\ f[0] = <<>>
               /\ \A i \in 1..Len(s) : f[i] = Added(f[i - 1], s[i])
  <2>1. s \in Seq(X)
    BY DEF Plans
  <2>2. QED BY <2>1, OnceUnfolds
<1> DEFINE S == {n \in Nat : n <= size => f[n] \in Plans(g, X) /\ \A i \in 1..n : s[i] \in ToSet(f[n])}
<1>2. 0 \in S
  BY <1>1, NoPlan
<1>3. ASSUME NEW n \in S PROVE n + 1 \in S
  <2>1. SUFFICES ASSUME n + 1 <= size
                 PROVE  f[n + 1] \in Plans(g, X) /\ \A i \in 1..(n + 1) : s[i] \in ToSet(f[n + 1])
    OBVIOUS
  <2>2. n \in Nat /\ n <= size /\ n + 1 \in 1..size /\ (n + 1) - 1 = n
    BY <2>1
  <2>3. f[n] \in Plans(g, X) /\ \A i \in 1..n : s[i] \in ToSet(f[n])
    BY <2>2
  <2>4. PICK m : m = n + 1
    OBVIOUS
  <2>5. PICK a \in Plans(g, X) : a = f[n]
    BY <2>3
  <2>6. f[m] = Added(a, s[m]) /\ s[m] \in X /\ m \in 1..size
    BY <1>0, <1>1, <2>2, <2>4, <2>5
  <2>7. \A i \in 1..m : i \in 1..n \/ i = m
    BY <2>2, <2>4
  <2>8. ASSUME s[m] \in Tasks PROVE ToSet(g.depends[s[m]]) \subseteq ToSet(a)
    <3>1. \A d \in ToSet(g.depends[s[m]]) : \E j \in 1..(m - 1) : s[j] = d
      BY <1>0, <2>6, <2>8 DEF Plans, Ordered
    <3>2. QED BY <2>2, <2>3, <2>4, <2>5, <3>1
  <2>9. CASE s[m] \in ToSet(a)
    BY <2>3, <2>4, <2>5, <2>6, <2>7, <2>9 DEF Added
  <2>10. CASE s[m] \notin ToSet(a)
    <3>1. f[m] = Append(a, s[m])
      BY <2>6, <2>10 DEF Added
    <3>2. f[m] \in Plans(g, X) /\ ToSet(f[m]) = ToSet(a) \cup {s[m]}
      BY <2>6, <2>8, <3>1, PlansGrow
    <3>3. QED BY <2>3, <2>4, <2>5, <2>7, <3>2
  <2>11. QED BY <2>9, <2>10
<1>4. S = Nat
  BY <1>2, <1>3, Induct
<1>5. size \in S
  BY <1>4
<1>6. QED BY <1>0, <1>1, <1>5

\* With nothing to depend on, a plan is any sequence.
LEMMA FlatIsTyped ==
  ASSUME NEW R, NEW s \in Seq(Seq(R))
  PROVE  FlattenSeq(s) \in Seq(R)
<1>1. PICK g : g = [depends |-> [t \in Tasks |-> <<>>]]
  OBVIOUS
<1>2. \A t \in Tasks : ToSet(g.depends[t]) = {}
  BY <1>1 DEF ToSet
<1>3. \A r \in Seq(R) : Ordered(g, r)
  BY <1>2 DEF Ordered
<1>4. Plans(g, R) = Seq(R)
  BY <1>3 DEF Plans
<1>5. s \in Seq(Plans(g, R))
  BY <1>4
<1>6. QED BY <1>4, <1>5, FlatIsPlan

\* In a graph without a cycle, what a task depends on reaches less than it.
Rank(g, n) == Cardinality(Reached(g, n))

LEMMA RankType ==
  ASSUME NEW g, GraphOK(g), NEW n
  PROVE  IsFiniteSet(Reached(g, n)) /\ Rank(g, n) \in Nat /\ Rank(g, n) <= Cardinality(Nodes)
<1>1. Reached(g, n) \subseteq Nodes
  BY ReachedIsLeast
<1>2. QED BY <1>1, NodesFinite, FS_Subset, FS_CardinalityType DEF Rank

LEMMA DependsOnLess ==
  ASSUME NEW g, GraphOK(g), ~Cyclic(g), NEW t \in Tasks, NEW d \in ToSet(g.depends[t])
  PROVE  d \in Nodes /\ Rank(g, d) < Rank(g, t)
<1>1. d \in Edges(g, t)
  BY DEF Edges
<1>2. d \in Reached(g, t) /\ d \in Nodes
  BY <1>1, ReachedIsLeast
<1>3. Reached(g, d) \subseteq Reached(g, t)
  BY <1>2, ReachedOn
<1>4. d \notin Reached(g, d)
  BY <1>2 DEF Cyclic
<1>5. PICK A, B : A = Reached(g, d) /\ B = Reached(g, t)
  OBVIOUS
<1>6. /\ A \in SUBSET B /\ A # B /\ IsFiniteSet(B)
      /\ Cardinality(A) \in Nat /\ Cardinality(B) \in Nat
  BY <1>2, <1>3, <1>4, <1>5, RankType DEF Rank
<1>7. Cardinality(A) < Cardinality(B)
  BY <1>6, FS_Subset
<1>8. QED BY <1>2, <1>5, <1>7 DEF Rank

\* What is under a node, from what is under those it depends on.
UnderOne(g, u, n) ==
  IF n \in Builtins THEN <<n>>
  ELSE FlattenSeq([i \in DOMAIN g.depends[n] |-> u[g.depends[n][i]]]) \o <<n>>

LEMMA UnderExists ==
  ASSUME NEW g, GraphOK(g), ~Cyclic(g)
  PROVE  \E u : u = [n \in Nodes |-> UnderOne(g, u, n)]
<1>1. PICK X : X = [Nodes -> Seq(Nodes)]
  OBVIOUS
<1>2. ASSUME NEW u \in X, NEW n \in Nodes PROVE UnderOne(g, u, n) \in Seq(Nodes)
  <2>1. CASE n \in Builtins
    BY <2>1 DEF UnderOne
  <2>2. CASE n \notin Builtins
    <3>1. PICK dep \in Seq(Nodes) : dep = g.depends[n]
      BY <2>2 DEF GraphOK, Nodes
    <3>2. \A i \in DOMAIN dep : u[dep[i]] \in Seq(Nodes)
      BY <1>1
    <3>3. [i \in DOMAIN dep |-> u[dep[i]]] \in Seq(Seq(Nodes))
      BY <3>2
    <3>4. FlattenSeq([i \in DOMAIN dep |-> u[dep[i]]]) \in Seq(Nodes)
      BY <3>3, FlatIsTyped
    <3>5. QED BY <2>2, <3>1, <3>4 DEF UnderOne
  <2>3. QED BY <2>1, <2>2
<1>3. PICK more \in [Nat -> [X -> X]] :
        \A k \in Nat, u \in X : more[k][u] = [n \in Nodes |-> UnderOne(g, u, n)]
  <2>1. \A u \in X : [n \in Nodes |-> UnderOne(g, u, n)] \in X
    BY <1>1, <1>2
  <2>2. PICK m : m = [k \in Nat |-> [u \in X |-> [n \in Nodes |-> UnderOne(g, u, n)]]]
    OBVIOUS
  <2>3. m \in [Nat -> [X -> X]]
    BY <2>1, <2>2
  <2>4. QED BY <2>2, <2>3
<1>4. PICK none \in X : none = [n \in Nodes |-> <<>>]
  <2>1. \A n \in Nodes : <<>> \in Seq(Nodes)
    OBVIOUS
  <2>2. [n \in Nodes |-> <<>>] \in X
    BY <1>1, <2>1
  <2>3. QED BY <2>2
<1>5. PICK f \in [Nat -> X] : f[0] = none /\ \A k \in Nat : f[k + 1] = more[k][f[k]]
  <2>1. more \in [Nat -> [X -> X]]
    BY <1>3
  <2>2. none \in X
    BY <1>4
  <2>3. Recursions(X, none, more) # {}
    BY <2>1, <2>2, SomeRecursion
  <2>4. QED BY <2>3 DEF Recursions
<1>6. \A k \in Nat : \A n \in Nodes : f[k + 1][n] = UnderOne(g, f[k], n)
  <2>1. SUFFICES ASSUME NEW k \in Nat PROVE \A n \in Nodes : f[k + 1][n] = UnderOne(g, f[k], n)
    OBVIOUS
  <2>2. PICK u \in X : u = f[k]
    BY <1>5
  <2>3. f[k + 1] = [n \in Nodes |-> UnderOne(g, u, n)]
    BY <1>3, <1>5, <2>2
  <2>4. QED BY <2>2, <2>3
<1> DEFINE S == {k \in Nat : \A n \in Nodes : Rank(g, n) < k => f[k + 1][n] = f[k][n]}
<1>7. 0 \in S
  BY RankType
<1>8. ASSUME NEW k \in S PROVE k + 1 \in S
  <2>1. SUFFICES ASSUME NEW n \in Nodes, Rank(g, n) < k + 1
                 PROVE  f[(k + 1) + 1][n] = f[k + 1][n]
    OBVIOUS
  <2>2. PICK v, u : v = f[k + 1] /\ u = f[k]
    OBVIOUS
  <2>3. k \in Nat /\ \A m \in Nodes : Rank(g, m) < k => v[m] = u[m]
    BY <2>2
  <2>4. f[k + 1][n] = UnderOne(g, u, n) /\ f[(k + 1) + 1][n] = UnderOne(g, v, n)
    <3>1. k + 1 \in Nat
      BY <2>3
    <3>2. QED BY <1>6, <2>2, <2>3, <3>1
  <2>5. CASE n \in Builtins
    BY <2>4, <2>5 DEF UnderOne
  <2>6. CASE n \notin Builtins
    <3>1. PICK dep \in Seq(Nodes) : dep = g.depends[n] /\ n \in Tasks
      BY <2>6 DEF GraphOK, Nodes
    <3>2. ASSUME NEW i \in DOMAIN dep PROVE v[dep[i]] = u[dep[i]]
      <4>1. dep[i] \in ToSet(g.depends[n])
        BY <3>1 DEF ToSet
      <4>2. dep[i] \in Nodes /\ Rank(g, dep[i]) < Rank(g, n)
        BY <3>1, <4>1, DependsOnLess
      <4>3. Rank(g, dep[i]) < k
        BY <2>1, <2>3, <4>2, RankType
      <4>4. QED BY <2>3, <4>2, <4>3
    <3>3. [i \in DOMAIN dep |-> v[dep[i]]] = [i \in DOMAIN dep |-> u[dep[i]]]
      BY <3>2
    <3>4. QED BY <2>4, <2>6, <3>1, <3>3 DEF UnderOne
  <2>7. QED BY <2>5, <2>6
<1>9. S = Nat
  BY <1>7, <1>8, Induct
<1>10. PICK k \in Nat : k = Cardinality(Nodes) + 1
  BY NodesFinite
<1>11. \A n \in Nodes : Rank(g, n) < k
  BY <1>10, NodesFinite, RankType
<1>12. k \in S
  BY <1>9
<1>13. PICK u \in X : u = f[k]
  OBVIOUS
<1>14. \A n \in Nodes : u[n] = UnderOne(g, u, n)
  BY <1>6, <1>11, <1>12, <1>13
<1>15. u = [n \in Nodes |-> UnderOne(g, u, n)]
  BY <1>1, <1>14
<1>16. QED BY <1>15

\* plan: of roots among nodes that lead to no others, one of those nodes, in
\* which what a task depends on is before it.
LEMMA PlanIsOrdered ==
  ASSUME NEW g, GraphOK(g), ~Cyclic(g), NEW X \in SUBSET Nodes,
         \A t \in X \cap Tasks : ToSet(g.depends[t]) \subseteq X, NEW roots \in Seq(X)
  PROVE  Plan(g, roots) \in Plans(g, X)
<1> DEFINE under[n \in Nodes] ==
      IF n \in Builtins THEN <<n>>
      ELSE FlattenSeq([i \in DOMAIN g.depends[n] |-> under[g.depends[n][i]]]) \o <<n>>
<1>1. \E u : u = [n \in Nodes |->
              IF n \in Builtins THEN <<n>>
              ELSE FlattenSeq([i \in DOMAIN g.depends[n] |-> u[g.depends[n][i]]]) \o <<n>>]
  BY UnderExists DEF UnderOne
<1>2. under = [n \in Nodes |->
              IF n \in Builtins THEN <<n>>
              ELSE FlattenSeq([i \in DOMAIN g.depends[n] |-> under[g.depends[n][i]]]) \o <<n>>]
  BY <1>1
<1>3. Plan(g, roots) = Once(FlattenSeq([i \in DOMAIN roots |-> under[roots[i]]]))
  BY DEF Plan
<1> HIDE DEF under
<1>4. PICK u : u = under
  OBVIOUS
<1>5. \A n \in Nodes : u[n] = UnderOne(g, u, n)
  BY <1>2, <1>4 DEF UnderOne
<1> DEFINE S == {k \in Nat : \A n \in X : Rank(g, n) < k =>
                               u[n] \in Plans(g, X) /\ n \in ToSet(u[n])}
<1>6. 0 \in S
  BY RankType
<1>7. ASSUME NEW k \in S PROVE k + 1 \in S
  <2>1. SUFFICES ASSUME NEW n \in X, Rank(g, n) < k + 1
                 PROVE  u[n] \in Plans(g, X) /\ n \in ToSet(u[n])
    OBVIOUS
  <2>2. k \in Nat /\ \A m \in X : Rank(g, m) < k => u[m] \in Plans(g, X) /\ m \in ToSet(u[m])
    OBVIOUS
  <2>3. CASE n \in Builtins
    <3>1. u[n] = Append(<<>>, n) /\ n \notin Tasks
      <4>1. u[n] = <<n>>
        BY <1>5, <2>3 DEF UnderOne, Nodes
      <4>2. n \notin Tasks
        BY <2>3, TaskPlanAssumption
      <4>3. QED BY <4>1, <4>2
    <3>2. Append(<<>>, n) \in Plans(g, X) /\ ToSet(Append(<<>>, n)) = ToSet(<<>>) \cup {n}
      BY <3>1, NoPlan, PlansGrow
    <3>3. QED BY <3>1, <3>2
  <2>4. CASE n \notin Builtins
    <3>1. PICK dep \in Seq(Nodes) : dep = g.depends[n] /\ n \in Tasks
      BY <2>4 DEF GraphOK, Nodes
    <3>2. ASSUME NEW i \in DOMAIN dep
          PROVE  u[dep[i]] \in Plans(g, X) /\ dep[i] \in ToSet(u[dep[i]])
      <4>1. dep[i] \in ToSet(g.depends[n])
        BY <3>1 DEF ToSet
      <4>2. dep[i] \in X /\ Rank(g, dep[i]) < Rank(g, n)
        BY <3>1, <4>1, DependsOnLess
      <4>3. Rank(g, dep[i]) < k
        BY <2>1, <2>2, <4>2, RankType
      <4>4. QED BY <2>2, <4>2, <4>3
    <3>3. PICK s : s = [i \in DOMAIN dep |-> u[dep[i]]]
      OBVIOUS
    <3>4. s \in Seq(Plans(g, X)) /\ DOMAIN dep = 1..Len(s)
      BY <3>2, <3>3
    <3>5. PICK a : a = FlattenSeq(s)
      OBVIOUS
    <3>6. a \in Plans(g, X) /\ \A i \in 1..Len(s) : ToSet(s[i]) \subseteq ToSet(a)
      BY <3>4, <3>5, FlatIsPlan
    <3>7. ToSet(g.depends[n]) \subseteq ToSet(a)
      <4>1. \A i \in DOMAIN dep : dep[i] \in ToSet(s[i])
        BY <3>2, <3>3
      <4>2. \A i \in DOMAIN dep : dep[i] \in ToSet(a)
        BY <3>4, <3>6, <4>1
      <4>3. QED BY <3>1, <4>2 DEF ToSet
    <3>8. u[n] = a \o <<n>>
      BY <1>5, <2>4, <3>1, <3>3, <3>5 DEF UnderOne
    <3>9. a \o <<n>> = Append(a, n)
      BY <3>6 DEF Plans
    <3>10. Append(a, n) \in Plans(g, X) /\ ToSet(Append(a, n)) = ToSet(a) \cup {n}
      BY <3>1, <3>6, <3>7, PlansGrow
    <3>11. QED BY <3>8, <3>9, <3>10
  <2>5. QED BY <2>3, <2>4
<1>8. S = Nat
  BY <1>6, <1>7, Induct
<1>9. PICK k \in Nat : k = Cardinality(Nodes) + 1
  BY NodesFinite
<1>10. \A n \in X : Rank(g, n) < k
  BY <1>9, NodesFinite, RankType
<1>11. k \in S
  BY <1>8
<1>12. \A n \in X : u[n] \in Plans(g, X)
  BY <1>10, <1>11
<1>13. PICK s : s = [i \in DOMAIN roots |-> u[roots[i]]]
  OBVIOUS
<1>14. s \in Seq(Plans(g, X))
  BY <1>12, <1>13
<1>15. Plan(g, roots) = Once(FlattenSeq(s))
  BY <1>3, <1>4, <1>13
<1>16. QED BY <1>14, <1>15, FlatIsPlan, OnceIsPlan

-----------------------------------------------------------------------------
(* What a command has still to do.                                         *)

\* The steps of a command, and what one of them may run next.
Items ==
  {<<"step", n>> : n \in Nodes} \cup {<<"built", "build">>}
    \cup {<<"hook", h>> : h \in Hooks} \cup {<<"over", b>> : b \in Builtins}

Opens(g, item) ==
  IF item[1] = "step" THEN {item[2]}
  ELSE IF item[1] = "hook" THEN ToSet(g.hooks[item[2]])
  ELSE IF item[1] = "built" THEN Edges(g, "build")
  ELSE {}

\* Which steps see a node to its end.
Finishes(item, b) == item = <<"over", b>> \/ (b = "build" /\ item = <<"built", "build">>)
Brings(item, n) == item = <<"step", n>> \/ Finishes(item, n)

\* What a task to come depends on was run, or comes before it.
Provided(g, past, todo) ==
  \A i \in DOMAIN todo : \A t \in Tasks : todo[i] = <<"step", t>> =>
    \A d \in ToSet(g.depends[t]) : d \in past \/ \E j \in 1..(i - 1) : Brings(todo[j], d)

\* A built-in begun is over, or its end is to come.
Begun(past, done, todo) ==
  \A b \in done : b \in past \/ \E j \in DOMAIN todo : Finishes(todo[j], b)

\* What comes before the end of a built-in is what it leads to.
Within(g, todo) ==
  \A j \in DOMAIN todo : \A b \in Builtins : todo[j] = <<"over", b>> =>
    \A i \in 1..(j - 1) : Opens(g, todo[i]) \subseteq Reached(g, b)

BuiltFirst(todo) == \A j \in DOMAIN todo : todo[j] = <<"built", "build">> => j = 1

Agenda(g, past, done, todo) ==
  /\ todo \in Seq(Items)
  /\ Provided(g, past, todo)
  /\ Begun(past, done, todo)
  /\ Within(g, todo)
  /\ BuiltFirst(todo)

\* What was run, the task at hand with it.
Past == IF job.at \in AtATask THEN ToSet(job.over) \cup {job.task} ELSE ToSet(job.over)

GraphInv ==
  /\ {"graph", "asks"} \subseteq DOMAIN trial /\ GraphOK(Graph)
  /\ \A ask \in trial.asks : ask.run \in Nodes

OrderInv ==
  job.at # "idle" =>
    /\ ~Cyclic(Graph)
    /\ job.over \in Seq(Nodes) /\ job.done \subseteq Builtins
    /\ job.ran \subseteq Past /\ Past \cap Tasks \subseteq job.ran
    /\ Agenda(Graph, Past, job.done, job.todo)
    /\ job.at \in AtATask => /\ job.task \notin ToSet(job.over)
                             /\ ToSet(Graph.depends[job.task]) \subseteq ToSet(job.over)

\* A step is done, or gives way to others.
LEMMA AgendaGoesOn ==
  ASSUME NEW g, NEW past, NEW done, NEW todo, Agenda(g, past, done, todo), todo # <<>>,
         NEW past2, past \subseteq past2, NEW done2,
         NEW w \in Seq(Items), Provided(g, past2, w), Within(g, w), BuiltFirst(w),
         \A i \in 2..Len(todo) : \A t \in Tasks : todo[i] = <<"step", t>> =>
           \A d \in ToSet(g.depends[t]) : Brings(todo[1], d) =>
             \/ d \in past2
             \/ \E j \in DOMAIN w : Brings(w[j], d)
             \/ \E j \in 2..(i - 1) : Brings(todo[j], d),
         \A b \in done : Finishes(todo[1], b) =>
           b \in past2 \/ \E j \in DOMAIN w : Finishes(w[j], b),
         \A b \in done2 : b \in done \/ b \in past2 \/ \E j \in DOMAIN w : Finishes(w[j], b),
         \A b \in Builtins : Opens(g, todo[1]) \subseteq Reached(g, b) =>
           \A j \in DOMAIN w : Opens(g, w[j]) \subseteq Reached(g, b)
  PROVE  Agenda(g, past2, done2, w \o Tail(todo))
<1>1. todo \in Seq(Items) /\ Tail(todo) \in Seq(Items)
  BY DEF Agenda
<1>2. PICK m \in Nat, n \in Nat \ {0} :
        m = Len(w) /\ n = Len(todo) /\ DOMAIN w = 1..m /\ DOMAIN todo = 1..n
  BY <1>1
<1>3. PICK c \in Seq(Items) : c = w \o Tail(todo)
  <2>1. w \o Tail(todo) \in Seq(Items)
    BY <1>1
  <2>2. QED BY <2>1
<1>4. /\ DOMAIN c = 1..(m + n - 1)
      /\ \A i \in 1..m : c[i] = w[i]
      /\ \A k \in 2..n : c[m + k - 1] = todo[k] /\ m + k - 1 \in DOMAIN c
  BY <1>1, <1>2, <1>3
<1>5. ASSUME NEW i \in DOMAIN c, i \notin 1..m PROVE \E k \in 2..n : i = m + k - 1
  <2>1. i - m + 1 \in 2..n /\ i = m + (i - m + 1) - 1
    BY <1>2, <1>4, <1>5
  <2>2. QED BY <2>1
<1>6. Provided(g, past2, c)
  <2>1. SUFFICES ASSUME NEW i \in DOMAIN c, NEW t \in Tasks, c[i] = <<"step", t>>,
                        NEW d \in ToSet(g.depends[t]), d \notin past2
                 PROVE  \E j \in 1..(i - 1) : Brings(c[j], d)
    BY DEF Provided
  <2>2. CASE i \in 1..m
    <3>1. w[i] = <<"step", t>> /\ i \in DOMAIN w
      BY <1>2, <1>4, <2>1, <2>2
    <3>2. PICK j \in 1..(i - 1) : Brings(w[j], d)
      BY <2>1, <3>1 DEF Provided
    <3>3. j \in 1..m
      BY <2>2
    <3>4. QED BY <1>4, <3>2, <3>3
  <2>3. CASE i \notin 1..m
    <3>1. PICK k \in 2..n : i = m + k - 1
      BY <1>5, <2>3
    <3>2. todo[k] = <<"step", t>> /\ k \in DOMAIN todo /\ k \in 2..Len(todo)
      BY <1>2, <1>4, <2>1, <3>1
    <3>3. PICK j \in 1..(k - 1) : Brings(todo[j], d)
      BY <2>1, <3>2 DEF Agenda, Provided
    <3>4. \/ \E l \in DOMAIN w : Brings(w[l], d)
          \/ \E l \in 2..(k - 1) : Brings(todo[l], d)
      <4>1. CASE j = 1
        <5>1. Brings(todo[1], d)
          BY <3>3, <4>1
        <5>2. QED BY <2>1, <3>2, <5>1
      <4>2. CASE j # 1
        <5>1. j \in 2..(k - 1)
          BY <4>2
        <5>2. QED BY <3>3, <5>1
      <4>3. QED BY <4>1, <4>2
    <3>5. CASE \E l \in DOMAIN w : Brings(w[l], d)
      <4>1. PICK l \in 1..m : Brings(w[l], d)
        BY <1>2, <3>5
      <4>2. l \in 1..(i - 1)
        BY <3>1
      <4>3. QED BY <1>4, <4>1, <4>2
    <3>6. CASE \E l \in 2..(k - 1) : Brings(todo[l], d)
      <4>1. PICK l \in 2..(k - 1) : Brings(todo[l], d)
        BY <3>6
      <4>2. l \in 2..n /\ m + l - 1 \in 1..(i - 1)
        BY <3>1
      <4>3. c[m + l - 1] = todo[l]
        BY <1>4, <4>2
      <4>4. QED BY <4>1, <4>2, <4>3
    <3>7. QED BY <3>4, <3>5, <3>6
  <2>4. QED BY <2>2, <2>3
<1>7. ASSUME NEW b, \E j \in DOMAIN w : Finishes(w[j], b)
      PROVE  \E j \in DOMAIN c : Finishes(c[j], b)
  <2>1. PICK j \in 1..m : Finishes(w[j], b)
    BY <1>2, <1>7
  <2>2. j \in DOMAIN c /\ c[j] = w[j]
    BY <1>2, <1>4
  <2>3. QED BY <2>1, <2>2
<1>8. Begun(past2, done2, c)
  <2>1. SUFFICES ASSUME NEW b \in done2, b \notin past2
                 PROVE  \E j \in DOMAIN c : Finishes(c[j], b)
    BY DEF Begun
  <2>2. CASE b \in done
    <3>1. PICK j \in DOMAIN todo : Finishes(todo[j], b)
      BY <2>1, <2>2 DEF Agenda, Begun
    <3>2. CASE j = 1
      <4>1. \E l \in DOMAIN w : Finishes(w[l], b)
        BY <2>1, <2>2, <3>1, <3>2
      <4>2. QED BY <1>7, <4>1
    <3>3. CASE j # 1
      <4>1. j \in 2..n
        BY <1>2, <3>3
      <4>2. c[m + j - 1] = todo[j] /\ m + j - 1 \in DOMAIN c
        BY <1>4, <4>1
      <4>3. QED BY <3>1, <4>2
    <3>4. QED BY <3>2, <3>3
  <2>3. CASE b \notin done
    <3>1. \E l \in DOMAIN w : Finishes(w[l], b)
      BY <2>1, <2>3
    <3>2. QED BY <1>7, <3>1
  <2>4. QED BY <2>2, <2>3
<1>9. Within(g, c)
  <2>1. SUFFICES ASSUME NEW j \in DOMAIN c, NEW b \in Builtins, c[j] = <<"over", b>>,
                        NEW i \in 1..(j - 1)
                 PROVE  Opens(g, c[i]) \subseteq Reached(g, b)
    BY DEF Within
  <2>2. i \in DOMAIN c
    BY <1>2, <1>4
  <2>3. CASE j \in 1..m
    <3>1. j \in DOMAIN w /\ w[j] = <<"over", b>> /\ i \in 1..m /\ c[i] = w[i]
      BY <1>2, <1>4, <2>1, <2>3
    <3>2. QED BY <3>1 DEF Within
  <2>4. CASE j \notin 1..m
    <3>1. PICK k \in 2..n : j = m + k - 1
      BY <1>5, <2>4
    <3>2. todo[k] = <<"over", b>> /\ k \in DOMAIN todo
      BY <1>2, <1>4, <2>1, <3>1
    <3>3. \A l \in 1..(k - 1) : Opens(g, todo[l]) \subseteq Reached(g, b)
      BY <3>2 DEF Agenda, Within
    <3>4. CASE i \in 1..m
      <4>1. 1 \in 1..(k - 1)
        OBVIOUS
      <4>2. Opens(g, todo[1]) \subseteq Reached(g, b)
        BY <3>3, <4>1
      <4>3. QED BY <1>2, <1>4, <3>4, <4>2
    <3>5. CASE i \notin 1..m
      <4>1. PICK l \in 2..n : i = m + l - 1
        BY <1>5, <2>2, <3>5
      <4>2. l \in 1..(k - 1)
        BY <1>2, <3>1, <4>1
      <4>3. c[i] = todo[l]
        BY <1>4, <4>1
      <4>4. QED BY <3>3, <4>2, <4>3
    <3>6. QED BY <3>4, <3>5
  <2>5. QED BY <2>3, <2>4
<1>10. BuiltFirst(c)
  <2>1. SUFFICES ASSUME NEW j \in DOMAIN c, c[j] = <<"built", "build">> PROVE j = 1
    BY DEF BuiltFirst
  <2>2. CASE j \in 1..m
    BY <1>2, <1>4, <2>1, <2>2 DEF BuiltFirst
  <2>3. CASE j \notin 1..m
    <3>1. PICK k \in 2..n : j = m + k - 1
      BY <1>5, <2>3
    <3>2. todo[k] = <<"built", "build">> /\ k \in DOMAIN todo
      BY <1>2, <1>4, <2>1, <3>1
    <3>3. k = 1
      BY <3>2 DEF Agenda, BuiltFirst
    <3>4. QED BY <3>1, <3>3
  <2>4. QED BY <2>2, <2>3
<1>11. QED BY <1>3, <1>6, <1>8, <1>9, <1>10 DEF Agenda

\* Steps that may come next: they bring what they need.
Opening(g, w) == w \in Seq(Items) /\ (\A past : Provided(g, past, w)) /\ Within(g, w) /\ BuiltFirst(w)

LEMMA NothingOpens == ASSUME NEW g PROVE Opening(g, <<>>)
<1>1. <<>> \in Seq(Items) /\ \A i \in DOMAIN <<>> : FALSE
  OBVIOUS
<1>2. QED BY <1>1 DEF Opening, Provided, Within, BuiltFirst

LEMMA HooksEdges ==
  ASSUME NEW g
  PROVE  /\ \A h \in {"pre-compile", "post-compile"} : ToSet(g.hooks[h]) \subseteq Edges(g, "build")
         /\ \A h \in Hooks : ToSet(g.hooks[h]) \subseteq Edges(g, "test")
         /\ Edges(g, "build") \subseteq Edges(g, "test")
<1>1. "build" \notin Tasks /\ "test" \notin Tasks
  BY TaskPlanAssumption DEF Builtins
<1>2. QED BY <1>1 DEF Edges, HooksOf, Hooks

LEMMA BuildingOpens ==
  ASSUME NEW g, GraphOK(g)
  PROVE  /\ Opening(g, Building)
         /\ \E j \in DOMAIN Building : Finishes(Building[j], "build")
         /\ \A j \in DOMAIN Building : Opens(g, Building[j]) \subseteq Edges(g, "build")
<1>1. PICK w : w = Building
  OBVIOUS
<1>2. /\ DOMAIN w = 1..3 /\ w[1] = <<"hook", "pre-compile">> /\ w[2] = <<"hook", "post-compile">>
      /\ w[3] = <<"over", "build">>
  BY <1>1 DEF Building
<1>3. w \in Seq(Items)
  <2>1. PICK a \in Items, b \in Items, c \in Items :
          a = <<"hook", "pre-compile">> /\ b = <<"hook", "post-compile">> /\ c = <<"over", "build">>
    BY DEF Items, Hooks, Builtins
  <2>2. w = <<a, b, c>>
    BY <1>1, <2>1 DEF Building
  <2>3. QED BY <2>2
<1>4. \A j \in DOMAIN w : Opens(g, w[j]) \subseteq Edges(g, "build")
  BY <1>2, HooksEdges DEF Opens
<1>5. Edges(g, "build") \subseteq Reached(g, "build")
  BY ReachedIsLeast
<1>6. \A j \in DOMAIN w : (\A t : w[j] # <<"step", t>>) /\ w[j] # <<"built", "build">>
  BY <1>2
<1>7. \A j \in DOMAIN w : \A b : w[j] = <<"over", b>> => b = "build"
  BY <1>2
<1>8. Within(g, w)
  <2>1. SUFFICES ASSUME NEW j \in DOMAIN w, NEW b \in Builtins, w[j] = <<"over", b>>,
                        NEW i \in 1..(j - 1)
                 PROVE  Opens(g, w[i]) \subseteq Reached(g, b)
    BY DEF Within
  <2>2. b = "build" /\ i \in DOMAIN w
    BY <1>2, <1>7, <2>1
  <2>3. QED BY <1>4, <1>5, <2>2
<1>9. Opening(g, w)
  BY <1>3, <1>6, <1>8 DEF Opening, Provided, BuiltFirst
<1>10. Finishes(w[3], "build") /\ 3 \in DOMAIN w
  BY <1>2 DEF Finishes
<1>11. QED BY <1>1, <1>4, <1>9, <1>10

LEMMA WorkOpens ==
  ASSUME NEW g, GraphOK(g), NEW b \in Builtins
  PROVE  /\ Opening(g, Work(b))
         /\ \E j \in DOMAIN Work(b) : Finishes(Work(b)[j], b)
         /\ \A j \in DOMAIN Work(b) : Opens(g, Work(b)[j]) \subseteq Edges(g, b)
<1>1. PICK w : w = Work(b)
  OBVIOUS
<1>2. Edges(g, b) \subseteq Reached(g, b)
  BY ReachedIsLeast
<1>3. CASE b = "build"
  <2>1. DOMAIN w = {1} /\ w[1] = <<"built", "build">>
    BY <1>1, <1>3 DEF Work
  <2>2. PICK a \in Items : a = <<"built", "build">>
    BY DEF Items
  <2>3. w \in Seq(Items)
    <3>1. w = <<a>>
      BY <1>1, <1>3, <2>2 DEF Work
    <3>2. QED BY <3>1
  <2>4. \A j \in DOMAIN w : j = 1 /\ (\A t : w[j] # <<"step", t>>) /\ (\A c : w[j] # <<"over", c>>)
    BY <2>1
  <2>5. Opening(g, w)
    BY <2>3, <2>4 DEF Opening, Provided, BuiltFirst, Within
  <2>6. Finishes(w[1], b) /\ Opens(g, w[1]) = Edges(g, b)
    BY <1>3, <2>1 DEF Finishes, Opens
  <2>7. QED BY <1>1, <2>1, <2>4, <2>5, <2>6
<1>4. CASE b = "test"
  <2>1. /\ DOMAIN w = 1..4 /\ w[1] = <<"built", "build">> /\ w[2] = <<"hook", "pre-test">>
        /\ w[3] = <<"hook", "post-test">> /\ w[4] = <<"over", "test">>
    BY <1>1, <1>4 DEF Work
  <2>2. w \in Seq(Items)
    <3>1. PICK a \in Items, h \in Items, i \in Items, o \in Items :
            /\ a = <<"built", "build">> /\ h = <<"hook", "pre-test">>
            /\ i = <<"hook", "post-test">> /\ o = <<"over", "test">>
      BY DEF Items, Hooks, Builtins
    <3>2. w = <<a, h, i, o>>
      BY <1>1, <1>4, <3>1 DEF Work
    <3>3. QED BY <3>2
  <2>3. \A j \in DOMAIN w : Opens(g, w[j]) \subseteq Edges(g, "test")
    BY <2>1, HooksEdges DEF Opens, Hooks
  <2>4. \A j \in DOMAIN w : /\ \A t : w[j] # <<"step", t>>
                            /\ w[j] = <<"built", "build">> => j = 1
                            /\ \A c : w[j] = <<"over", c>> => c = "test"
    BY <2>1
  <2>5. Within(g, w)
    <3>1. SUFFICES ASSUME NEW j \in DOMAIN w, NEW c \in Builtins, w[j] = <<"over", c>>,
                          NEW i \in 1..(j - 1)
                   PROVE  Opens(g, w[i]) \subseteq Reached(g, c)
      BY DEF Within
    <3>2. c = "test" /\ i \in DOMAIN w
      BY <2>1, <2>4, <3>1
    <3>3. QED BY <1>2, <1>4, <2>3, <3>2
  <2>6. Opening(g, w)
    BY <2>2, <2>4, <2>5 DEF Opening, Provided, BuiltFirst
  <2>7. Finishes(w[4], b) /\ 4 \in DOMAIN w
    BY <1>4, <2>1 DEF Finishes
  <2>8. QED BY <1>1, <1>4, <2>3, <2>6, <2>7
<1>5. QED BY <1>3, <1>4 DEF Builtins

LEMMA StepsOpen ==
  ASSUME NEW g, NEW X \in SUBSET Nodes, NEW p \in Plans(g, X)
  PROVE  /\ Opening(g, Steps(p))
         /\ \A j \in DOMAIN Steps(p) : Opens(g, Steps(p)[j]) \subseteq X
<1>1. PICK w : w = Steps(p)
  OBVIOUS
<1>2. PICK n \in Nat : n = Len(p) /\ DOMAIN p = 1..n /\ \A i \in 1..n : p[i] \in X
  BY DEF Plans
<1>3. DOMAIN w = 1..n /\ \A i \in 1..n : w[i] = <<"step", p[i]>>
  BY <1>1, <1>2 DEF Steps
<1>4. w \in Seq(Items)
  <2>1. \A i \in 1..n : w[i] \in Items
    BY <1>2, <1>3 DEF Items
  <2>2. w = [i \in 1..n |-> w[i]]
    BY <1>1, <1>2 DEF Steps
  <2>3. QED BY <2>1, <2>2
<1>5. \A i \in DOMAIN w : (\A b : w[i] # <<"over", b>>) /\ w[i] # <<"built", "build">>
  BY <1>3
<1>6. ASSUME NEW past PROVE Provided(g, past, w)
  <2>1. SUFFICES ASSUME NEW i \in DOMAIN w, NEW t \in Tasks, w[i] = <<"step", t>>,
                        NEW d \in ToSet(g.depends[t])
                 PROVE  \E j \in 1..(i - 1) : Brings(w[j], d)
    BY DEF Provided
  <2>2. p[i] = t /\ i \in 1..Len(p)
    BY <1>2, <1>3, <2>1
  <2>3. PICK j \in 1..(i - 1) : p[j] = d
    BY <2>1, <2>2 DEF Plans, Ordered
  <2>4. j \in 1..n
    BY <1>2, <2>2
  <2>5. Brings(w[j], d)
    BY <1>3, <2>3, <2>4 DEF Brings
  <2>6. QED BY <2>5
<1>7. Opening(g, w)
  BY <1>4, <1>5, <1>6 DEF Opening, Within, BuiltFirst
<1>8. \A j \in DOMAIN w : Opens(g, w[j]) \subseteq X
  BY <1>2, <1>3 DEF Opens
<1>9. QED BY <1>1, <1>7, <1>8

LEMMA AgendaBegins ==
  ASSUME NEW g, NEW past, NEW w, Opening(g, w)
  PROVE  Agenda(g, past, {}, w)
BY DEF Opening, Agenda, Begun

\* A step that is done makes way.
LEMMA AgendaShrinks ==
  ASSUME NEW g, NEW past, NEW done, NEW todo, Agenda(g, past, done, todo), todo # <<>>,
         NEW past2, past \subseteq past2,
         \A i \in 2..Len(todo) : \A t \in Tasks : todo[i] = <<"step", t>> =>
           \A d \in ToSet(g.depends[t]) : Brings(todo[1], d) =>
             d \in past2 \/ \E j \in 2..(i - 1) : Brings(todo[j], d),
         \A b : Finishes(todo[1], b) => b \in past2
  PROVE  Agenda(g, past2, done, Tail(todo))
<1>1. PICK w : w = <<>>
  OBVIOUS
<1>2. /\ w \in Seq(Items) /\ Provided(g, past2, w) /\ Within(g, w) /\ BuiltFirst(w)
      /\ DOMAIN w = {}
  <2>1. Opening(g, w) /\ DOMAIN w = {}
    BY <1>1, NothingOpens
  <2>2. QED BY <2>1 DEF Opening
<1>3. Agenda(g, past2, done, w \o Tail(todo))
  BY <1>2, AgendaGoesOn
<1>4. w \o Tail(todo) = Tail(todo)
  <2>1. Tail(todo) \in Seq(Items)
    BY DEF Agenda
  <2>2. QED BY <1>1, <2>1
<1>5. QED BY <1>3, <1>4

\* A step gives way to what it opens.
LEMMA AgendaOpens ==
  ASSUME NEW g, NEW past, NEW done, NEW todo, Agenda(g, past, done, todo), todo # <<>>,
         NEW w, Opening(g, w), NEW new,
         \A n : Brings(todo[1], n) => \E j \in DOMAIN w : Finishes(w[j], n),
         \A b \in new : \E j \in DOMAIN w : Finishes(w[j], b),
         \A b \in Builtins : Opens(g, todo[1]) \subseteq Reached(g, b) =>
           \A j \in DOMAIN w : Opens(g, w[j]) \subseteq Reached(g, b)
  PROVE  Agenda(g, past, done \cup new, w \o Tail(todo))
<1>1. w \in Seq(Items) /\ Provided(g, past, w) /\ Within(g, w) /\ BuiltFirst(w)
  BY DEF Opening
<1>2. \A n : Finishes(todo[1], n) => Brings(todo[1], n)
  BY DEF Brings
<1>3. \A d : Brings(todo[1], d) => \E j \in DOMAIN w : Brings(w[j], d)
  BY DEF Brings
<1>4. PICK done2 : done2 = done \cup new
  OBVIOUS
<1>5. \A b \in done2 : b \in done \/ b \in past \/ \E j \in DOMAIN w : Finishes(w[j], b)
  BY <1>4
<1>6. \A b \in done : Finishes(todo[1], b) => \E j \in DOMAIN w : Finishes(w[j], b)
  BY <1>2
<1>7. Agenda(g, past, done2, w \o Tail(todo))
  BY <1>1, <1>3, <1>5, <1>6, AgendaGoesOn
<1>8. QED BY <1>4, <1>7

\* What was run or begun is not run again.  A built-in that has begun and is
\* not over comes to its end before the tasks that depend on it: what comes
\* before its end is what it leads to, and there is no cycle.
LEMMA SkipGoesOn ==
  ASSUME NEW g, GraphOK(g), ~Cyclic(g), NEW past, NEW done, NEW todo,
         Agenda(g, past, done, todo), todo # <<>>,
         NEW n, todo[1] = <<"step", n>>, n \in past \cup done
  PROVE  Agenda(g, past, done, Tail(todo))
<1>1. \A d : Brings(todo[1], d) => d = n
  BY DEF Brings, Finishes
<1>2. \A b : ~Finishes(todo[1], b)
  BY DEF Finishes
<1>3. ASSUME NEW i \in 2..Len(todo), NEW t \in Tasks, todo[i] = <<"step", t>>,
             n \in ToSet(g.depends[t]), n \notin past
      PROVE  \E j \in 2..(i - 1) : Brings(todo[j], n)
  <2>1. DOMAIN todo = 1..Len(todo) /\ Len(todo) \in Nat
    BY DEF Agenda
  <2>2. PICK j \in DOMAIN todo : Finishes(todo[j], n)
    BY <1>3 DEF Agenda, Begun
  <2>3. j # 1
    BY <1>2, <2>2
  <2>4. todo[j] = <<"over", n>>
    BY <2>2, <2>3 DEF Finishes, Agenda, BuiltFirst
  <2>5. j # i
    BY <1>3, <2>4
  <2>6. n \in Builtins
    <3>1. todo[j] \in Items
      BY <2>2 DEF Agenda
    <3>2. QED BY <2>4, <3>1 DEF Items
  <2>7. ASSUME i < j PROVE FALSE
    <3>1. i \in 1..(j - 1)
      BY <2>1, <2>7
    <3>2. Opens(g, todo[i]) \subseteq Reached(g, n)
      BY <2>4, <2>6, <3>1 DEF Agenda, Within
    <3>3. t \in Reached(g, n)
      BY <1>3, <3>2 DEF Opens
    <3>4. n \in Edges(g, t)
      BY <1>3 DEF Edges
    <3>5. n \in Reached(g, n) /\ n \in Reached(g, t)
      BY <3>3, <3>4, ReachedIsLeast
    <3>6. QED BY <3>5 DEF Cyclic
  <2>8. j \in 2..(i - 1)
    BY <2>1, <2>3, <2>5, <2>7
  <2>9. QED BY <2>2, <2>8 DEF Brings
<1>4. QED BY <1>1, <1>2, <1>3, AgendaShrinks

\* A task's turn comes when all it depends on was run.
LEMMA TaskGoesOn ==
  ASSUME NEW g, NEW past, NEW done, NEW todo, Agenda(g, past, done, todo), todo # <<>>,
         NEW t \in Tasks, todo[1] = <<"step", t>>
  PROVE  Agenda(g, past \cup {t}, done, Tail(todo)) /\ ToSet(g.depends[t]) \subseteq past
<1>1. \A d : Brings(todo[1], d) => d = t
  BY DEF Brings, Finishes
<1>2. \A b : ~Finishes(todo[1], b)
  BY DEF Finishes
<1>3. PICK past2 : past2 = past \cup {t}
  OBVIOUS
<1>4. Agenda(g, past2, done, Tail(todo))
  BY <1>1, <1>2, <1>3, AgendaShrinks
<1>5. 1 \in DOMAIN todo /\ \A j \in 1..(1 - 1) : FALSE
  BY DEF Agenda
<1>6. ToSet(g.depends[t]) \subseteq past
  BY <1>5 DEF Agenda, Provided
<1>7. QED BY <1>3, <1>4, <1>6

LEMMA BuiltinGoesOn ==
  ASSUME NEW g, GraphOK(g), NEW past, NEW done, NEW todo, Agenda(g, past, done, todo), todo # <<>>,
         NEW b \in Builtins, todo[1] = <<"step", b>>
  PROVE  Agenda(g, past, done \cup {b}, Work(b) \o Tail(todo))
<1>1. PICK w : w = Work(b)
  OBVIOUS
<1>2. /\ Opening(g, w) /\ \E j \in DOMAIN w : Finishes(w[j], b)
      /\ \A j \in DOMAIN w : Opens(g, w[j]) \subseteq Edges(g, b)
  BY <1>1, WorkOpens
<1>3. \A n : Brings(todo[1], n) => n = b
  BY DEF Brings, Finishes
<1>4. \A c \in Builtins : Opens(g, todo[1]) \subseteq Reached(g, c) =>
        \A j \in DOMAIN w : Opens(g, w[j]) \subseteq Reached(g, c)
  <2>1. Opens(g, todo[1]) = {b}
    BY DEF Opens
  <2>2. \A c : b \in Reached(g, c) => Edges(g, b) \subseteq Reached(g, c)
    BY ReachedIsLeast
  <2>3. QED BY <1>2, <2>1, <2>2
<1>5. PICK new : new = {b}
  OBVIOUS
<1>6. Agenda(g, past, done \cup new, w \o Tail(todo))
  BY <1>2, <1>3, <1>4, <1>5, AgendaOpens
<1>7. QED BY <1>1, <1>5, <1>6

LEMMA BuiltGoesOn ==
  ASSUME NEW g, GraphOK(g), NEW past, NEW done, NEW todo, Agenda(g, past, done, todo), todo # <<>>,
         todo[1] = <<"built", "build">>
  PROVE  /\ "build" \in past => Agenda(g, past, done, Tail(todo))
         /\ Agenda(g, past, done, Building \o Tail(todo))
<1>1. \A n : Brings(todo[1], n) => n = "build"
  BY DEF Brings, Finishes
<1>2. \A b : Finishes(todo[1], b) => b = "build"
  BY DEF Finishes
<1>3. ASSUME "build" \in past PROVE Agenda(g, past, done, Tail(todo))
  BY <1>1, <1>2, <1>3, AgendaShrinks
<1>4. PICK w : w = Building
  OBVIOUS
<1>5. /\ Opening(g, w) /\ \E j \in DOMAIN w : Finishes(w[j], "build")
      /\ \A j \in DOMAIN w : Opens(g, w[j]) \subseteq Edges(g, "build")
  BY <1>4, BuildingOpens
<1>6. Opens(g, todo[1]) = Edges(g, "build")
  BY DEF Opens
<1>7. PICK new : new = {}
  OBVIOUS
<1>8. Agenda(g, past, done \cup new, w \o Tail(todo))
  BY <1>1, <1>5, <1>6, <1>7, AgendaOpens
<1>9. done \cup new = done
  BY <1>7
<1>10. QED BY <1>3, <1>4, <1>8, <1>9

LEMMA HookGoesOn ==
  ASSUME NEW g, GraphOK(g), ~Cyclic(g), NEW past, NEW done, NEW todo,
         Agenda(g, past, done, todo), todo # <<>>,
         NEW h \in Hooks, todo[1] = <<"hook", h>>
  PROVE  Agenda(g, past, done, Steps(Plan(g, g.hooks[h])) \o Tail(todo))
<1>1. PICK p, w : p = Plan(g, g.hooks[h]) /\ w = Steps(p)
  OBVIOUS
<1>2. g.hooks[h] \in Seq(Nodes)
  BY DEF GraphOK
<1>3. ASSUME NEW X \in SUBSET Nodes, ToSet(g.hooks[h]) \subseteq X,
             \A t \in X \cap Tasks : Edges(g, t) \subseteq X
      PROVE  Opening(g, w) /\ \A j \in DOMAIN w : Opens(g, w[j]) \subseteq X
  <2>1. PICK roots \in Seq(X) : roots = g.hooks[h]
    <3>1. \A i \in DOMAIN g.hooks[h] : g.hooks[h][i] \in X
      BY <1>3 DEF ToSet
    <3>2. g.hooks[h] \in Seq(X)
      BY <1>2, <3>1
    <3>3. QED BY <3>2
  <2>2. \A t \in X \cap Tasks : ToSet(g.depends[t]) \subseteq X
    BY <1>3 DEF Edges
  <2>3. p \in Plans(g, X)
    BY <1>1, <2>1, <2>2, PlanIsOrdered
  <2>4. QED BY <1>1, <2>3, StepsOpen
<1>4. Opening(g, w)
  <2>1. ToSet(g.hooks[h]) \subseteq Nodes
    BY <1>2 DEF ToSet
  <2>2. QED BY <1>3, <2>1, EdgesType
<1>5. ASSUME NEW b \in Builtins, Opens(g, todo[1]) \subseteq Reached(g, b)
      PROVE  \A j \in DOMAIN w : Opens(g, w[j]) \subseteq Reached(g, b)
  <2>1. PICK X : X = Reached(g, b)
    OBVIOUS
  <2>2. X \in SUBSET Nodes /\ \A t \in X : Edges(g, t) \subseteq X
    BY <2>1, ReachedIsLeast
  <2>3. ToSet(g.hooks[h]) \subseteq X
    BY <1>5, <2>1 DEF Opens
  <2>4. QED BY <1>3, <2>1, <2>2, <2>3
<1>6. \A n : ~Brings(todo[1], n)
  BY DEF Brings, Finishes
<1>7. PICK new : new = {}
  OBVIOUS
<1>8. Agenda(g, past, done \cup new, w \o Tail(todo))
  BY <1>4, <1>5, <1>6, <1>7, AgendaOpens
<1>9. done \cup new = done
  BY <1>7
<1>10. QED BY <1>1, <1>8, <1>9

LEMMA OverGoesOn ==
  ASSUME NEW g, NEW past, NEW done, NEW todo, Agenda(g, past, done, todo), todo # <<>>,
         NEW b, todo[1] = <<"over", b>>
  PROVE  Agenda(g, past \cup {b}, done, Tail(todo))
<1>1. \A n : (Brings(todo[1], n) \/ Finishes(todo[1], n)) => n = b
  BY DEF Brings, Finishes
<1>2. PICK past2 : past2 = past \cup {b}
  OBVIOUS
<1>3. Agenda(g, past2, done, Tail(todo))
  BY <1>1, <1>2, AgendaShrinks
<1>4. QED BY <1>2, <1>3

-----------------------------------------------------------------------------
(* The steps of a command, in the order of its agenda.                     *)

LEMMA OrderInit == Init => GraphInv /\ OrderInv
<1> SUFFICES ASSUME Init PROVE GraphInv /\ OrderInv
  OBVIOUS
<1>1. trial \in Trials /\ job.at = "idle"
  BY DEF Init, NoJob
<1>2. GraphInv
  BY <1>1, TasksAssumption DEF GraphInv, GraphOK, Graph
<1>3. QED BY <1>1, <1>2 DEF OrderInv

\* What may still happen says nothing of the graph.
LEMMA SpendKeeps ==
  ASSUME GraphInv, NEW what, what \notin {"graph", "asks"}, Spend(what)
  PROVE  GraphInv' /\ Graph' = Graph
<1>1. trial' = [trial EXCEPT ![what] = trial[what] - 1]
  BY DEF Spend
<1>2. DOMAIN trial' = DOMAIN trial /\ trial'.graph = trial.graph /\ trial'.asks = trial.asks
  BY <1>1 DEF GraphInv
<1>3. QED BY <1>2 DEF GraphInv, Graph

LEMMA GraphKept ==
  ASSUME GraphInv, [Next]_vars
  PROVE  GraphInv' /\ Graph' = Graph
<1>1. CASE trial' = trial
  BY <1>1 DEF GraphInv, Graph
<1>2. ASSUME NEW what, what \notin {"graph", "asks"}, Spend(what) PROVE GraphInv' /\ Graph' = Graph
  BY <1>2, SpendKeeps
<1>3. \/ trial' = trial
      \/ \E what \in {"commands", "failures", "kills", "saves", "races", "changes", "edits", "cleans"} :
           Spend(what)
  BY DEF Next, vars, Command, Step, Open, Finish, Prepare, Key, Unsay, ClearOut, PutBack, Run, Ran,
         Fail, Imprint, Outs, SaveEntry, Booked, Books, Kill, Save, EditManifest, Edit, Clean
<1>4. QED BY <1>1, <1>2, <1>3

\* What a command is for: its graph, agenda and past.
Runs(g, past) ==
  /\ ~Cyclic(g)
  /\ job.over \in Seq(Nodes) /\ job.done \subseteq Builtins
  /\ job.ran \subseteq past /\ past \cap Tasks \subseteq job.ran
  /\ Agenda(g, past, job.done, job.todo)

LEMMA CommandOrders ==
  ASSUME GraphInv, Command, Graph' = Graph
  PROVE  OrderInv'
<1>1. PICK ask \in trial.asks :
        /\ job'.at = "step" /\ job'.ran = {} /\ job'.done = {} /\ job'.over = <<>>
        /\ job'.todo = IF ask.run \in Tasks THEN Steps(Plan(Graph, <<ask.run>>)) ELSE Work(ask.run)
  BY DEF Command
<1>a. PICK g : g = Graph
  OBVIOUS
<1>b. PICK n \in Nodes : n = ask.run
  BY DEF GraphInv
<1>2. g = Graph /\ n = ask.run
  BY <1>a, <1>b
<1>3. GraphOK(g) /\ ~Cyclic(g)
  BY <1>2 DEF GraphInv, Command
<1>4. Past' = {} /\ job'.over \in Seq(Nodes) /\ job'.at \notin AtATask
  <2>1. <<>> \in Seq(Nodes) /\ ToSet(<<>>) = {}
    BY DEF ToSet
  <2>2. QED BY <1>1, <2>1 DEF Past, AtATask
<1>5. CASE n \in Tasks
  <2>1. PICK roots \in Seq(Nodes) : roots = <<n>>
    <3>1. <<n>> \in Seq(Nodes)
      OBVIOUS
    <3>2. QED BY <3>1
  <2>2. PICK X \in SUBSET Nodes : X = Nodes
    OBVIOUS
  <2>3. \A t \in X \cap Tasks : ToSet(g.depends[t]) \subseteq X
    BY <1>3, <2>2, EdgesType DEF Edges
  <2>4. PICK p \in Plans(g, X) : p = Plan(g, roots)
    BY <1>3, <2>1, <2>2, <2>3, PlanIsOrdered
  <2>5. Opening(g, Steps(p))
    BY <2>4, StepsOpen
  <2>6. Agenda(g, {}, {}, Steps(p))
    BY <2>5, AgendaBegins
  <2>7. job'.todo = Steps(p)
    BY <1>1, <1>2, <1>5, <2>1, <2>4
  <2>8. Agenda(g, {}, {}, job'.todo)
    BY <2>6, <2>7
  <2>9. QED BY <1>1, <1>2, <1>3, <2>8, <1>4 DEF OrderInv
<1>6. CASE n \notin Tasks
  <2>1. n \in Builtins
    BY <1>6 DEF Nodes
  <2>2. Agenda(g, {}, {}, Work(n))
    BY <1>3, <2>1, WorkOpens, AgendaBegins
  <2>3. Agenda(g, {}, {}, job'.todo)
    BY <1>1, <1>2, <1>6, <2>2
  <2>4. QED BY <1>1, <1>2, <1>3, <2>3, <1>4 DEF OrderInv
<1>7. QED BY <1>5, <1>6

\* The agenda's next step, of a command between two tasks.
LEMMA NextStep ==
  ASSUME Shape, GraphInv, OrderInv, job.at = "step", NEW kind, Todo(kind)
  PROVE  /\ DOMAIN job = JobFields /\ GraphOK(Graph) /\ ~Cyclic(Graph)
         /\ Past = ToSet(job.over)
         /\ job.over \in Seq(Nodes) /\ job.done \subseteq Builtins
         /\ job.ran \subseteq Past /\ Past \cap Tasks \subseteq job.ran
         /\ Agenda(Graph, Past, job.done, job.todo) /\ job.todo # <<>>
         /\ Head(job.todo) = job.todo[1] /\ job.todo[1] \in Items /\ job.todo[1] = <<kind, Item>>
<1>1. /\ DOMAIN job = JobFields /\ GraphOK(Graph) /\ ~Cyclic(Graph)
      /\ Past = ToSet(job.over)
      /\ job.over \in Seq(Nodes) /\ job.done \subseteq Builtins
      /\ job.ran \subseteq Past /\ Past \cap Tasks \subseteq job.ran
      /\ Agenda(Graph, Past, job.done, job.todo)
  BY DEF Shape, GraphInv, OrderInv, Past, AtATask
<1>2. PICK todo \in Seq(Items) : todo = job.todo
  BY <1>1 DEF Agenda
<1>3. todo # <<>> /\ Head(todo)[1] = kind
  BY <1>2 DEF Todo
<1>4. Head(todo) = todo[1] /\ todo[1] \in Items
  BY <1>2, <1>3
<1>5. \A item \in Items : item = <<item[1], item[2]>>
  BY DEF Items
<1>6. QED BY <1>1, <1>2, <1>3, <1>4, <1>5 DEF Item

LEMMA StepOrders ==
  ASSUME Shape, GraphInv, OrderInv, Step, Graph' = Graph
  PROVE  OrderInv'
<1>1. job.at = "step" /\ Todo("step")
  BY DEF Step, Todo, At
<1>2. PICK g, past, done, todo, n :
        g = Graph /\ past = Past /\ done = job.done /\ todo = job.todo /\ n = Item
  OBVIOUS
<1>3. /\ DOMAIN job = JobFields /\ GraphOK(g) /\ ~Cyclic(g) /\ past = ToSet(job.over)
      /\ job.over \in Seq(Nodes) /\ done \subseteq Builtins
      /\ job.ran \subseteq past /\ past \cap Tasks \subseteq job.ran
      /\ Agenda(g, past, done, todo) /\ todo # <<>>
      /\ todo[1] = <<"step", n>> /\ todo[1] \in Items
  BY <1>1, <1>2, NextStep
<1>4. n \in Nodes
  BY <1>3 DEF Items
<1>5. CASE n \in job.ran \cup job.done
  <2>1. job' = [job EXCEPT !.todo = Tail(todo)]
    BY <1>2, <1>5 DEF Step, Pop
  <2>2. /\ job'.at = "step" /\ job'.over = job.over /\ job'.ran = job.ran /\ job'.done = done
        /\ job'.todo = Tail(todo)
    BY <1>1, <1>2, <1>3, <2>1 DEF JobFields
  <2>3. n \in past \cup done
    BY <1>2, <1>3, <1>5
  <2>4. Agenda(g, past, done, Tail(todo))
    BY <1>3, <2>3, SkipGoesOn
  <2>5. Past' = past
    BY <1>3, <2>2 DEF Past, AtATask
  <2>6. QED BY <1>2, <1>3, <2>2, <2>4, <2>5 DEF OrderInv, AtATask
<1>6. CASE n \notin job.ran \cup job.done /\ n \in Tasks
  <2>1. job' = [job EXCEPT !.ran = @ \cup {n}, !.task = n, !.at = "prepare", !.todo = Tail(todo)]
    BY <1>2, <1>6 DEF Step, Pop
  <2>2. /\ job'.at = "prepare" /\ job'.task = n /\ job'.over = job.over
        /\ job'.ran = job.ran \cup {n} /\ job'.done = done /\ job'.todo = Tail(todo)
    BY <1>1, <1>2, <1>3, <2>1 DEF JobFields
  <2>3. Agenda(g, past \cup {n}, done, Tail(todo)) /\ ToSet(g.depends[n]) \subseteq past
    BY <1>3, <1>6, TaskGoesOn
  <2>4. Past' = past \cup {n}
    BY <1>3, <2>2 DEF Past, AtATask
  <2>5. n \notin ToSet(job.over)
    BY <1>3, <1>6
  <2>6. QED BY <1>2, <1>3, <2>2, <2>3, <2>4, <2>5 DEF OrderInv
<1>7. CASE n \notin job.ran \cup job.done /\ n \notin Tasks
  <2>1. job' = [job EXCEPT !.done = @ \cup {n}, !.todo = Work(n) \o Tail(todo)]
    BY <1>2, <1>7 DEF Step, Pop
  <2>2. /\ job'.at = "step" /\ job'.over = job.over /\ job'.ran = job.ran
        /\ job'.done = done \cup {n} /\ job'.todo = Work(n) \o Tail(todo)
    BY <1>1, <1>2, <1>3, <2>1 DEF JobFields
  <2>3. n \in Builtins
    BY <1>4, <1>7 DEF Nodes
  <2>4. Agenda(g, past, done \cup {n}, Work(n) \o Tail(todo))
    BY <1>3, <2>3, BuiltinGoesOn
  <2>5. Past' = past
    BY <1>3, <2>2 DEF Past, AtATask
  <2>6. QED BY <1>2, <1>3, <2>2, <2>3, <2>4, <2>5 DEF OrderInv, AtATask
<1>8. QED BY <1>5, <1>6, <1>7

LEMMA OpenOrders ==
  ASSUME Shape, GraphInv, OrderInv, Open, Graph' = Graph
  PROVE  OrderInv'
<1>1. PICK g, past, done, todo, n :
        g = Graph /\ past = Past /\ done = job.done /\ todo = job.todo /\ n = Item
  OBVIOUS
<1>2. job.at = "step" /\ (Todo("built") \/ Todo("hook") \/ Todo("over"))
  BY DEF Open, Todo, At
<1>3. /\ DOMAIN job = JobFields /\ GraphOK(g) /\ ~Cyclic(g) /\ past = ToSet(job.over)
      /\ job.over \in Seq(Nodes) /\ done \subseteq Builtins
      /\ job.ran \subseteq past /\ past \cap Tasks \subseteq job.ran
      /\ Agenda(g, past, done, todo) /\ todo # <<>> /\ todo[1] \in Items
  BY <1>1, <1>2, NextStep
<1>4. ASSUME NEW next, job' = [job EXCEPT !.todo = next], Agenda(g, past, done, next)
      PROVE  OrderInv'
  <2>1. /\ job'.at = "step" /\ job'.over = job.over /\ job'.ran = job.ran /\ job'.done = done
        /\ job'.todo = next
    BY <1>1, <1>2, <1>3, <1>4 DEF JobFields
  <2>2. Past' = past
    BY <1>3, <2>1 DEF Past, AtATask
  <2>3. QED BY <1>1, <1>3, <1>4, <2>1, <2>2 DEF OrderInv, AtATask
<1>5. CASE /\ Todo("built")
           /\ job' = [job EXCEPT !.todo = IF "build" \in ToSet(job.over) THEN Pop ELSE Building \o Pop]
  <2>1. todo[1] = <<"built", n>> /\ todo[1] \in Items
    BY <1>1, <1>2, <1>5, NextStep
  <2>2. todo[1] = <<"built", "build">>
    BY <2>1 DEF Items
  <2>3. /\ "build" \in past => Agenda(g, past, done, Tail(todo))
        /\ Agenda(g, past, done, Building \o Tail(todo))
    BY <1>3, <2>2, BuiltGoesOn
  <2>4. job' = [job EXCEPT !.todo = IF "build" \in past THEN Tail(todo) ELSE Building \o Tail(todo)]
    BY <1>1, <1>3, <1>5 DEF Pop
  <2>5. QED BY <1>4, <2>3, <2>4
<1>6. CASE /\ Todo("hook")
           /\ job' = [job EXCEPT !.todo = Steps(Plan(Graph, Graph.hooks[Item])) \o Pop]
  <2>1. todo[1] = <<"hook", n>> /\ todo[1] \in Items
    BY <1>1, <1>2, <1>6, NextStep
  <2>2. n \in Hooks
    BY <2>1 DEF Items
  <2>3. Agenda(g, past, done, Steps(Plan(g, g.hooks[n])) \o Tail(todo))
    BY <1>3, <2>1, <2>2, HookGoesOn
  <2>4. job' = [job EXCEPT !.todo = Steps(Plan(g, g.hooks[n])) \o Tail(todo)]
    BY <1>1, <1>6 DEF Pop
  <2>5. QED BY <1>4, <2>3, <2>4
<1>7. CASE /\ Todo("over")
           /\ job' = [job EXCEPT !.todo = Pop, !.over = Append(@, Item)]
  <2>1. todo[1] = <<"over", n>> /\ todo[1] \in Items
    BY <1>1, <1>2, <1>7, NextStep
  <2>2. n \in Builtins /\ n \in Nodes /\ n \notin Tasks
    <3>1. n \in Builtins
      BY <2>1 DEF Items
    <3>2. QED BY <3>1, TaskPlanAssumption DEF Nodes
  <2>3. job' = [job EXCEPT !.todo = Tail(todo), !.over = Append(@, n)]
    BY <1>1, <1>7 DEF Pop
  <2>4. /\ job'.at = "step" /\ job'.over = Append(job.over, n) /\ job'.ran = job.ran
        /\ job'.done = done /\ job'.todo = Tail(todo)
    BY <1>1, <1>2, <1>3, <2>3 DEF JobFields
  <2>5. Append(job.over, n) \in Seq(Nodes) /\ ToSet(Append(job.over, n)) = past \cup {n}
    <3>1. PICK over \in Seq(Nodes) : over = job.over
      BY <1>3
    <3>2. Append(over, n) \in Seq(Nodes) /\ ToSet(Append(over, n)) = ToSet(over) \cup {n}
      BY <2>2, AppendSet
    <3>3. QED BY <1>3, <3>1, <3>2
  <2>6. Past' = past \cup {n}
    BY <2>4, <2>5 DEF Past, AtATask
  <2>7. Agenda(g, past \cup {n}, done, Tail(todo))
    BY <1>3, <2>1, OverGoesOn
  <2>8. QED BY <1>1, <1>3, <2>2, <2>4, <2>5, <2>6, <2>7 DEF OrderInv, AtATask
<1>8. QED BY <1>5, <1>6, <1>7 DEF Open

\* At a task, and when it is over.
LEMMA TaskKeepsOrder ==
  ASSUME Shape, OrderInv, Graph' = Graph, job.at \in AtATask,
         UNCHANGED <<job.ran, job.done, job.todo>>,
         \/ job'.at \in AtATask /\ UNCHANGED <<job.over, job.task>>
         \/ job'.at = "step" /\ job'.over = Append(job.over, job.task)
  PROVE  OrderInv'
<1>a. PICK g, past, task : g = Graph /\ past = Past /\ task = job.task
  OBVIOUS
<1>b. PICK over \in Seq(Nodes) : over = job.over
  BY DEF OrderInv, AtATask
<1>1. g = Graph /\ past = Past /\ task = job.task /\ over = job.over
  BY <1>a, <1>b
<1>2. /\ ~Cyclic(g) /\ job.done \subseteq Builtins
      /\ job.ran \subseteq past /\ past \cap Tasks \subseteq job.ran
      /\ Agenda(g, past, job.done, job.todo) /\ past = ToSet(over) \cup {task}
      /\ task \notin ToSet(over) /\ ToSet(g.depends[task]) \subseteq ToSet(over) /\ task \in Tasks
  BY <1>1 DEF OrderInv, AtATask, Past, Shape
<1>3. CASE job'.at \in AtATask /\ UNCHANGED <<job.over, job.task>>
  <2>1. Past' = past
    BY <1>1, <1>2, <1>3 DEF Past
  <2>2. QED BY <1>1, <1>2, <1>3, <2>1 DEF OrderInv
<1>4. CASE job'.at = "step" /\ job'.over = Append(job.over, job.task)
  <2>1. Append(over, task) \in Seq(Nodes) /\ ToSet(Append(over, task)) = past
    BY <1>2, AppendSet DEF Nodes
  <2>2. job'.over = Append(over, task) /\ Past' = past
    BY <1>1, <1>4, <2>1 DEF Past, AtATask
  <2>3. QED BY <1>1, <1>2, <1>4, <2>1, <2>2 DEF OrderInv, AtATask
<1>5. QED BY <1>3, <1>4

LEMMA OrderKept == Shape /\ GraphInv /\ OrderInv /\ [Next]_vars => OrderInv'
<1> SUFFICES ASSUME Shape, GraphInv, OrderInv, [Next]_vars PROVE OrderInv'
  OBVIOUS
<1>1. Graph' = Graph
  BY GraphKept
<1>2. CASE Command
  BY <1>1, <1>2, CommandOrders
<1>3. CASE Step
  BY <1>1, <1>3, StepOrders
<1>4. CASE Open
  BY <1>1, <1>4, OpenOrders
<1>5. CASE job'.at = "idle"
  BY <1>5 DEF OrderInv
<1>6. CASE job' = job
  <2>1. Past' = Past
    BY <1>6 DEF Past
  <2>2. QED BY <1>1, <1>6, <2>1 DEF OrderInv
<1>7. ASSUME \/ Prepare \/ Key \/ Unsay \/ ClearOut \/ PutBack \/ Run \/ Ran
             \/ Imprint \/ Outs \/ SaveEntry \/ Booked
      PROVE  OrderInv'
  <2>1. job.at \in AtATask
    BY <1>7 DEF Prepare, Key, Unsay, ClearOut, PutBack, Run, Ran, Imprint, Outs, SaveEntry, Books,
                Booked, At, AtATask
  <2>2. DOMAIN job = JobFields
    BY <2>1 DEF Shape, AtATask
  <2>3. CASE Prepare
    <3>1. \/ job' = [job EXCEPT !.at = "step", !.over = Append(@, T)]
          \/ \E at \in {"key", "run"} : \E print, key, rest :
               job' = [job EXCEPT !.print = print, !.key = key, !.rest = rest, !.at = at]
      BY <2>3 DEF Prepare, Ended
    <3>2. QED BY <1>1, <2>1, <2>2, <3>1, TaskKeepsOrder DEF JobFields, AtATask, T
  <2>4. CASE Key
    <3>1. \E at \in {"unsay", "run"} : \E key, entry, rest :
               job' = [job EXCEPT !.key = key, !.at = at, !.entry = entry, !.rest = rest]
      BY <2>4 DEF Key
    <3>2. QED BY <1>1, <2>1, <2>2, <3>1, TaskKeepsOrder DEF JobFields, AtATask
  <2>5. CASE Unsay \/ ClearOut \/ PutBack \/ Run \/ Ran
    <3>1. \E at \in {"remove", "write", "book", "running"} :
            \/ job' = [job EXCEPT !.at = at]
            \/ \E read : job' = [job EXCEPT !.at = at, !.read = read]
      BY <2>5 DEF Unsay, ClearOut, PutBack, Run, Ran, Goes
    <3>2. QED BY <1>1, <2>1, <2>2, <3>1, TaskKeepsOrder DEF JobFields, AtATask
  <2>6. CASE Imprint \/ Outs \/ SaveEntry
    <3>1. /\ job.at = "book"
          /\ \E rest : \/ job' = [job EXCEPT !.rest = rest]
                       \/ \E entry : job' = [job EXCEPT !.rest = rest, !.entry = entry]
      BY <2>6 DEF Imprint, Outs, SaveEntry, Books, OneLess, At
    <3>2. QED BY <1>1, <2>1, <2>2, <3>1, TaskKeepsOrder DEF JobFields, AtATask
  <2>7. CASE Booked
    <3>1. job' = [job EXCEPT !.at = "step", !.over = Append(@, T)]
      BY <2>7 DEF Booked, Ended
    <3>2. QED BY <1>1, <2>1, <2>2, <3>1, TaskKeepsOrder DEF JobFields, AtATask, T
  <2>8. QED BY <1>7, <2>3, <2>4, <2>5, <2>6, <2>7
<1>8. CASE Finish \/ Fail \/ Kill
  BY <1>5, <1>8 DEF Finish, Fail, Kill, End, NoJob
<1>9. CASE Save \/ EditManifest \/ Edit \/ Clean \/ UNCHANGED vars
  BY <1>6, <1>9 DEF Save, EditManifest, Edit, Clean, vars
<1>10. QED BY <1>2, <1>3, <1>4, <1>7, <1>8, <1>9 DEF Next

\* Each task of a command runs once and after all it depends on, whatever the
\* graph is as long as it has no cycle: the agenda brings what a task depends
\* on before the task, or has begun it and comes to its end before.
THEOREM SpecOnceInOrder == Spec => []OnceInOrder
<1>1. IInv /\ GraphInv /\ OrderInv /\ [Next]_vars => GraphInv' /\ OrderInv'
  BY GraphKept, OrderKept DEF IInv
<1>2. OrderInv => OnceInOrder
  BY DEF OrderInv, OnceInOrder, At, AtATask, T
<1>3. QED BY <1>1, <1>2, OrderInit, Invariance, PTL DEF Spec

-----------------------------------------------------------------------------
(* What the outputs are, in a sound trial: with nothing killed, and        *)
(* nothing changed behind a command.                                       *)

\* t's output is what it makes of an argument and of what it read.
Wrote(t, a, x, held) ==
  DOMAIN out[t] = {"own"} /\ out[t]["own"].is = <<"made", a, x, held>>

Timed ==
  /\ DOMAIN prints = Tasks /\ src.time \in 0..clock
  /\ \A t \in Tasks : /\ DOMAIN out[t] \subseteq {"own"}
                      /\ \A f \in DOMAIN out[t] : out[t][f].time \in 0..clock

\* Files with these times held this, and one that has such a time still does.
SameFiles(i, times, held) ==
  /\ DOMAIN times \subseteq {"own"} /\ held = [f \in DOMAIN times |-> held[f]]
  /\ \A f \in DOMAIN times : /\ times[f] \in 0..clock
                             /\ f \in DOMAIN out[i] /\ out[i][f].time = times[f]
                                  => out[i][f].is = held[f]
SameInput(i, times, held) ==
  IF i = "src" THEN times \in 0..clock /\ (src.time = times => src.is = held)
  ELSE SameFiles(i, times, held)

Tally(t, times, held) ==
  /\ DOMAIN times = Inputs[t] /\ held = [i \in Inputs[t] |-> held[i]]
  /\ \A i \in Inputs[t] : SameInput(i, times[i], held[i])

\* A fingerprint is of what the outputs were made of.
Printed(t, print) ==
  print = Nothing \/
    \E a, x, times, held :
      print = <<a, x, times>> /\ Wrote(t, a, x, held) /\ Tally(t, times, held)

LEMMA TallyNow ==
  ASSUME Shape, Timed, NEW t \in Tasks
  PROVE  Tally(t, Times(t), Contents(t))
<1>1. DOMAIN Times(t) = Inputs[t] /\ Contents(t) = [i \in Inputs[t] |-> Contents(t)[i]]
  BY DEF Times, Contents
<1>2. ASSUME NEW i \in Inputs[t] PROVE SameInput(i, Times(t)[i], Contents(t)[i])
  <2>1. CASE i = "src"
    <3>1. Times(t)[i] = src.time /\ Contents(t)[i] = src.is
      BY <2>1 DEF Times, Contents
    <3>2. QED BY <2>1, <3>1 DEF SameInput, Timed
  <2>2. CASE i # "src"
    <3>1. i \in Tasks
      BY <2>2, TasksAssumption
    <3>2. /\ Times(t)[i] = [f \in DOMAIN out[i] |-> out[i][f].time]
          /\ Contents(t)[i] = [f \in DOMAIN out[i] |-> out[i][f].is]
      BY <2>2 DEF Times, Contents
    <3>3. SameFiles(i, Times(t)[i], Contents(t)[i])
      BY <3>1, <3>2 DEF SameFiles, Timed
    <3>4. QED BY <2>2, <3>3 DEF SameInput
  <2>3. QED BY <2>1, <2>2
<1>3. QED BY <1>1, <1>2 DEF Tally

\* Inputs whose times are those of a tally are what was tallied.
LEMMA TallySame ==
  ASSUME NEW t \in Tasks, NEW times, NEW held, Tally(t, times, held), times = Times(t)
  PROVE  held = Contents(t)
<1>1. ASSUME NEW i \in Inputs[t] PROVE held[i] = Contents(t)[i]
  <2>1. SameInput(i, times[i], held[i])
    BY DEF Tally
  <2>2. CASE i = "src"
    <3>1. times[i] = src.time /\ Contents(t)[i] = src.is
      BY <2>2 DEF Times, Contents
    <3>2. QED BY <2>1, <2>2, <3>1 DEF SameInput
  <2>3. CASE i # "src"
    <3>1. /\ times[i] = [f \in DOMAIN out[i] |-> out[i][f].time]
          /\ Contents(t)[i] = [f \in DOMAIN out[i] |-> out[i][f].is]
      BY <2>3 DEF Times, Contents
    <3>2. SameFiles(i, times[i], held[i])
      BY <2>1, <2>3 DEF SameInput
    <3>3. held[i] = [f \in DOMAIN out[i] |-> held[i][f]] /\ \A f \in DOMAIN out[i] : held[i][f] = out[i][f].is
      BY <3>1, <3>2 DEF SameFiles
    <3>4. QED BY <3>1, <3>3
  <2>4. QED BY <2>2, <2>3
<1>2. Contents(t) = [i \in Inputs[t] |-> Contents(t)[i]]
  BY DEF Contents
<1>3. held = [i \in Inputs[t] |-> held[i]]
  BY DEF Tally
<1>4. QED BY <1>1, <1>2, <1>3

\* What is read and written, while no file changes.
LEMMA FilesSame ==
  ASSUME UNCHANGED <<src, out, clock>>, NEW t
  PROVE  /\ Contents(t)' = Contents(t) /\ Times(t)' = Times(t)
         /\ \A a, x, held : Wrote(t, a, x, held)' <=> Wrote(t, a, x, held)
         /\ \A print : Printed(t, print)' <=> Printed(t, print)
<1>1. Contents(t)' = Contents(t) /\ Times(t)' = Times(t)
  BY DEF Contents, Times
<1>2. \A a, x, held : Wrote(t, a, x, held)' <=> Wrote(t, a, x, held)
  BY DEF Wrote
<1>3. \A i, times, held : SameInput(i, times, held)' <=> SameInput(i, times, held)
  BY DEF SameInput, SameFiles
<1>4. \A times, held : Tally(t, times, held)' <=> Tally(t, times, held)
  BY <1>3 DEF Tally
<1>5. \A print : Printed(t, print)' <=> Printed(t, print)
  BY <1>2, <1>4 DEF Printed
<1>6. QED BY <1>1, <1>2, <1>5

\* What changes has a time of its own.
Stamped ==
  /\ clock \in Nat /\ clock' \in {clock, clock + 1}
  /\ src' = src \/ (src'.time = clock' /\ clock' = clock + 1)
  /\ \A i \in Tasks : out'[i] = out[i] \/
       \A f \in DOMAIN out'[i] : out'[i][f].time = clock' /\ clock' = clock + 1

LEMMA FilesLater ==
  ASSUME Stamped, NEW t \in Tasks, out'[t] = out[t], NEW print, Printed(t, print)
  PROVE  Printed(t, print)'
<1>1. ASSUME NEW i \in Inputs[t], NEW times, NEW held, SameInput(i, times, held)
      PROVE  SameInput(i, times, held)'
  <2>1. CASE i = "src"
    BY <1>1, <2>1 DEF SameInput, Stamped
  <2>2. CASE i # "src"
    <3>1. i \in Tasks
      BY <2>2, TasksAssumption
    <3>2. SameFiles(i, times, held)
      BY <1>1, <2>2 DEF SameInput
    <3>3. SameFiles(i, times, held)'
      BY <3>1, <3>2 DEF SameFiles, Stamped
    <3>4. QED BY <2>2, <3>3 DEF SameInput
  <2>3. QED BY <2>1, <2>2
<1>2. CASE print = Nothing
  BY <1>2 DEF Printed
<1>3. CASE print # Nothing
  <2>1. PICK a, x, times, held :
          print = <<a, x, times>> /\ Wrote(t, a, x, held) /\ Tally(t, times, held)
    BY <1>3 DEF Printed
  <2>2. Wrote(t, a, x, held)'
    BY <2>1 DEF Wrote
  <2>3. Tally(t, times, held)'
    BY <2>1, <1>1 DEF Tally
  <2>4. QED BY <2>1, <2>2, <2>3 DEF Printed
<1>4. QED BY <1>2, <1>3

-----------------------------------------------------------------------------
(* The invariant.                                                          *)

\* An entry of the build cache is what its key makes.
Stored ==
  \A key \in DOMAIN entries :
    DOMAIN entries[key] = {"own"} /\ entries[key]["own"] = <<"made", key[2], FALSE, key[3]>>

AllPrinted == \A t \in Tasks : (job.at = "book" /\ job.task = t) \/ Printed(t, prints[t])

\* Whether the command passes t the arguments after --.
Passed(t) == job.extra /\ t = job.named

\* t's output is what a run of it in this command would write now.
Current(t) == Wrote(t, arg, Passed(t), Contents(t))

\* A task at each of its steps: what the books are about to say is so.
Keyed(t) == ~Passed(t) /\ job.key = <<t, arg, Contents(t)>>
Restorable(t) ==
  ~Passed(t) /\ DOMAIN job.entry = {"own"} /\ job.entry["own"] = <<"made", arg, FALSE, Contents(t)>>
PrintOf(t) == IF Checked(t) THEN <<arg, Passed(t), Times(t)>> ELSE Nothing

Booking(t) ==
  /\ Current(t)
  /\ \/ job.rest \in {<<"outs", "print">>, <<"print">>, <<>>}
     \/ job.rest \in {<<"print", "outs", "save">>, <<"outs", "save">>} /\ Keyed(t)
     \/ job.rest = <<"save">> /\ Keyed(t) /\ Restorable(t)
  /\ job.rest \in {<<>>, <<"outs", "save">>, <<"save">>} => Printed(t, prints[t])

Working(t) ==
  /\ job.at # "prepare" => job.print = PrintOf(t)
  /\ job.at = "key" => ~Passed(t)
  /\ job.at \in {"run", "running"} =>
       job.rest = <<"print">> \/ (job.rest = <<"print", "outs", "save">> /\ Keyed(t))
  /\ job.at = "running" => job.read = Contents(t)
  /\ job.at \in {"unsay", "remove", "write"} => job.rest = <<"outs", "print">> /\ Restorable(t)
  /\ job.at \in {"remove", "write"} => prints[t] = Nothing
  /\ job.at = "book" => Booking(t)

AtWork == \A t \in Tasks : job.at \in AtATask /\ job.task = t => Working(t)

\* What was run is up to date, and nothing it read is run any more.
OverInv ==
  job.at # "idle" =>
    /\ ended.result = "none"
    /\ \A t \in ToSet(job.over) \cap Tasks : Current(t) /\ ToSet(Graph.depends[t]) \subseteq ToSet(job.over)

EndInv ==
  ended.result = "ok" /\ ~ended.extra =>
    /\ ~Cyclic(Graph)
    /\ \A t \in ToSet(ended.over) \cap Tasks :
         /\ Wrote(t, arg, FALSE, Contents(t))
         /\ ToSet(Graph.depends[t]) \subseteq ToSet(ended.over)

SoundTrial ==
  {"graph", "sound", "kills", "races", "edits"} \subseteq DOMAIN trial /\ Sound(trial)

\* All of it, and with what makes it so.
Upheld == Timed /\ Stored /\ AllPrinted /\ AtWork /\ OverInv /\ EndInv
SoundInv == SoundTrial /\ Upheld

-----------------------------------------------------------------------------
(* What every step keeps.                                                  *)

\* Nothing is killed or changed behind a run, in such a trial.
LEMMA SoundKept ==
  ASSUME SoundTrial, [Next]_vars
  PROVE  /\ SoundTrial' /\ trial'.sound = trial.sound
         /\ ~Kill /\ ~Edit /\ (Save => job.at = "idle")
<1>1. ~Spend("kills") /\ ~Spend("races") /\ ~Spend("edits")
  BY DEF Spend, SoundTrial, Sound
<1>2. ~Kill /\ ~Edit /\ (Save => job.at = "idle")
  BY <1>1 DEF Kill, Edit, Save, Idle
<1>3. ASSUME NEW what \in {"commands", "failures", "saves", "changes", "cleans"}, Spend(what)
      PROVE  SoundTrial' /\ trial'.sound = trial.sound
  <2>1. trial' = [trial EXCEPT ![what] = trial[what] - 1]
    BY <1>3 DEF Spend
  <2>2. /\ DOMAIN trial' = DOMAIN trial /\ trial'.graph = trial.graph /\ trial'.sound = trial.sound
        /\ trial'.kills = trial.kills /\ trial'.races = trial.races /\ trial'.edits = trial.edits
    BY <2>1 DEF SoundTrial
  <2>3. QED BY <2>2 DEF SoundTrial, Sound
<1>4. trial' = trial \/ \E what \in {"commands", "failures", "saves", "changes", "cleans"} : Spend(what)
  BY <1>1, <1>2 DEF Next, vars, Command, Step, Open, Finish, Prepare, Key, Unsay, ClearOut, PutBack,
         Run, Ran, Fail, Imprint, Outs, SaveEntry, Booked, Books, Save, EditManifest, Clean, Idle
<1>5. CASE trial' = trial
  BY <1>2, <1>5 DEF SoundTrial
<1>6. QED BY <1>2, <1>3, <1>4, <1>5

\* A task at work is not over, and no task that is over reads it.
LEMMA OthersRead ==
  ASSUME Shape, OrderInv, SoundTrial, OverInv, job.at \in AtATask,
         NEW t, t = job.task, NEW u \in (ToSet(job.over) \cap Tasks) \cup {t}
  PROVE  t \in Tasks /\ t \notin ToSet(job.over) /\ t \notin Inputs[u]
<1>1. t \in Tasks /\ t \notin ToSet(job.over) /\ ToSet(Graph.depends[t]) \subseteq ToSet(job.over)
      /\ ~Cyclic(Graph) /\ job.at # "idle"
  BY DEF Shape, OrderInv, AtATask
<1>2. u \in Tasks /\ ToSet(Graph.depends[u]) \subseteq ToSet(job.over)
  BY <1>1 DEF OverInv
<1>3. Inputs[u] \cap Tasks \subseteq ToSet(Graph.depends[u])
  BY <1>1, <1>2 DEF SoundTrial, Sound, Graph
<1>4. QED BY <1>1, <1>2, <1>3

\* What t reads, while no source and no output it reads changes.
LEMMA ReadSame ==
  ASSUME src' = src, NEW t \in Tasks, \A i \in Inputs[t] \cap Tasks : out'[i] = out[i]
  PROVE  Contents(t)' = Contents(t) /\ Times(t)' = Times(t)
<1>1. \A i \in Inputs[t] : i = "src" \/ i \in Tasks
  BY TasksAssumption
<1>2. QED BY <1>1 DEF Contents, Times

\* The tasks that are over, while the command goes on at another.
LEMMA OverKept ==
  ASSUME Shape, OrderInv, SoundTrial, OverInv, job.at \in AtATask,
         NEW t, t = job.task,
         src' = src, arg' = arg, ended' = ended, Graph' = Graph,
         \A u \in Tasks \ {t} : out'[u] = out[u],
         job'.extra = job.extra, job'.named = job.named
  PROVE  /\ t \in Tasks /\ \A u : Passed(u)' = Passed(u)
         /\ Contents(t)' = Contents(t) /\ Times(t)' = Times(t)
         /\ job'.over = job.over => OverInv'
         /\ job'.over = Append(job.over, t) /\ Current(t)' => OverInv'
         /\ EndInv'
<1>1. \A u : Passed(u)' = Passed(u)
  BY DEF Passed
<1>2. /\ t \in Tasks /\ ToSet(Graph.depends[t]) \subseteq ToSet(job.over)
      /\ ended.result = "none" /\ job.over \in Seq(Nodes)
      /\ \A u \in ToSet(job.over) \cap Tasks :
           Current(u) /\ ToSet(Graph.depends[u]) \subseteq ToSet(job.over)
  BY DEF Shape, OrderInv, OverInv, AtATask
<1>3. ASSUME NEW u \in (ToSet(job.over) \cap Tasks) \cup {t}
      PROVE  Contents(u)' = Contents(u) /\ Times(u)' = Times(u)
  BY <1>2, <1>3, OthersRead, ReadSame
<1>4. ASSUME NEW u \in ToSet(job.over) \cap Tasks PROVE Current(u)'
  <2>1. Current(u) /\ out'[u] = out[u]
    BY <1>2, OthersRead
  <2>2. QED BY <1>1, <1>3, <2>1 DEF Current, Wrote
<1>5. ASSUME job'.over = job.over PROVE OverInv'
  BY <1>2, <1>4, <1>5 DEF OverInv
<1>6. ASSUME job'.over = Append(job.over, t), Current(t)' PROVE OverInv'
  <2>1. PICK over \in Seq(Nodes) : over = job.over
    BY <1>2
  <2>2. ToSet(Append(over, t)) = ToSet(over) \cup {t}
    BY <1>2, <2>1, AppendSet DEF Nodes
  <2>3. ToSet(job'.over) = ToSet(job.over) \cup {t}
    BY <1>6, <2>1, <2>2
  <2>4. \A u \in ToSet(job'.over) \cap Tasks :
          Current(u)' /\ ToSet(Graph.depends[u]) \subseteq ToSet(job.over)
    BY <1>2, <1>4, <1>6, <2>3
  <2>5. QED BY <1>2, <2>3, <2>4 DEF OverInv
<1>7. EndInv'
  BY <1>2 DEF EndInv
<1>8. QED BY <1>1, <1>2, <1>3, <1>5, <1>6, <1>7

-----------------------------------------------------------------------------
(* A command, between its tasks.                                           *)

\* No file changes, and no book.
LEMMA DiskSame ==
  ASSUME Upheld, UNCHANGED <<src, out, clock, arg, prints, entries>>
  PROVE  /\ Timed' /\ Stored'
         /\ \A t \in Tasks : job.at # "book" \/ Printed(t, prints[t]) => Printed(t, prints[t])'
         /\ job.at # "book" => AllPrinted'
<1>1. Timed' /\ Stored'
  BY DEF Upheld, Timed, Stored
<1>2. ASSUME NEW t \in Tasks, job.at # "book" \/ Printed(t, prints[t])
      PROVE  Printed(t, prints[t])'
  <2>1. PICK print : print = prints[t]
    OBVIOUS
  <2>2. Printed(t, print)
    BY <1>2, <2>1 DEF Upheld, AllPrinted
  <2>3. Printed(t, print)'
    BY <2>2, FilesSame
  <2>4. prints'[t] = print
    BY <2>1
  <2>5. QED BY <2>3, <2>4
<1>3. job.at # "book" => AllPrinted'
  BY <1>2 DEF AllPrinted
<1>4. QED BY <1>1, <1>2, <1>3

\* A command begins with nothing over,
LEMMA CommandUpholds ==
  ASSUME SoundInv, Command
  PROVE  Upheld'
<1>1. /\ UNCHANGED <<src, out, clock, arg, prints, entries>> /\ job.at # "book"
      /\ job'.at = "step" /\ job'.over = <<>> /\ ended'.result = "none"
  BY DEF Command, Idle, NoEnd, tree, files
<1>2. Timed' /\ Stored' /\ AllPrinted'
  BY <1>1, DiskSame DEF SoundInv
<1>3. ToSet(job'.over) = {}
  BY <1>1 DEF ToSet
<1>4. QED BY <1>1, <1>2, <1>3 DEF Upheld, AtWork, AtATask, OverInv, EndInv

\* goes on between its tasks, where those that are over stay up to date,
LEMMA BetweenTasks ==
  ASSUME SoundInv, OrderInv, Graph' = Graph, job.at = "step",
         UNCHANGED <<src, out, clock, arg, prints, entries, ended>>,
         job'.at \in {"step", "prepare"}, job'.extra = job.extra, job'.named = job.named,
         ToSet(job.over) \subseteq ToSet(job'.over),
         ToSet(job'.over) \cap Tasks \subseteq ToSet(job.over)
  PROVE  Upheld'
<1>1. Timed' /\ Stored' /\ AllPrinted'
  BY DiskSame DEF SoundInv
<1>2. \A t : Current(t)' <=> Current(t)
  BY DEF Current, Passed, Wrote, Contents
<1>3. OverInv' /\ EndInv'
  BY <1>2 DEF SoundInv, Upheld, OverInv, EndInv
<1>4. AtWork'
  BY DEF AtWork, Working, AtATask
<1>5. QED BY <1>1, <1>3, <1>4 DEF Upheld

LEMMA StepUpholds ==
  ASSUME SoundInv, Shape, GraphInv, OrderInv, Graph' = Graph, Step \/ Open
  PROVE  Upheld'
<1>1. /\ UNCHANGED <<src, out, clock, arg, prints, entries, ended>> /\ job.at = "step"
      /\ DOMAIN job = JobFields /\ job.over \in Seq(Nodes)
  BY DEF Step, Open, Todo, At, tree, files, Shape, OrderInv
<1>2. CASE Step
  <2>1. \/ \E todo : job' = [job EXCEPT !.todo = todo]
        \/ \E todo, task, ran : job' = [job EXCEPT !.ran = ran, !.task = task, !.at = "prepare",
                                                   !.todo = todo]
        \/ \E todo, done : job' = [job EXCEPT !.done = done, !.todo = todo]
    BY <1>2 DEF Step
  <2>2. /\ job'.at \in {"step", "prepare"} /\ job'.extra = job.extra /\ job'.named = job.named
        /\ job'.over = job.over
    BY <1>1, <2>1 DEF JobFields
  <2>3. QED BY <1>1, <2>2, BetweenTasks
<1>3. CASE Open
  <2>1. \/ \E todo : job' = [job EXCEPT !.todo = todo]
        \/ Todo("over") /\ job' = [job EXCEPT !.todo = Pop, !.over = Append(@, Item)]
    BY <1>3 DEF Open
  <2>2. CASE \E todo : job' = [job EXCEPT !.todo = todo]
    <3>1. /\ job'.at = "step" /\ job'.extra = job.extra /\ job'.named = job.named
          /\ job'.over = job.over
      BY <1>1, <2>2 DEF JobFields
    <3>2. QED BY <1>1, <3>1, BetweenTasks
  <2>3. CASE Todo("over") /\ job' = [job EXCEPT !.todo = Pop, !.over = Append(@, Item)]
    <3>1. PICK over \in Seq(Nodes) : over = job.over
      BY <1>1
    <3>2. PICK item : item = Item
      OBVIOUS
    <3>3. job.todo[1] \in Items /\ job.todo[1] = <<"over", item>>
      BY <1>1, <2>3, <3>2, NextStep
    <3>4. item \in Builtins
      BY <3>3 DEF Items
    <3>5. /\ job'.at = "step" /\ job'.extra = job.extra /\ job'.named = job.named
          /\ job'.over = Append(over, item)
      BY <1>1, <2>3, <3>1, <3>2 DEF JobFields
    <3>6. ToSet(Append(over, item)) = ToSet(over) \cup {item}
      BY <3>4, AppendSet DEF Nodes
    <3>7. QED BY <1>1, <3>1, <3>4, <3>5, <3>6, BetweenTasks, TaskPlanAssumption
  <2>4. QED BY <2>1, <2>2, <2>3
<1>4. QED BY <1>2, <1>3

\* and ends with all of them so.
LEMMA FinishUpholds ==
  ASSUME SoundInv, OrderInv, Graph' = Graph, Finish
  PROVE  Upheld'
<1>1. /\ UNCHANGED <<src, out, clock, arg, prints, entries>> /\ job.at = "step" /\ job'.at = "idle"
      /\ ended'.over = job.over /\ ended'.extra = job.extra
  BY DEF Finish, At, End, NoJob, tree, files
<1>2. Timed' /\ Stored' /\ AllPrinted'
  BY <1>1, DiskSame DEF SoundInv
<1>3. ASSUME ~job.extra, NEW t \in ToSet(job.over) \cap Tasks
      PROVE  Wrote(t, arg, FALSE, Contents(t))' /\ ToSet(Graph.depends[t]) \subseteq ToSet(job.over)
  <2>1. Current(t) /\ ToSet(Graph.depends[t]) \subseteq ToSet(job.over)
    BY <1>1 DEF SoundInv, Upheld, OverInv
  <2>2. Passed(t) = FALSE
    BY <1>3 DEF Passed
  <2>3. Wrote(t, arg, FALSE, Contents(t))
    BY <2>1, <2>2 DEF Current
  <2>4. QED BY <1>1, <2>1, <2>3 DEF Wrote, Contents
<1>4. EndInv'
  BY <1>1, <1>3 DEF EndInv, OrderInv
<1>5. QED BY <1>1, <1>2, <1>4 DEF Upheld, AtWork, OverInv, AtATask

-----------------------------------------------------------------------------
(* Around the commands.                                                    *)

\* What changes between commands is unlike what was tallied.
LEMMA AroundUpholds ==
  ASSUME SoundInv, Shape, Save \/ EditManifest \/ Clean, Save => job.at = "idle"
  PROVE  Upheld'
<1>1. /\ job.at = "idle" /\ UNCHANGED <<job, entries>> /\ ended'.result = "none"
      /\ clock \in Nat /\ clock' \in {clock, clock + 1} /\ DOMAIN out = Tasks
      /\ src' = src \/ (src'.time = clock' /\ clock' = clock + 1)
  BY DEF Save, EditManifest, Clean, Idle, NoEnd, files, tree, Shape
<1>2. /\ DOMAIN prints' = Tasks
      /\ \A t \in Tasks : \/ out'[t] = out[t] /\ prints'[t] = prints[t]
                          \/ (out'[t] = out[t] \/ out'[t] = <<>>) /\ prints'[t] = <<>>
  BY <1>1 DEF Save, EditManifest, Clean, files, SoundInv, Upheld, Timed, Nothing
<1>3. Timed'
  BY <1>1, <1>2 DEF SoundInv, Upheld, Timed
<1>4. Stored'
  BY <1>1 DEF SoundInv, Upheld, Stored
<1>5. AllPrinted'
  <2>1. SUFFICES ASSUME NEW t \in Tasks PROVE Printed(t, prints[t])'
    BY DEF AllPrinted
  <2>2. CASE prints'[t] = <<>>
    BY <2>2 DEF Printed, Nothing
  <2>3. CASE out'[t] = out[t] /\ prints'[t] = prints[t]
    <3>1. PICK print : print = prints[t]
      OBVIOUS
    <3>2. Printed(t, print)
      BY <1>1, <3>1 DEF SoundInv, Upheld, AllPrinted
    <3>3. Stamped
      BY <1>1, <1>2 DEF Stamped
    <3>4. Printed(t, print)'
      BY <2>3, <3>2, <3>3, FilesLater
    <3>5. prints'[t] = print
      BY <2>3, <3>1
    <3>6. QED BY <3>4, <3>5
  <2>4. QED BY <1>2, <2>2, <2>3
<1>6. QED BY <1>1, <1>3, <1>4, <1>5 DEF Upheld, AtWork, OverInv, EndInv, AtATask

-----------------------------------------------------------------------------
(* At a task.                                                              *)

\* A step that leaves the files: the other tasks, and those that are over.
LEMMA TaskInPlace ==
  ASSUME SoundInv, Shape, OrderInv, Graph' = Graph, job.at \in AtATask,
         NEW t, t = job.task,
         UNCHANGED <<src, arg, out, clock, ended>>,
         DOMAIN prints' = Tasks, \A u \in Tasks \ {t} : prints'[u] = prints[u],
         job'.extra = job.extra, job'.named = job.named, job'.task = t,
         Stored'
  PROVE  /\ t \in Tasks /\ \A u : Passed(u)' = Passed(u)
         /\ Contents(t)' = Contents(t) /\ Times(t)' = Times(t)
         /\ Current(t)' <=> Current(t)
         /\ PrintOf(t)' = PrintOf(t)
         /\ Keyed(t) /\ job'.key = job.key => Keyed(t)'
         /\ Restorable(t) /\ job'.entry = job.entry => Restorable(t)'
         /\ \/ job'.over = job.over
            \/ job'.over = Append(job.over, t) /\ Current(t)
            => ((job'.at = "book" \/ Printed(t, prints[t])') /\ AtWork' => Upheld')
<1>1. /\ t \in Tasks /\ \A u : Passed(u)' = Passed(u)
      /\ Contents(t)' = Contents(t) /\ Times(t)' = Times(t)
      /\ job'.over = job.over => OverInv'
      /\ job'.over = Append(job.over, t) /\ Current(t)' => OverInv'
      /\ EndInv'
  BY OverKept DEF SoundInv, Upheld
<1>2. Current(t)' <=> Current(t)
  BY <1>1 DEF Current, Wrote
<1>3. PrintOf(t)' = PrintOf(t)
  BY <1>1 DEF PrintOf
<1>4. /\ Keyed(t) /\ job'.key = job.key => Keyed(t)'
      /\ Restorable(t) /\ job'.entry = job.entry => Restorable(t)'
  BY <1>1 DEF Keyed, Restorable
<1>5. Timed'
  BY DEF SoundInv, Upheld, Timed
<1>6. ASSUME job'.at = "book" \/ Printed(t, prints[t])' PROVE AllPrinted'
  <2>1. SUFFICES ASSUME NEW u \in Tasks \ {t} PROVE Printed(u, prints[u])'
    BY <1>6 DEF AllPrinted
  <2>2. PICK print : print = prints[u]
    OBVIOUS
  <2>3. Printed(u, print)
    BY <2>2 DEF SoundInv, Upheld, AllPrinted
  <2>4. Printed(u, print)'
    BY <2>3, FilesSame
  <2>5. prints'[u] = print
    BY <2>2
  <2>6. QED BY <2>4, <2>5
<1>7. QED BY <1>1, <1>2, <1>3, <1>4, <1>5, <1>6 DEF Upheld

\* The task at hand, by a name that outlives the step.
LEMMA AtHand ==
  ASSUME Shape, job.at \in AtATask, NEW t, t = job.task
  PROVE  /\ T = t /\ t \in Tasks /\ DOMAIN job = JobFields
         /\ Extra = Passed(t) /\ Fingerprint = PrintOf(t)
<1>1. T = t /\ t \in Tasks /\ DOMAIN job = JobFields
  BY DEF T, Shape, AtATask
<1>2. Extra = Passed(t)
  BY <1>1 DEF Extra, Passed
<1>3. Fingerprint = PrintOf(t)
  BY <1>1, <1>2 DEF Fingerprint, PrintOf
<1>4. QED BY <1>1, <1>2, <1>3

\* A fingerprint that is found again is of what the task would write now.
LEMMA FreshIsCurrent ==
  ASSUME NEW t \in Tasks, Checked(t), prints[t] = PrintOf(t), Printed(t, prints[t])
  PROVE  Current(t)
<1>1. PICK now, with : now = Times(t) /\ with = Passed(t)
  OBVIOUS
<1>2. prints[t] = <<arg, with, now>>
  BY <1>1 DEF PrintOf
<1>3. PICK a, x, times, held :
        prints[t] = <<a, x, times>> /\ Wrote(t, a, x, held) /\ Tally(t, times, held)
  BY <1>2 DEF Printed, Nothing
<1>4. a = arg /\ x = with /\ times = now
  BY <1>2, <1>3
<1>5. held = Contents(t)
  BY <1>1, <1>3, <1>4, TallySame
<1>6. QED BY <1>1, <1>3, <1>4, <1>5 DEF Current

\* And what a task wrote just now is what its fingerprint is of.
LEMMA CurrentIsPrinted ==
  ASSUME Shape, Timed, NEW t \in Tasks, Current(t)
  PROVE  Printed(t, PrintOf(t))
<1>1. CASE ~Checked(t)
  BY <1>1 DEF PrintOf, Printed
<1>2. CASE Checked(t)
  <2>1. PICK a, x, times, held : a = arg /\ x = Passed(t) /\ times = Times(t) /\ held = Contents(t)
    OBVIOUS
  <2>2. PrintOf(t) = <<a, x, times>>
    BY <1>2, <2>1 DEF PrintOf
  <2>3. Wrote(t, a, x, held)
    BY <2>1 DEF Current
  <2>4. Tally(t, times, held)
    BY <2>1, TallyNow
  <2>5. QED BY <2>2, <2>3, <2>4 DEF Printed
<1>3. QED BY <1>1, <1>2

\* A task is fresh, or has its fingerprint taken;
LEMMA PrepareUpholds ==
  ASSUME SoundInv, Shape, OrderInv, Graph' = Graph, Prepare
  PROVE  Upheld'
<1>1. PICK t : t = job.task
  OBVIOUS
<1>2. /\ job.at = "prepare" /\ job.at \in AtATask
      /\ UNCHANGED <<src, arg, out, clock, ended, prints, entries>>
  BY DEF Prepare, At, AtATask, tree, files
<1>3. /\ T = t /\ t \in Tasks /\ DOMAIN job = JobFields
      /\ Extra = Passed(t) /\ Fingerprint = PrintOf(t)
  BY <1>1, <1>2, AtHand
<1>4. Stored' /\ DOMAIN prints' = Tasks /\ Printed(t, prints[t]) /\ Printed(t, prints[t])'
  BY <1>2, <1>3, DiskSame DEF SoundInv, Upheld, Timed, AllPrinted
<1>5. CASE IsFresh
  <2>1. Current(t)
    BY <1>3, <1>4, <1>5, FreshIsCurrent DEF IsFresh
  <2>2. job' = [job EXCEPT !.at = "step", !.over = Append(job.over, t)]
    BY <1>3, <1>5 DEF Prepare, Ended
  <2>3. /\ job'.at = "step" /\ job'.over = Append(job.over, t)
        /\ job'.extra = job.extra /\ job'.named = job.named /\ job'.task = t
    BY <1>1, <1>3, <2>2 DEF JobFields
  <2>4. AtWork'
    BY <2>3 DEF AtWork, AtATask
  <2>5. QED BY <1>1, <1>2, <1>4, <2>1, <2>3, <2>4, TaskInPlace
<1>6. CASE ~IsFresh
  <2>1. PICK at \in {"key", "run"} :
          /\ at = "key" => ~Passed(t)
          /\ job' = [job EXCEPT !.print = PrintOf(t), !.key = Nothing, !.rest = <<"print">>, !.at = at]
    BY <1>3, <1>6 DEF Prepare
  <2>2. /\ job'.at = at /\ job'.over = job.over /\ job'.print = PrintOf(t) /\ job'.rest = <<"print">>
        /\ job'.extra = job.extra /\ job'.named = job.named /\ job'.task = t
    BY <1>1, <1>3, <2>1 DEF JobFields
  <2>3. PrintOf(t)' = PrintOf(t) /\ (Passed(t)' <=> Passed(t))
    BY <1>1, <1>2, <1>4, <2>2, TaskInPlace
  <2>4. Working(t)'
    BY <2>1, <2>2, <2>3 DEF Working
  <2>5. AtWork'
    BY <2>2, <2>4 DEF AtWork
  <2>6. QED BY <1>1, <1>2, <1>4, <2>2, <2>5, TaskInPlace
<1>7. QED BY <1>5, <1>6

\* is found in the build cache under what it reads, or runs;
LEMMA KeyUpholds ==
  ASSUME SoundInv, Shape, OrderInv, Graph' = Graph, Key
  PROVE  Upheld'
<1>1. PICK t : t = job.task
  OBVIOUS
<1>2. /\ job.at = "key" /\ job.at \in AtATask
      /\ UNCHANGED <<src, arg, out, clock, ended, prints, entries>>
  BY DEF Key, At, AtATask, tree, files
<1>3. T = t /\ t \in Tasks /\ DOMAIN job = JobFields
  BY <1>1, <1>2, AtHand
<1>4. Stored' /\ DOMAIN prints' = Tasks /\ Printed(t, prints[t])'
  BY <1>2, <1>3, DiskSame DEF SoundInv, Upheld, Timed, AllPrinted
<1>5. ~Passed(t) /\ job.print = PrintOf(t)
  BY <1>1, <1>2, <1>3 DEF SoundInv, Upheld, AtWork, Working
<1>6. PICK key : key = <<t, arg, Contents(t)>>
  OBVIOUS
<1>7. \/ /\ key \in DOMAIN entries
         /\ job' = [job EXCEPT !.key = key, !.at = "unsay", !.entry = entries[key],
                               !.rest = <<"outs", "print">>]
      \/ job' = [job EXCEPT !.key = key, !.at = "run", !.entry = Nothing,
                            !.rest = <<"print", "outs", "save">>]
  BY <1>3, <1>6 DEF Key
<1>8. /\ job'.over = job.over /\ job'.print = job.print /\ job'.key = key
      /\ job'.extra = job.extra /\ job'.named = job.named /\ job'.task = t
      /\ \/ /\ key \in DOMAIN entries /\ job'.entry = entries[key]
            /\ job'.at = "unsay" /\ job'.rest = <<"outs", "print">>
         \/ job'.at = "run" /\ job'.rest = <<"print", "outs", "save">>
  BY <1>1, <1>3, <1>7 DEF JobFields
<1>9. PrintOf(t)' = PrintOf(t) /\ (Passed(t)' <=> Passed(t)) /\ Contents(t)' = Contents(t)
  BY <1>1, <1>2, <1>4, <1>8, TaskInPlace
<1>10. CASE job'.at = "unsay"
  <2>1. /\ DOMAIN job'.entry = {"own"} /\ job'.entry["own"] = <<"made", key[2], FALSE, key[3]>>
    BY <1>8, <1>10 DEF SoundInv, Upheld, Stored
  <2>2. Restorable(t)'
    BY <1>2, <1>5, <1>6, <1>9, <2>1 DEF Restorable
  <2>3. Working(t)'
    BY <1>5, <1>8, <1>9, <1>10, <2>2 DEF Working
  <2>4. AtWork'
    BY <1>8, <2>3 DEF AtWork
  <2>5. QED BY <1>1, <1>2, <1>4, <1>8, <2>4, TaskInPlace
<1>11. CASE job'.at = "run"
  <2>1. Keyed(t)'
    BY <1>2, <1>5, <1>6, <1>8, <1>9 DEF Keyed
  <2>2. Working(t)'
    BY <1>5, <1>8, <1>9, <1>11, <2>1 DEF Working
  <2>3. AtWork'
    BY <1>8, <2>2 DEF AtWork
  <2>4. QED BY <1>1, <1>2, <1>4, <1>8, <2>3, TaskInPlace
<1>12. QED BY <1>8, <1>10, <1>11

LEMMA RunUpholds ==
  ASSUME SoundInv, Shape, OrderInv, Graph' = Graph, Run
  PROVE  Upheld'
<1>1. PICK t : t = job.task
  OBVIOUS
<1>2. /\ job.at = "run" /\ job.at \in AtATask
      /\ UNCHANGED <<src, arg, out, clock, ended, prints, entries>>
  BY DEF Run, At, AtATask, tree, files
<1>3. T = t /\ t \in Tasks /\ DOMAIN job = JobFields
  BY <1>1, <1>2, AtHand
<1>4. Stored' /\ DOMAIN prints' = Tasks /\ Printed(t, prints[t])'
  BY <1>2, <1>3, DiskSame DEF SoundInv, Upheld, Timed, AllPrinted
<1>5. Working(t)
  BY <1>1, <1>2, <1>3 DEF SoundInv, Upheld, AtWork
<1>6. job' = [job EXCEPT !.at = "running", !.read = Contents(t)]
  BY <1>3 DEF Run
<1>7. /\ job'.at = "running" /\ job'.over = job.over /\ job'.print = job.print
      /\ job'.key = job.key /\ job'.rest = job.rest /\ job'.read = Contents(t)
      /\ job'.extra = job.extra /\ job'.named = job.named /\ job'.task = t
  BY <1>1, <1>3, <1>6 DEF JobFields
<1>8. /\ PrintOf(t)' = PrintOf(t) /\ Contents(t)' = Contents(t)
      /\ Keyed(t) => Keyed(t)'
  BY <1>1, <1>2, <1>4, <1>7, TaskInPlace
<1>9. Working(t)'
  BY <1>2, <1>5, <1>7, <1>8 DEF Working
<1>10. AtWork'
  BY <1>7, <1>9 DEF AtWork
<1>11. QED BY <1>1, <1>2, <1>4, <1>7, <1>10, TaskInPlace

\* and loses its fingerprint before its outputs are put back.
LEMMA UnsayUpholds ==
  ASSUME SoundInv, Shape, OrderInv, Graph' = Graph, Unsay
  PROVE  Upheld'
<1>1. PICK t : t = job.task
  OBVIOUS
<1>2. /\ job.at = "unsay" /\ job.at \in AtATask
      /\ UNCHANGED <<src, arg, out, clock, ended, entries>>
  BY DEF Unsay, At, AtATask, tree
<1>3. T = t /\ t \in Tasks /\ DOMAIN job = JobFields
  BY <1>1, <1>2, AtHand
<1>4. /\ DOMAIN prints' = Tasks /\ prints'[t] = Nothing
      /\ \A u \in Tasks \ {t} : prints'[u] = prints[u]
  BY <1>3 DEF Unsay, Forget, SoundInv, Upheld, Timed
<1>5. Stored' /\ Printed(t, prints[t])'
  BY <1>2, <1>4 DEF SoundInv, Upheld, Stored, Printed
<1>6. Working(t)
  BY <1>1, <1>2, <1>3 DEF SoundInv, Upheld, AtWork
<1>7. job' = [job EXCEPT !.at = "remove"]
  BY DEF Unsay, Goes
<1>8. /\ job'.at = "remove" /\ job'.over = job.over /\ job'.print = job.print
      /\ job'.entry = job.entry /\ job'.rest = job.rest
      /\ job'.extra = job.extra /\ job'.named = job.named /\ job'.task = t
  BY <1>1, <1>3, <1>7 DEF JobFields
<1>9. /\ PrintOf(t)' = PrintOf(t)
      /\ Restorable(t) => Restorable(t)'
  BY <1>1, <1>2, <1>4, <1>5, <1>8, TaskInPlace
<1>10. Working(t)'
  BY <1>2, <1>4, <1>6, <1>8, <1>9 DEF Working
<1>11. AtWork'
  BY <1>8, <1>10 DEF AtWork
<1>12. QED BY <1>1, <1>2, <1>4, <1>5, <1>8, <1>11, TaskInPlace

\* What is still to be said, and what is left of it.
Rests == {<<"outs", "print">>, <<"print">>, <<>>, <<"print", "outs", "save">>, <<"outs", "save">>,
          <<"save">>}
LEMMA RestOf ==
  ASSUME NEW rest \in Rests, rest # <<>>
  PROVE  /\ Head(rest) = "print" => \/ rest = <<"print">> /\ Tail(rest) = <<>>
                                    \/ rest = <<"print", "outs", "save">> /\ Tail(rest) = <<"outs", "save">>
         /\ Head(rest) = "outs" => \/ rest = <<"outs", "print">> /\ Tail(rest) = <<"print">>
                                   \/ rest = <<"outs", "save">> /\ Tail(rest) = <<"save">>
         /\ Head(rest) = "save" => rest = <<"save">> /\ Tail(rest) = <<>>
<1>1. CASE rest = <<"outs", "print">>
  BY <1>1
<1>2. CASE rest = <<"print">>
  BY <1>2
<1>3. CASE rest = <<"print", "outs", "save">>
  BY <1>3
<1>4. CASE rest = <<"outs", "save">>
  BY <1>4
<1>5. CASE rest = <<"save">>
  BY <1>5
<1>6. QED BY <1>1, <1>2, <1>3, <1>4, <1>5 DEF Rests

LEMMA RestsDiffer ==
  /\ <<"print">> \notin {<<"outs", "print">>, <<>>, <<"print", "outs", "save">>, <<"outs", "save">>, <<"save">>}
  /\ <<"print", "outs", "save">> \notin {<<"outs", "print">>, <<"print">>, <<>>, <<"outs", "save">>, <<"save">>}
  /\ <<"outs", "save">> \notin {<<"outs", "print">>, <<"print">>, <<>>, <<"print", "outs", "save">>, <<"save">>}
  /\ <<"save">> \notin {<<"outs", "print">>, <<"print">>, <<>>, <<"print", "outs", "save">>, <<"outs", "save">>}
OBVIOUS

\* The books, one after the other, of what the task made.
LEMMA ImprintUpholds ==
  ASSUME SoundInv, Shape, OrderInv, Graph' = Graph, Imprint
  PROVE  Upheld'
<1>1. PICK t : t = job.task
  OBVIOUS
<1>2. /\ job.at = "book" /\ job.at \in AtATask /\ job.rest # <<>> /\ Head(job.rest) = "print"
      /\ UNCHANGED <<src, arg, out, clock, ended, entries>>
  BY DEF Imprint, Books, At, AtATask, tree
<1>3. T = t /\ t \in Tasks /\ DOMAIN job = JobFields
  BY <1>1, <1>2, AtHand
<1>4. job.print = PrintOf(t) /\ Booking(t)
  BY <1>1, <1>2, <1>3 DEF SoundInv, Upheld, AtWork, Working
<1>5. /\ DOMAIN prints' = Tasks /\ prints'[t] = PrintOf(t)
      /\ \A u \in Tasks \ {t} : prints'[u] = prints[u]
  BY <1>3, <1>4 DEF Imprint, SoundInv, Upheld, Timed
<1>6. Printed(t, prints[t])'
  <2>1. PICK print : print = PrintOf(t)
    OBVIOUS
  <2>2. Printed(t, print)
    BY <1>3, <1>4, <2>1, CurrentIsPrinted DEF Booking, SoundInv, Upheld
  <2>3. Printed(t, print)'
    BY <1>2, <2>2, FilesSame
  <2>4. QED BY <1>5, <2>1, <2>3
<1>7. Stored'
  BY <1>2 DEF SoundInv, Upheld, Stored
<1>8. job' = [job EXCEPT !.rest = Tail(job.rest)]
  BY DEF Imprint, OneLess
<1>9. /\ job'.at = "book" /\ job'.over = job.over /\ job'.print = job.print
      /\ job'.key = job.key /\ job'.rest = Tail(job.rest)
      /\ job'.extra = job.extra /\ job'.named = job.named /\ job'.task = t
  BY <1>1, <1>2, <1>3, <1>8 DEF JobFields
<1>10. /\ PrintOf(t)' = PrintOf(t) /\ (Current(t)' <=> Current(t))
       /\ Keyed(t) => Keyed(t)'
  BY <1>1, <1>2, <1>5, <1>7, <1>9, TaskInPlace
<1>11. \/ job'.rest = <<>>
       \/ job'.rest = <<"outs", "save">> /\ Keyed(t)
  <2>1. PICK rest \in Rests : rest = job.rest
    BY <1>4 DEF Booking, Rests
  <2>2. QED BY <1>2, <1>4, <1>9, <2>1, RestOf, RestsDiffer DEF Booking
<1>12. Booking(t)'
  BY <1>4, <1>6, <1>10, <1>11 DEF Booking
<1>13. Working(t)'
  BY <1>4, <1>9, <1>10, <1>12 DEF Working
<1>14. AtWork'
  BY <1>9, <1>13 DEF AtWork
<1>15. QED BY <1>1, <1>2, <1>5, <1>7, <1>9, <1>14, TaskInPlace

\* The record holds what the outputs are, and so will the entry.
LEMMA OutsUpholds ==
  ASSUME SoundInv, Shape, OrderInv, Graph' = Graph, Outs
  PROVE  Upheld'
<1>1. PICK t : t = job.task
  OBVIOUS
<1>2. /\ job.at = "book" /\ job.at \in AtATask /\ job.rest # <<>> /\ Head(job.rest) = "outs"
      /\ UNCHANGED <<src, arg, out, clock, ended, prints, entries>>
  BY DEF Outs, Books, At, AtATask, tree
<1>3. T = t /\ t \in Tasks /\ DOMAIN job = JobFields
  BY <1>1, <1>2, AtHand
<1>4. job.print = PrintOf(t) /\ Booking(t)
  BY <1>1, <1>2, <1>3 DEF SoundInv, Upheld, AtWork, Working
<1>5. /\ Stored' /\ DOMAIN prints' = Tasks
      /\ Printed(t, prints[t]) => Printed(t, prints[t])'
  BY <1>2, <1>3, DiskSame DEF SoundInv, Upheld, Timed
<1>6. PICK now : now = [f \in DOMAIN out[t] |-> out[t][f].is]
  OBVIOUS
<1>7. job' = [[job EXCEPT !.rest = Tail(job.rest)] EXCEPT !.entry = now]
  BY <1>3, <1>6 DEF Outs, OneLess
<1>8. /\ job'.at = "book" /\ job'.over = job.over /\ job'.print = job.print
      /\ job'.key = job.key /\ job'.rest = Tail(job.rest) /\ job'.entry = now
      /\ job'.extra = job.extra /\ job'.named = job.named /\ job'.task = t
  BY <1>1, <1>2, <1>3, <1>7 DEF JobFields
<1>9. /\ PrintOf(t)' = PrintOf(t) /\ (Current(t)' <=> Current(t))
      /\ (Passed(t)' <=> Passed(t)) /\ Contents(t)' = Contents(t)
      /\ Keyed(t) => Keyed(t)'
  BY <1>1, <1>2, <1>5, <1>8, TaskInPlace
<1>10. \/ job.rest = <<"outs", "print">> /\ job'.rest = <<"print">>
       \/ job.rest = <<"outs", "save">> /\ job'.rest = <<"save">> /\ Keyed(t)
  <2>1. PICK rest \in Rests : rest = job.rest
    BY <1>4 DEF Booking, Rests
  <2>2. QED BY <1>2, <1>4, <1>8, <2>1, RestOf, RestsDiffer DEF Booking
<1>11. Keyed(t) => Restorable(t)'
  <2>1. SUFFICES ASSUME Keyed(t) PROVE Restorable(t)'
    OBVIOUS
  <2>2. Passed(t) = FALSE
    BY <2>1 DEF Keyed
  <2>3. DOMAIN out[t] = {"own"} /\ out[t]["own"].is = <<"made", arg, FALSE, Contents(t)>>
    BY <1>4, <2>2 DEF Booking, Current, Wrote
  <2>4. DOMAIN now = {"own"} /\ now["own"] = <<"made", arg, FALSE, Contents(t)>>
    BY <1>6, <2>3
  <2>5. QED BY <1>2, <1>8, <1>9, <2>2, <2>4 DEF Restorable
<1>12. Booking(t)'
  BY <1>4, <1>5, <1>9, <1>10, <1>11, RestsDiffer DEF Booking
<1>13. Working(t)'
  BY <1>4, <1>8, <1>9, <1>12 DEF Working
<1>14. AtWork'
  BY <1>8, <1>13 DEF AtWork
<1>15. QED BY <1>1, <1>2, <1>5, <1>8, <1>14, TaskInPlace

\* The entry is of what its key says.
LEMMA SaveEntryUpholds ==
  ASSUME SoundInv, Shape, OrderInv, Graph' = Graph, SaveEntry
  PROVE  Upheld'
<1>1. PICK t : t = job.task
  OBVIOUS
<1>2. /\ job.at = "book" /\ job.at \in AtATask /\ job.rest # <<>> /\ Head(job.rest) = "save"
      /\ UNCHANGED <<src, arg, out, clock, ended, prints>>
  BY DEF SaveEntry, Books, At, AtATask, tree
<1>3. T = t /\ t \in Tasks /\ DOMAIN job = JobFields
  BY <1>1, <1>2, AtHand
<1>4. job.print = PrintOf(t) /\ Booking(t)
  BY <1>1, <1>2, <1>3 DEF SoundInv, Upheld, AtWork, Working
<1>5. job.rest = <<"save">> /\ Keyed(t) /\ Restorable(t) /\ Current(t) /\ Printed(t, prints[t])
  <2>1. PICK rest \in Rests : rest = job.rest
    BY <1>4 DEF Booking, Rests
  <2>2. QED BY <1>2, <1>4, <2>1, RestOf, RestsDiffer DEF Booking
<1>6. Stored'
  <2>1. PICK key, entry, held : key = job.key /\ entry = job.entry /\ held = Contents(t)
    OBVIOUS
  <2>2. key = <<t, arg, held>>
    BY <1>5, <2>1 DEF Keyed
  <2>3. key[2] = arg /\ key[3] = held
    BY <2>2
  <2>4. DOMAIN entry = {"own"} /\ entry["own"] = <<"made", arg, FALSE, held>>
    BY <1>5, <2>1 DEF Restorable
  <2>5. DOMAIN entry = {"own"} /\ entry["own"] = <<"made", key[2], FALSE, key[3]>>
    BY <2>3, <2>4
  <2>6. entries' = Put(entries, key, entry)
    BY <2>1 DEF SaveEntry
  <2>7. QED BY <2>5, <2>6 DEF Stored, Put, SoundInv, Upheld
<1>7. DOMAIN prints' = Tasks /\ Printed(t, prints[t])'
  <2>1. PICK print : print = prints[t]
    OBVIOUS
  <2>2. Printed(t, print)'
    BY <1>2, <1>5, <2>1, FilesSame
  <2>3. QED BY <1>2, <2>1, <2>2 DEF SoundInv, Upheld, Timed
<1>8. job' = [job EXCEPT !.rest = Tail(job.rest)]
  BY DEF SaveEntry, OneLess
<1>9. /\ job'.at = "book" /\ job'.over = job.over /\ job'.print = job.print
      /\ job'.rest = <<>>
      /\ job'.extra = job.extra /\ job'.named = job.named /\ job'.task = t
  BY <1>1, <1>2, <1>3, <1>5, <1>8 DEF JobFields
<1>10. PrintOf(t)' = PrintOf(t) /\ (Current(t)' <=> Current(t))
  BY <1>1, <1>2, <1>6, <1>7, <1>9, TaskInPlace
<1>11. Booking(t)'
  BY <1>5, <1>7, <1>9, <1>10 DEF Booking
<1>12. Working(t)'
  BY <1>4, <1>9, <1>10, <1>11 DEF Working
<1>13. AtWork'
  BY <1>9, <1>12 DEF AtWork
<1>14. QED BY <1>1, <1>2, <1>6, <1>7, <1>9, <1>13, TaskInPlace

LEMMA BookedUpholds ==
  ASSUME SoundInv, Shape, OrderInv, Graph' = Graph, Booked
  PROVE  Upheld'
<1>1. PICK t : t = job.task
  OBVIOUS
<1>2. /\ job.at = "book" /\ job.at \in AtATask /\ job.rest = <<>>
      /\ UNCHANGED <<src, arg, out, clock, ended, prints, entries>>
  BY DEF Booked, At, AtATask, tree, files
<1>3. T = t /\ t \in Tasks /\ DOMAIN job = JobFields
  BY <1>1, <1>2, AtHand
<1>4. Current(t) /\ Printed(t, prints[t])
  BY <1>1, <1>2, <1>3 DEF SoundInv, Upheld, AtWork, Working, Booking
<1>5. Stored' /\ DOMAIN prints' = Tasks /\ Printed(t, prints[t])'
  BY <1>2, <1>3, <1>4, DiskSame DEF SoundInv, Upheld, Timed
<1>6. job' = [job EXCEPT !.at = "step", !.over = Append(job.over, t)]
  BY <1>3 DEF Booked, Ended
<1>7. /\ job'.at = "step" /\ job'.over = Append(job.over, t)
      /\ job'.extra = job.extra /\ job'.named = job.named /\ job'.task = t
  BY <1>1, <1>3, <1>6 DEF JobFields
<1>8. AtWork'
  BY <1>7 DEF AtWork, AtATask
<1>9. QED BY <1>1, <1>2, <1>4, <1>5, <1>7, <1>8, TaskInPlace

\* A step that changes the task's own files, of which no fingerprint is left.
LEMMA TaskMoves ==
  ASSUME SoundInv, Shape, NEW t \in Tasks,
         UNCHANGED <<src, entries>>, clock' \in {clock, clock + 1},
         DOMAIN prints' = Tasks,
         \A u \in Tasks \ {t} : out'[u] = out[u] /\ prints'[u] = prints[u],
         \A f \in DOMAIN out'[t] : f = "own" /\ out'[t][f].time = clock' /\ clock' = clock + 1,
         job.at # "book",
         (job'.at = "book" /\ job'.task = t) \/ prints'[t] = Nothing
  PROVE  Timed' /\ Stored' /\ AllPrinted'
<1>1. clock \in Nat
  BY DEF Shape
<1>2. Timed'
  BY <1>1 DEF SoundInv, Upheld, Timed
<1>3. Stored'
  BY DEF SoundInv, Upheld, Stored
<1>4. Stamped
  BY <1>1 DEF Stamped
<1>5. ASSUME NEW u \in Tasks \ {t} PROVE Printed(u, prints[u])'
  <2>1. PICK print : print = prints[u]
    OBVIOUS
  <2>2. Printed(u, print)
    BY <2>1 DEF SoundInv, Upheld, AllPrinted
  <2>3. Printed(u, print)'
    BY <1>4, <2>2, FilesLater
  <2>4. prints'[u] = print
    BY <2>1
  <2>5. QED BY <2>3, <2>4
<1>6. prints'[t] = Nothing => Printed(t, prints[t])'
  BY DEF Printed
<1>7. AllPrinted'
  BY <1>5, <1>6 DEF AllPrinted
<1>8. QED BY <1>2, <1>3, <1>7

\* Outputs put back are what a run would write now.
LEMMA RestoreUpholds ==
  ASSUME SoundInv, Shape, OrderInv, Graph' = Graph, ClearOut \/ PutBack
  PROVE  Upheld'
<1>1. PICK t : t = job.task
  OBVIOUS
<1>2. /\ job.at \in {"remove", "write"} /\ job.at \in AtATask
      /\ UNCHANGED <<src, arg, ended, prints, entries>> /\ clock' \in {clock, clock + 1}
  BY DEF ClearOut, PutBack, At, AtATask, tree
<1>3. T = t /\ t \in Tasks /\ DOMAIN job = JobFields /\ DOMAIN out = Tasks
  BY <1>1, <1>2, AtHand DEF Shape
<1>4. Working(t)
  BY <1>1, <1>2, <1>3 DEF SoundInv, Upheld, AtWork
<1>5. /\ job.print = PrintOf(t) /\ job.rest = <<"outs", "print">> /\ prints[t] = Nothing
      /\ ~Passed(t) /\ DOMAIN job.entry = {"own"}
      /\ job.entry["own"] = <<"made", arg, FALSE, Contents(t)>>
  BY <1>2, <1>4 DEF Working, Restorable
<1>6. \E at : job' = [job EXCEPT !.at = at]
  BY DEF ClearOut, PutBack, Goes
<1>7. /\ job'.over = job.over /\ job'.print = job.print /\ job'.entry = job.entry
      /\ job'.rest = job.rest
      /\ job'.extra = job.extra /\ job'.named = job.named /\ job'.task = t
  BY <1>1, <1>3, <1>6 DEF JobFields
<1>8. /\ \A u \in Tasks \ {t} : out'[u] = out[u]
      /\ \A f \in DOMAIN out'[t] : f = "own" /\ out'[t][f].time = clock' /\ clock' = clock + 1
  <2>1. CASE ClearOut
    BY <1>3, <2>1 DEF ClearOut, Nothing
  <2>2. CASE PutBack
    BY <1>3, <1>5, <2>2 DEF PutBack
  <2>3. QED BY <2>1, <2>2
<1>9. Timed' /\ Stored' /\ AllPrinted'
  BY <1>2, <1>3, <1>5, <1>8, TaskMoves DEF SoundInv, Upheld, Timed
<1>10. /\ \A u : Passed(u)' = Passed(u)
       /\ Contents(t)' = Contents(t) /\ Times(t)' = Times(t)
       /\ OverInv' /\ EndInv'
  BY <1>1, <1>2, <1>7, <1>8, OverKept DEF SoundInv, Upheld
<1>11. job'.print = PrintOf(t)'
  BY <1>2, <1>5, <1>7, <1>10 DEF PrintOf
<1>12. CASE ClearOut
  <2>1. job'.at = "write"
    BY <1>3, <1>12 DEF ClearOut, Goes, JobFields
  <2>2. Restorable(t)'
    BY <1>2, <1>5, <1>7, <1>10 DEF Restorable
  <2>3. Working(t)'
    BY <1>2, <1>5, <1>7, <1>11, <2>1, <2>2 DEF Working
  <2>4. AtWork'
    BY <1>7, <2>3 DEF AtWork
  <2>5. QED BY <1>9, <1>10, <2>4 DEF Upheld
<1>13. CASE PutBack
  <2>1. job'.at = "book"
    BY <1>3, <1>13 DEF PutBack, Goes, JobFields
  <2>2. DOMAIN out'[t] = {"own"} /\ out'[t]["own"].is = job.entry["own"]
    BY <1>3, <1>5, <1>13 DEF PutBack
  <2>3. Current(t)'
    <3>1. Passed(t) = FALSE /\ Passed(t)' = FALSE
      BY <1>5, <1>10
    <3>2. out'[t]["own"].is = <<"made", arg, FALSE, Contents(t)>>
      BY <1>5, <2>2
    <3>3. QED BY <1>2, <1>10, <2>2, <3>1, <3>2 DEF Current, Wrote
  <2>4. Booking(t)'
    BY <1>5, <1>7, <2>3, RestsDiffer DEF Booking
  <2>5. Working(t)'
    BY <1>11, <2>1, <2>4 DEF Working
  <2>6. AtWork'
    BY <1>7, <2>5 DEF AtWork
  <2>7. QED BY <1>9, <1>10, <2>6 DEF Upheld
<1>14. QED BY <1>12, <1>13

\* A run writes what it makes of what it read, which is what is still there.
LEMMA RanUpholds ==
  ASSUME SoundInv, Shape, OrderInv, Graph' = Graph, Ran
  PROVE  Upheld'
<1>1. PICK t : t = job.task
  OBVIOUS
<1>2. /\ job.at = "running" /\ job.at \in AtATask
      /\ UNCHANGED <<src, arg, ended, prints, entries>> /\ clock' = clock + 1
  BY DEF Ran, Writes, At, AtATask, tree
<1>3. /\ T = t /\ t \in Tasks /\ DOMAIN job = JobFields /\ DOMAIN out = Tasks
      /\ Extra = Passed(t)
  BY <1>1, <1>2, AtHand DEF Shape
<1>4. Working(t)
  BY <1>1, <1>2, <1>3 DEF SoundInv, Upheld, AtWork
<1>5. /\ job.print = PrintOf(t) /\ job.read = Contents(t)
      /\ job.rest = <<"print">> \/ (job.rest = <<"print", "outs", "save">> /\ Keyed(t))
  BY <1>2, <1>4 DEF Working
<1>6. job' = [job EXCEPT !.at = "book"]
  BY DEF Ran, Goes
<1>7. /\ job'.at = "book" /\ job'.over = job.over /\ job'.print = job.print /\ job'.key = job.key
      /\ job'.rest = job.rest
      /\ job'.extra = job.extra /\ job'.named = job.named /\ job'.task = t
  BY <1>1, <1>3, <1>6 DEF JobFields
<1>8. /\ \A u \in Tasks \ {t} : out'[u] = out[u]
      /\ DOMAIN out'[t] = {"own"} /\ out'[t]["own"].time = clock'
      /\ out'[t]["own"].is = <<"made", arg, Passed(t), Contents(t)>>
  <2>1. PICK what, new : /\ what = <<"made", arg, Passed(t), Contents(t)>>
                         /\ new = [is |-> what, time |-> clock']
    OBVIOUS
  <2>2. out' = [out EXCEPT ![t] = Put(out[t], "own", new)]
    BY <1>3, <1>5, <2>1 DEF Ran, Writes
  <2>3. DOMAIN out[t] \subseteq {"own"}
    BY <1>3 DEF SoundInv, Upheld, Timed
  <2>4. QED BY <1>3, <2>1, <2>2, <2>3 DEF Put
<1>9. Timed' /\ Stored' /\ AllPrinted'
  BY <1>2, <1>3, <1>7, <1>8, TaskMoves DEF SoundInv, Upheld, Timed
<1>10. /\ \A u : Passed(u)' = Passed(u)
       /\ Contents(t)' = Contents(t) /\ Times(t)' = Times(t)
       /\ OverInv' /\ EndInv'
  BY <1>1, <1>2, <1>7, <1>8, OverKept DEF SoundInv, Upheld
<1>11. job'.print = PrintOf(t)'
  BY <1>2, <1>5, <1>7, <1>10 DEF PrintOf
<1>12. Current(t)'
  BY <1>2, <1>8, <1>10 DEF Current, Wrote
<1>13. Keyed(t) => Keyed(t)'
  BY <1>2, <1>7, <1>10 DEF Keyed
<1>14. Booking(t)'
  BY <1>5, <1>7, <1>12, <1>13, RestsDiffer DEF Booking
<1>15. AtWork'
  BY <1>7, <1>11, <1>14 DEF AtWork, Working
<1>16. QED BY <1>9, <1>10, <1>15 DEF Upheld

\* One that fails leaves nothing that says otherwise.
LEMMA FailUpholds ==
  ASSUME SoundInv, Shape, OrderInv, Graph' = Graph, Fail
  PROVE  Upheld'
<1>1. PICK t : t = job.task
  OBVIOUS
<1>2. /\ job.at = "running" /\ job.at \in AtATask
      /\ UNCHANGED <<src, arg, entries>> /\ clock' = clock + 1
      /\ job'.at = "idle" /\ ended'.result = "failed"
  BY DEF Fail, Writes, At, AtATask, tree, End, NoJob
<1>3. T = t /\ t \in Tasks /\ DOMAIN out = Tasks
  BY <1>1, <1>2, AtHand DEF Shape
<1>4. /\ DOMAIN prints' = Tasks /\ prints'[t] = Nothing
      /\ \A u \in Tasks \ {t} : prints'[u] = prints[u] /\ out'[u] = out[u]
  BY <1>3 DEF Fail, Forget, Writes, SoundInv, Upheld, Timed
<1>5. \A f \in DOMAIN out'[t] : f = "own" /\ out'[t][f].time = clock'
  <2>1. PICK new : new = [is |-> Half, time |-> clock']
    OBVIOUS
  <2>2. out' = [out EXCEPT ![t] = Put(out[t], "own", new)]
    BY <1>3, <2>1 DEF Fail, Writes
  <2>3. DOMAIN out[t] \subseteq {"own"}
    BY <1>3 DEF SoundInv, Upheld, Timed
  <2>4. QED BY <1>3, <2>1, <2>2, <2>3 DEF Put
<1>6. Timed' /\ Stored' /\ AllPrinted'
  BY <1>2, <1>3, <1>4, <1>5, TaskMoves
<1>7. QED BY <1>2, <1>6 DEF Upheld, AtWork, OverInv, EndInv, AtATask

-----------------------------------------------------------------------------
(* The invariant holds.                                                    *)

\* What a trial says of itself, and the invariant when it says it is sound.
Chosen == {"graph", "sound", "kills", "races", "edits"} \subseteq DOMAIN trial
AsIfInv == Chosen /\ (trial.sound => SoundInv)

LEMMA InitAsIf == Init => AsIfInv
<1> SUFFICES ASSUME Init PROVE AsIfInv
  OBVIOUS
<1>1. /\ trial \in Trials /\ job = [at |-> "idle"] /\ ended = [result |-> "none"] /\ clock = 0
      /\ src.time = 0 /\ entries = <<>>
      /\ out = [t \in Tasks |-> <<>>] /\ prints = [t \in Tasks |-> <<>>]
  BY DEF Init, NoJob, NoEnd, Nothing
<1>2. Chosen /\ (trial.sound => Sound(trial))
  BY <1>1, TasksAssumption DEF Chosen
<1>3. Timed
  BY <1>1 DEF Timed
<1>4. Stored
  BY <1>1 DEF Stored
<1>5. AllPrinted
  BY <1>1 DEF AllPrinted, Printed, Nothing
<1>6. AtWork /\ OverInv /\ EndInv
  BY <1>1 DEF AtWork, AtATask, OverInv, EndInv
<1>7. QED BY <1>2, <1>3, <1>4, <1>5, <1>6 DEF AsIfInv, SoundInv, SoundTrial, Upheld, Chosen

LEMMA ChosenKept ==
  ASSUME Chosen, [Next]_vars
  PROVE  Chosen' /\ trial'.sound = trial.sound
<1>1. ASSUME NEW what \in {"commands", "failures", "kills", "saves", "races", "changes", "edits", "cleans"},
             Spend(what)
      PROVE  Chosen' /\ trial'.sound = trial.sound
  <2>1. trial' = [trial EXCEPT ![what] = trial[what] - 1]
    BY <1>1 DEF Spend
  <2>2. QED BY <2>1 DEF Chosen
<1>2. \/ trial' = trial
      \/ \E what \in {"commands", "failures", "kills", "saves", "races", "changes", "edits", "cleans"} :
           Spend(what)
  BY DEF Next, vars, Command, Step, Open, Finish, Prepare, Key, Unsay, ClearOut, PutBack, Run, Ran,
         Fail, Imprint, Outs, SaveEntry, Booked, Books, Kill, Save, EditManifest, Edit, Clean
<1>3. QED BY <1>1, <1>2 DEF Chosen

LEMMA StillUpheld ==
  ASSUME SoundInv, UNCHANGED vars
  PROVE  Upheld'
<1>1. UNCHANGED <<src, arg, out, clock, prints, entries, job, ended, trial>>
  BY DEF vars, tree, files
<1>2. Timed' /\ Stored'
  BY <1>1 DEF SoundInv, Upheld, Timed, Stored
<1>3. ASSUME NEW t \in Tasks PROVE ((job.at = "book" /\ job.task = t) \/ Printed(t, prints[t]))'
  BY <1>1, <1>3, DiskSame DEF SoundInv, Upheld, AllPrinted
<1>4. AllPrinted'
  BY <1>3 DEF AllPrinted
<1>5. \A t : /\ Contents(t)' = Contents(t) /\ Times(t)' = Times(t) /\ Passed(t)' = Passed(t)
             /\ \A a, x, held : Wrote(t, a, x, held)' <=> Wrote(t, a, x, held)
  BY <1>1 DEF Contents, Times, Passed, Wrote
<1>6. \A t : /\ (Current(t)' <=> Current(t)) /\ (Keyed(t)' <=> Keyed(t))
             /\ (Restorable(t)' <=> Restorable(t)) /\ PrintOf(t)' = PrintOf(t)
  <2>1. ASSUME NEW t PROVE Current(t)' <=> Current(t)
    BY <1>1, <1>5 DEF Current, Wrote
  <2>2. ASSUME NEW t PROVE (Keyed(t)' <=> Keyed(t)) /\ (Restorable(t)' <=> Restorable(t))
    BY <1>1, <1>5 DEF Keyed, Restorable
  <2>3. ASSUME NEW t PROVE PrintOf(t)' = PrintOf(t)
    BY <1>1, <1>5 DEF PrintOf
  <2>4. QED BY <2>1, <2>2, <2>3
<1>7. OverInv' /\ EndInv'
  BY <1>1, <1>5, <1>6 DEF SoundInv, Upheld, OverInv, EndInv, Graph
<1>8. \A t \in Tasks : Working(t) => Working(t)'
  <2>1. SUFFICES ASSUME NEW t \in Tasks, Working(t) PROVE Working(t)'
    OBVIOUS
  <2>2. Printed(t, prints[t]) => Printed(t, prints[t])'
    BY <1>1, DiskSame DEF SoundInv
  <2>3. Booking(t) => Booking(t)'
    BY <1>1, <1>6, <2>2 DEF Booking
  <2>4. QED BY <1>1, <1>5, <1>6, <2>1, <2>3 DEF Working
<1>9. AtWork'
  BY <1>1, <1>8 DEF SoundInv, Upheld, AtWork
<1>10. QED BY <1>2, <1>4, <1>7, <1>9 DEF Upheld

LEMMA AsIfKept ==
  ASSUME IInv, GraphInv, OrderInv, AsIfInv, [Next]_vars
  PROVE  AsIfInv'
<1>1. Chosen' /\ trial'.sound = trial.sound
  BY ChosenKept DEF AsIfInv
<1>2. CASE ~trial.sound
  BY <1>1, <1>2 DEF AsIfInv
<1>3. CASE trial.sound
  <2>1. SoundInv /\ Shape
    BY <1>3 DEF AsIfInv, IInv
  <2>2. Graph' = Graph
    BY GraphKept
  <2>3. SoundTrial' /\ ~Kill /\ ~Edit /\ (Save => job.at = "idle")
    BY <2>1, SoundKept DEF SoundInv
  <2>4. Upheld'
    BY <2>1, <2>2, <2>3, CommandUpholds, StepUpholds, FinishUpholds, PrepareUpholds, KeyUpholds,
       UnsayUpholds, RestoreUpholds, RunUpholds, RanUpholds, FailUpholds, ImprintUpholds,
       OutsUpholds, SaveEntryUpholds, BookedUpholds, AroundUpholds, StillUpheld DEF Next
  <2>5. QED BY <1>1, <2>3, <2>4 DEF AsIfInv, SoundInv
<1>4. QED BY <1>2, <1>3

-----------------------------------------------------------------------------
(* What a run of them all would make.                                      *)

\* Of an argument, of the sources, and of what the tasks it reads make.
MakesOf(t, a, x, s, made) ==
  <<"made", a, x, [i \in Inputs[t] |-> IF i = "src" THEN s ELSE [f \in {"own"} |-> made[i]]]>>

Makeable(a, x, s) ==
  \E made : /\ made = [t \in Tasks |-> made[t]]
            /\ \A t \in Tasks : made[t] = MakesOf(t, a, x, s, made)

\* There is what every task makes: first of those that reach the fewest nodes.
LEMMA MadeExists ==
  ASSUME NEW g, GraphOK(g), ~Cyclic(g),
         \A t \in Tasks : Inputs[t] \cap Tasks \subseteq ToSet(g.depends[t]),
         NEW a, NEW x, NEW s
  PROVE  Makeable(a, x, s)
<1> DEFINE Low(k) == {t \in Tasks : Rank(g, t) < k}
           S == {k \in Nat : \E m : m = [t \in Low(k) |-> MakesOf(t, a, x, s, m)]}
<1>1. ASSUME NEW m1, NEW m2, NEW t \in Tasks,
             \A i \in Inputs[t] \cap Tasks : m1[i] = m2[i]
      PROVE  MakesOf(t, a, x, s, m1) = MakesOf(t, a, x, s, m2)
  <2>1. \A i \in Inputs[t] : i # "src" => m1[i] = m2[i]
    BY <1>1, TasksAssumption
  <2>2. [i \in Inputs[t] |-> IF i = "src" THEN s ELSE [f \in {"own"} |-> m1[i]]]
          = [i \in Inputs[t] |-> IF i = "src" THEN s ELSE [f \in {"own"} |-> m2[i]]]
    BY <2>1
  <2>3. QED BY <2>2 DEF MakesOf
<1>2. \A t \in Tasks : \A i \in Inputs[t] \cap Tasks : Rank(g, i) < Rank(g, t)
  BY DependsOnLess
<1>3. \A t \in Tasks : Rank(g, t) \in Nat /\ Rank(g, t) <= Cardinality(Nodes)
  BY RankType
<1>4. 0 \in S
  <2>1. Low(0) = {}
    BY <1>3
  <2>2. PICK m : m = [t \in Low(0) |-> <<>>]
    OBVIOUS
  <2>3. m = [t \in Low(0) |-> MakesOf(t, a, x, s, m)]
    BY <2>1, <2>2
  <2>4. QED BY <2>3
<1>5. ASSUME NEW k \in S PROVE k + 1 \in S
  <2>1. PICK m : m = [t \in Low(k) |-> MakesOf(t, a, x, s, m)]
    OBVIOUS
  <2>2. k \in Nat /\ k + 1 \in Nat
    OBVIOUS
  <2>3. PICK n : n = [t \in Low(k + 1) |-> IF t \in Low(k) THEN m[t] ELSE MakesOf(t, a, x, s, m)]
    OBVIOUS
  <2>4. ASSUME NEW t \in Low(k + 1) PROVE n[t] = MakesOf(t, a, x, s, n)
    <3>1. n[t] = MakesOf(t, a, x, s, m)
      BY <2>1, <2>3
    <3>2. \A i \in Inputs[t] \cap Tasks : i \in Low(k) /\ i \in Low(k + 1)
      BY <1>2, <1>3, <2>2
    <3>3. \A i \in Inputs[t] \cap Tasks : m[i] = n[i]
      BY <2>3, <3>2
    <3>4. QED BY <1>1, <3>1, <3>3
  <2>5. n = [t \in Low(k + 1) |-> MakesOf(t, a, x, s, n)]
    BY <2>3, <2>4
  <2>6. QED BY <2>2, <2>5
<1>6. S = Nat
  BY <1>4, <1>5, Induct
<1>7. PICK k \in Nat : k = Cardinality(Nodes) + 1
  BY NodesFinite
<1>8. Low(k) = Tasks
  BY <1>3, <1>7, NodesFinite
<1>9. k \in S
  BY <1>6
<1>10. PICK m : m = [t \in Low(k) |-> MakesOf(t, a, x, s, m)]
  BY <1>9
<1>11. m = [t \in Tasks |-> MakesOf(t, a, x, s, m)]
  BY <1>8, <1>10
<1>12. m = [t \in Tasks |-> m[t]] /\ \A t \in Tasks : m[t] = MakesOf(t, a, x, s, m)
  BY <1>11
<1>13. QED BY <1>12 DEF Makeable

\* So Made is what its equation says.
LEMMA MadeUnfolds ==
  ASSUME GraphInv, SoundTrial, ~Cyclic(Graph)
  PROVE  \A t \in Tasks : Made[t] = MakesOf(t, arg, FALSE, src.is, Made)
<1> DEFINE made[t \in Tasks] ==
             <<"made", arg, FALSE,
               [i \in Inputs[t] |-> IF i = "src" THEN src.is ELSE [f \in {"own"} |-> made[i]]]>>
<1>1. PICK g, a, x, s : g = Graph /\ a = arg /\ x = FALSE /\ s = src.is
  OBVIOUS
<1>2. PICK m : /\ m = [t \in Tasks |-> m[t]]
               /\ \A t \in Tasks : m[t] = MakesOf(t, a, x, s, m)
  <2>1. \A t \in Tasks : Inputs[t] \cap Tasks \subseteq ToSet(g.depends[t])
    BY <1>1 DEF SoundTrial, Sound, Graph
  <2>2. GraphOK(g) /\ ~Cyclic(g)
    BY <1>1 DEF GraphInv
  <2>3. Makeable(a, x, s)
    BY <2>1, <2>2, MadeExists
  <2>4. QED BY <2>3 DEF Makeable
<1>3. m = [t \in Tasks |->
            <<"made", arg, FALSE,
              [i \in Inputs[t] |-> IF i = "src" THEN src.is ELSE [f \in {"own"} |-> m[i]]]>>]
  BY <1>1, <1>2 DEF MakesOf
<1>4. made = [t \in Tasks |->
               <<"made", arg, FALSE,
                 [i \in Inputs[t] |-> IF i = "src" THEN src.is ELSE [f \in {"own"} |-> made[i]]]>>]
  BY <1>3
<1>5. Made = made
  BY DEF Made
<1> HIDE DEF made
<1>6. \A t \in Tasks : made[t] = MakesOf(t, arg, FALSE, src.is, made)
  BY <1>4 DEF MakesOf
<1>7. QED BY <1>5, <1>6

\* A task that is over wrote what it makes, as those it reads did before it.
LEMMA EndIsAsIf ==
  ASSUME Shape, GraphInv, AsIfInv
  PROVE  AsIfRun
<1>1. SUFFICES ASSUME ended.result = "ok", ~ended.extra, trial.sound,
                      NEW task \in ToSet(ended.over) \cap Tasks
               PROVE  "own" \in DOMAIN out[task] /\ out[task]["own"].is = Made[task]
  BY DEF AsIfRun
<1>2. SoundTrial /\ EndInv
  BY <1>1 DEF AsIfInv, SoundInv, Upheld
<1>3. PICK g, made : g = Graph /\ made = Made
  OBVIOUS
<1>4. /\ GraphOK(g) /\ ~Cyclic(g)
      /\ \A t \in ToSet(ended.over) \cap Tasks :
           Wrote(t, arg, FALSE, Contents(t)) /\ ToSet(g.depends[t]) \subseteq ToSet(ended.over)
  BY <1>1, <1>2, <1>3 DEF EndInv, GraphInv
<1>5. \A t \in Tasks : /\ made[t] = MakesOf(t, arg, FALSE, src.is, made)
                       /\ Inputs[t] \cap Tasks \subseteq ToSet(g.depends[t])
  BY <1>2, <1>3, <1>4, MadeUnfolds DEF SoundTrial, Sound, Graph
<1> DEFINE Right(t) == DOMAIN out[t] = {"own"} /\ out[t]["own"].is = made[t]
           S == {k \in Nat : \A t \in ToSet(ended.over) \cap Tasks : Rank(g, t) < k => Right(t)}
<1>6. \A t \in Tasks : Rank(g, t) \in Nat
  BY <1>4, RankType
<1>7. 0 \in S
  BY <1>6
<1>8. ASSUME NEW k \in S PROVE k + 1 \in S
  <2>1. SUFFICES ASSUME NEW t \in ToSet(ended.over) \cap Tasks, Rank(g, t) < k + 1 PROVE Right(t)
    OBVIOUS
  <2>2. ASSUME NEW i \in Inputs[t] \cap Tasks PROVE Right(i)
    <3>1. i \in ToSet(g.depends[t])
      BY <1>5
    <3>2. i \in ToSet(ended.over) /\ Rank(g, i) < Rank(g, t)
      BY <1>4, <3>1, DependsOnLess
    <3>3. Rank(g, i) < k
      BY <1>6, <2>1, <3>2
    <3>4. QED BY <3>2, <3>3
  <2>3. Contents(t) = [i \in Inputs[t] |-> IF i = "src" THEN src.is ELSE [f \in {"own"} |-> made[i]]]
    <3>1. ASSUME NEW i \in Inputs[t]
          PROVE  (IF i = "src" THEN src.is ELSE [f \in DOMAIN out[i] |-> out[i][f].is])
                   = IF i = "src" THEN src.is ELSE [f \in {"own"} |-> made[i]]
      <4>1. CASE i = "src"
        BY <4>1
      <4>2. CASE i # "src"
        <5>1. Right(i)
          BY <2>2, <4>2, TasksAssumption
        <5>2. [f \in DOMAIN out[i] |-> out[i][f].is] = [f \in {"own"} |-> made[i]]
          BY <5>1
        <5>3. QED BY <4>2, <5>2
      <4>3. QED BY <4>1, <4>2
    <3>2. QED BY <3>1 DEF Contents
  <2>4. made[t] = <<"made", arg, FALSE, Contents(t)>>
    BY <1>5, <2>3 DEF MakesOf
  <2>5. QED BY <1>4, <2>4 DEF Wrote
<1>9. S = Nat
  BY <1>7, <1>8, Induct
<1>10. PICK k \in Nat : k = Rank(g, task) + 1
  BY <1>6
<1>11. Rank(g, task) < k /\ k \in S
  BY <1>6, <1>9, <1>10
<1>12. Right(task)
  BY <1>11
<1>13. QED BY <1>3, <1>12

\* A command that ended well leaves what a run of all its tasks would write,
\* whichever of them it found fresh or restored: with a fingerprint or an
\* entry goes what it was made of, and what is over reads nothing that is not.
THEOREM SpecAsIfRun == Spec => []AsIfRun
<1>1. IInv /\ GraphInv /\ OrderInv /\ AsIfInv /\ [Next]_vars => GraphInv' /\ OrderInv' /\ AsIfInv'
  BY GraphKept, OrderKept, AsIfKept DEF IInv
<1>2. IInv /\ GraphInv /\ AsIfInv => AsIfRun
  BY EndIsAsIf DEF IInv
<1>3. QED BY <1>1, <1>2, OrderInit, InitAsIf, Invariance, PTL DEF Spec
=============================================================================
