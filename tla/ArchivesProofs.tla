---------------------------- MODULE ArchivesProofs ----------------------------
(***************************************************************************)
(* No archive is put in place half-written, however many commands record,  *)
(* sweep and are killed beside each other, but for the one that share.rs   *)
(* lets a test run that died leave.  A temporary file has its process's id *)
(* in its name: ids are told apart (Owners), a command records one archive *)
(* at a time (OneAtATime), so what a recorder wrote is what it renames, or *)
(* was swept (Wholes).  The tests of a project end up with one archive:    *)
(* of any two in place one is on somebody's list of those to remove, or    *)
(* who put one there has yet to look for others (Replaces).                *)
(***************************************************************************)
EXTENDS Archives, FiniteSetTheorems, TLAPS

USE ArchivesAssumption DEF ArchivesAssumption

\* Where a thread has temporary files.
Recording == {"jvm", "exit", "ended", "assemble", "create", "made"}
Pid(c) == command[c].pid

Shape ==
  /\ DOMAIN archives = Archives
  /\ DOMAIN command = Commands
  /\ \A c \in Commands : DOMAIN command[c] = {"pid", "kind", "claimed"}
  /\ DOMAIN thread = Threads
  /\ \A t \in Threads : DOMAIN thread[t] = {"at", "archive", "ok", "old"}

Owners ==
  /\ \A t \in Threads : thread[t].at # "off" => Pid(t[1]) # 0
  /\ \A c, d \in Commands : c # d => Pid(c) # Pid(d) \/ Pid(c) = 0

OneAtATime ==
  \A c \in Commands :
    /\ thread[<<c, "main">>].at \in Recording \cup {"tests"} => thread[<<c, "aside">>].at = "off"
    /\ thread[<<c, "aside">>].at # "off" => command[c].claimed \/ thread[<<c, "main">>].at = "done"

\* What t is about to rename is whole, if it is still there.
Good(t) ==
  /\ (thread[t].at = "ended" /\ thread[t].ok /\ thread[t].archive.of = Javac
        /\ Dump(t) \in DOMAIN temps) => temps[Dump(t)] = "whole"
  /\ (thread[t].at = "made" /\ thread[t].ok /\ Cache(t) \in DOMAIN temps)
        => temps[Cache(t)] = "whole"

Wholes == WholeArchives /\ \A t \in Threads : Good(t)

IInv == Shape /\ Owners /\ OneAtATime /\ Wholes

LEMMA InitIInv == Init => IInv
<1> SUFFICES ASSUME Init PROVE IInv
  OBVIOUS
<1>1. /\ archives = [a \in Archives |-> "none"]
      /\ command = [c \in Commands |-> [pid |-> 0, kind |-> "edit", claimed |-> FALSE]]
      /\ thread = [t \in Threads |-> Off]
  BY DEF Init, None
<1>2. \A t \in Threads : /\ DOMAIN thread[t] = {"at", "archive", "ok", "old"}
                         /\ thread[t].at = "off"
  BY <1>1 DEF Off
<1>3. \A c \in Commands : thread[<<c, "main">>].at = "off" /\ thread[<<c, "aside">>].at = "off"
  BY <1>2 DEF Threads
<1>4. Shape /\ Owners
  BY <1>1, <1>2 DEF Shape, Owners, Pid
<1>5. OneAtATime
  BY <1>3 DEF OneAtATime, Recording
<1>6. Wholes
  BY <1>1, <1>2 DEF Wholes, WholeArchives, Good
<1> QED BY <1>4, <1>5, <1>6 DEF IInv

-----------------------------------------------------------------------------
(* One command's step and the others.                                      *)

\* Two threads of a command do not both have temporary files.
LEMMA Alone ==
  ASSUME OneAtATime, NEW c \in Commands, thread[<<c, "main">>].at \in Recording,
         thread[<<c, "aside">>].at \in Recording
  PROVE  FALSE
BY DEF OneAtATime, Recording

LEMMA NothingToRename ==
  ASSUME NEW t \in Threads, thread'[t].at \notin {"ended", "made"}
  PROVE  Good(t)'
BY DEF Good

LEMMA StaysGood ==
  ASSUME NEW t \in Threads, Good(t), thread'[t] = thread[t], UNCHANGED <<command, temps>>
  PROVE  Good(t)'
BY DEF Good, Dump, Cache, TempName

\* What command c does to files named after it the others do not see.
LEMMA OthersGood ==
  ASSUME Owners, Wholes, NEW c \in Commands, Pid(c) # 0,
         \A d \in Commands \ {c} : command'[d] = command[d],
         \A t \in Threads : t[1] # c => thread'[t] = thread[t],
         \A n \in DOMAIN temps' : n[2] # Pid(c) => n \in DOMAIN temps /\ temps'[n] = temps[n]
  PROVE  \A t \in Threads : t[1] # c => Good(t)'
<1> SUFFICES ASSUME NEW t \in Threads, t[1] # c PROVE Good(t)'
  OBVIOUS
<1>1. t[1] \in Commands \ {c} /\ thread'[t] = thread[t] /\ command'[t[1]] = command[t[1]]
  BY DEF Threads
<1>2. CASE thread[t].at = "off"
  BY <1>1, <1>2 DEF Good
<1>3. CASE thread[t].at # "off"
  <2>1. Pid(t[1]) # Pid(c)
    BY <1>1, <1>3 DEF Owners
  <2>2. /\ Dump(t)' = Dump(t) /\ Dump(t)[2] # Pid(c)
        /\ Cache(t)' = Cache(t) /\ Cache(t)[2] # Pid(c)
    BY <1>1, <2>1 DEF Dump, Cache, TempName, Pid
  <2>3. Good(t)
    BY DEF Wholes
  <2> QED BY <1>1, <2>2, <2>3 DEF Good
<1> QED BY <1>2, <1>3

\* A step that leaves the files, or makes or writes one of command c.
LEMMA TempsOf ==
  ASSUME NEW c \in Commands, NEW n, n[2] = Pid(c),
         \/ UNCHANGED temps \/ Temporary(n) \/ (\E how : temps' = Put(n, how))
         \/ (\E gone : temps' = Drop(gone))
  PROVE  \A m \in DOMAIN temps' : m[2] # Pid(c) => m \in DOMAIN temps /\ temps'[m] = temps[m]
<1>1. CASE UNCHANGED temps
  BY <1>1
<1>2. CASE Temporary(n)
  <2>1. PICK old : temps' = [m \in (DOMAIN temps \ old) \cup {n} |-> IF m = n THEN "empty" ELSE temps[m]]
    BY <1>2 DEF Temporary
  <2> QED BY <2>1
<1>3. CASE \E how : temps' = Put(n, how)
  BY <1>3 DEF Put
<1>4. CASE \E gone : temps' = Drop(gone)
  BY <1>4 DEF Drop
<1> QED BY <1>1, <1>2, <1>3, <1>4

\* A step of command c, but for what is its own.
LEMMA StepOfOne ==
  ASSUME IInv, NEW c \in Commands, Pid(c) # 0,
         DOMAIN archives' = Archives, DOMAIN command' = Commands, DOMAIN thread' = Threads,
         DOMAIN command'[c] = {"pid", "kind", "claimed"}, command'[c].pid = command[c].pid,
         \A d \in Commands \ {c} : command'[d] = command[d],
         \A t \in Threads : t[1] # c => thread'[t] = thread[t],
         \A n \in DOMAIN temps' : n[2] # Pid(c) => n \in DOMAIN temps /\ temps'[n] = temps[n],
         \A t \in Threads : t[1] = c => /\ DOMAIN thread'[t] = {"at", "archive", "ok", "old"}
                                        /\ Good(t)',
         OneAtATime', WholeArchives'
  PROVE  IInv'
<1>1. \A t \in Threads : t[1] # c => Good(t)'
  BY OthersGood DEF IInv
<1>2. Wholes'
  BY <1>1 DEF Wholes
<1>3. Shape'
  BY DEF IInv, Shape
<1>4. Owners'
  <2>1. \A d \in Commands : command'[d].pid = command[d].pid
    OBVIOUS
  <2>2. \A t \in Threads : t[1] \in Commands /\ (t[1] # c => thread'[t] = thread[t])
    BY DEF Threads
  <2>3. \A t \in Threads : thread'[t].at # "off" => command'[t[1]].pid # 0
    BY <2>1, <2>2 DEF IInv, Owners, Pid
  <2> QED BY <2>1, <2>3 DEF IInv, Owners, Pid
<1> QED BY <1>2, <1>3, <1>4 DEF IInv

\* A thread goes on from where it has, or had, files; it begins no new one.
LEMMA OneStays ==
  ASSUME OneAtATime, NEW t \in Threads, \A u \in Threads \ {t} : thread'[u] = thread[u],
         thread[t].at \notin {"off", "done"}, thread'[t].at \notin {"off", "tests"},
         thread'[t].at \in Recording => thread[t].at \in Recording,
         UNCHANGED command
  PROVE  OneAtATime'
<1> SUFFICES ASSUME NEW c \in Commands
             PROVE  /\ thread'[<<c, "main">>].at \in Recording \cup {"tests"}
                         => thread'[<<c, "aside">>].at = "off"
                    /\ thread'[<<c, "aside">>].at # "off"
                         => command'[c].claimed \/ thread'[<<c, "main">>].at = "done"
  BY DEF OneAtATime
<1>1. <<c, "main">> \in Threads /\ <<c, "aside">> \in Threads /\ <<c, "main">> # <<c, "aside">>
  BY DEF Threads
<1>2. /\ thread[<<c, "main">>].at \in Recording \cup {"tests"} => thread[<<c, "aside">>].at = "off"
      /\ thread[<<c, "aside">>].at # "off" => command[c].claimed \/ thread[<<c, "main">>].at = "done"
  BY DEF OneAtATime
<1>3. CASE t = <<c, "main">>
  BY <1>1, <1>2, <1>3
<1>4. CASE t = <<c, "aside">>
  BY <1>1, <1>2, <1>4
<1>5. CASE t \notin {<<c, "main">>, <<c, "aside">>}
  BY <1>1, <1>2, <1>5
<1> QED BY <1>3, <1>4, <1>5

\* A thread that goes on, with its files or past them.
LEMMA RunsOn ==
  ASSUME IInv, NEW t \in Threads, DOMAIN archives' = Archives, WholeArchives',
         DOMAIN thread' = Threads, \A u \in Threads \ {t} : thread'[u] = thread[u],
         DOMAIN thread'[t] = {"at", "archive", "ok", "old"},
         thread[t].at \notin {"off", "done"}, thread'[t].at \notin {"off", "tests"},
         thread'[t].at \in Recording => thread[t].at \in Recording,
         UNCHANGED command, Good(t)',
         \/ UNCHANGED temps
         \/ /\ thread[t].at \in Recording
            /\ \A n \in DOMAIN temps' :
                 n[2] # Pid(t[1]) => n \in DOMAIN temps /\ temps'[n] = temps[n]
  PROVE  IInv'
<1>1. t[1] \in Commands /\ Pid(t[1]) # 0
  BY DEF IInv, Owners, Threads
<1>2. OneAtATime'
  BY OneStays DEF IInv
<1>3. ASSUME NEW u \in Threads, u[1] = t[1], u # t PROVE Good(u)'
  <2>1. thread'[u] = thread[u]
    BY <1>3
  <2>2. CASE UNCHANGED temps
    <3>1. Good(u)
      BY DEF IInv, Wholes
    <3> QED BY <2>1, <2>2, <3>1 DEF Good, Dump, Cache, TempName
  <2>3. CASE thread[t].at \in Recording
    <3>1. \/ t = <<t[1], "main">> /\ u = <<t[1], "aside">>
          \/ t = <<t[1], "aside">> /\ u = <<t[1], "main">>
      BY <1>3 DEF Threads
    <3>2. thread[u].at \notin Recording
      BY <1>1, <2>3, <3>1, Alone DEF IInv
    <3>3. thread'[u].at \notin {"ended", "made"}
      BY <2>1, <3>2 DEF Recording
    <3> QED BY <3>3 DEF Good
  <2> QED BY <2>2, <2>3
<1>4. \A u \in Threads : u[1] = t[1] => /\ DOMAIN thread'[u] = {"at", "archive", "ok", "old"}
                                        /\ Good(u)'
  BY <1>3 DEF IInv, Shape
<1>5. /\ \A u \in Threads : u[1] # t[1] => thread'[u] = thread[u]
      /\ \A n \in DOMAIN temps' : n[2] # Pid(t[1]) => n \in DOMAIN temps /\ temps'[n] = temps[n]
      /\ DOMAIN command' = Commands /\ DOMAIN command'[t[1]] = {"pid", "kind", "claimed"}
  BY <1>1 DEF IInv, Shape
<1> QED BY <1>1, <1>2, <1>4, <1>5, StepOfOne

-----------------------------------------------------------------------------
(* The run that records.                                                   *)

LEMMA RecorderRuns == ASSUME IInv, NEW t \in Threads, Exit(t) \/ Ended(t) PROVE IInv'
<1>1. /\ DOMAIN thread = Threads /\ DOMAIN thread[t] = {"at", "archive", "ok", "old"}
      /\ thread[t].at \in {"jvm", "exit"} /\ UNCHANGED <<command, archives>>
  BY DEF IInv, Shape, Exit, Ended
<1>2. \/ /\ thread' = [thread EXCEPT ![t].at = "exit"] /\ temps' = Put(Dump(t), "torn")
      \/ /\ thread' = [thread EXCEPT ![t].at = "ended", ![t].ok = FALSE] /\ UNCHANGED temps
      \/ /\ thread' = [thread EXCEPT ![t].at = "ended", ![t].ok = TRUE]
         /\ temps' = Put(Dump(t), "whole")
      \/ /\ thread' = [thread EXCEPT ![t].at = "ended", ![t].ok = thread[t].archive.of # Javac]
         /\ UNCHANGED temps \/ temps' = Put(Dump(t), "whole")
  BY DEF Exit, Ended, Goes
<1>3. /\ DOMAIN thread' = Threads /\ \A u \in Threads \ {t} : thread'[u] = thread[u]
      /\ DOMAIN thread'[t] = {"at", "archive", "ok", "old"} /\ thread'[t].at \in {"exit", "ended"}
      /\ thread'[t].archive = thread[t].archive
  BY <1>1, <1>2
<1>4. Good(t)'
  <2>1. Dump(t)' = Dump(t)
    BY <1>1, <1>3 DEF Dump, TempName
  <2>2. CASE temps' = Put(Dump(t), "whole")
    <3>1. temps'[Dump(t)] = "whole"
      BY <2>2 DEF Put
    <3> QED BY <1>3, <2>1, <3>1 DEF Good
  <2>3. CASE ~(thread'[t].at = "ended" /\ thread'[t].ok /\ thread'[t].archive.of = Javac)
    BY <1>3, <2>3 DEF Good
  <2> QED BY <1>1, <1>2, <2>2, <2>3
<1>5. t[1] \in Commands /\ Dump(t)[2] = Pid(t[1])
  BY DEF Threads, Dump, TempName, Pid
<1>6. \A n \in DOMAIN temps' : n[2] # Pid(t[1]) => n \in DOMAIN temps /\ temps'[n] = temps[n]
  BY <1>2, <1>5, TempsOf
<1>7. DOMAIN archives' = Archives /\ WholeArchives'
  BY <1>1 DEF IInv, Shape, Wholes, WholeArchives
<1> QED BY <1>1, <1>3, <1>4, <1>6, <1>7, RunsOn DEF Recording

LEMMA AssemblerRuns == ASSUME IInv, NEW t \in Threads, Assemble(t) \/ Created(t) PROVE IInv'
<1>1. /\ DOMAIN thread = Threads /\ DOMAIN thread[t] = {"at", "archive", "ok", "old"}
      /\ thread[t].at \in {"assemble", "create"} /\ UNCHANGED <<command, archives>>
  BY DEF IInv, Shape, Assemble, Created
<1>2. \/ thread' = [thread EXCEPT ![t].at = "create"] /\ Temporary(Cache(t))
      \/ thread' = [thread EXCEPT ![t].at = "done"] /\ UNCHANGED temps
      \/ /\ thread' = [thread EXCEPT ![t].at = "made", ![t].ok = TRUE]
         /\ temps' = Put(Cache(t), "whole")
      \/ /\ thread' = [thread EXCEPT ![t].at = "made", ![t].ok = FALSE]
         /\ temps' = Put(Cache(t), "torn")
  BY DEF Assemble, Created, Goes
<1>3. /\ DOMAIN thread' = Threads /\ \A u \in Threads \ {t} : thread'[u] = thread[u]
      /\ DOMAIN thread'[t] = {"at", "archive", "ok", "old"}
      /\ thread'[t].at \in {"create", "done", "made"}
      /\ thread'[t].archive = thread[t].archive
  BY <1>1, <1>2
<1>4. Good(t)'
  <2>1. Cache(t)' = Cache(t)
    BY <1>1, <1>3 DEF Cache, TempName
  <2>2. CASE temps' = Put(Cache(t), "whole")
    <3>1. temps'[Cache(t)] = "whole"
      BY <2>2 DEF Put
    <3> QED BY <1>3, <2>1, <3>1 DEF Good
  <2>3. CASE ~(thread'[t].at = "made" /\ thread'[t].ok)
    BY <1>3, <2>3 DEF Good
  <2> QED BY <1>1, <1>2, <2>2, <2>3
<1>5. t[1] \in Commands /\ Cache(t)[2] = Pid(t[1])
  BY DEF Threads, Cache, TempName, Pid
<1>6. \A n \in DOMAIN temps' : n[2] # Pid(t[1]) => n \in DOMAIN temps /\ temps'[n] = temps[n]
  BY <1>2, <1>5, TempsOf
<1>7. DOMAIN archives' = Archives /\ WholeArchives'
  BY <1>1 DEF IInv, Shape, Wholes, WholeArchives
<1> QED BY <1>1, <1>3, <1>4, <1>6, <1>7, RunsOn DEF Recording

LEMMA RecorderMade == ASSUME IInv, NEW t \in Threads, Made(t) PROVE IInv'
<1>1. /\ DOMAIN thread = Threads /\ DOMAIN thread[t] = {"at", "archive", "ok", "old"}
      /\ DOMAIN archives = Archives /\ thread[t].at = "made" /\ UNCHANGED command
      /\ temps' = Drop({Dump(t), Cache(t)}) /\ Good(t) /\ WholeArchives
  BY DEF IInv, Shape, Wholes, Made
<1>2. \/ /\ thread' = [thread EXCEPT ![t].at = "placed"]
         /\ archives' = [archives EXCEPT ![thread[t].archive] = temps[Cache(t)]]
         /\ thread[t].ok /\ Cache(t) \in DOMAIN temps
      \/ thread' = [thread EXCEPT ![t].at = "done"] /\ UNCHANGED archives
  BY DEF Made, Goes
<1>3. /\ DOMAIN thread' = Threads /\ \A u \in Threads \ {t} : thread'[u] = thread[u]
      /\ DOMAIN thread'[t] = {"at", "archive", "ok", "old"}
      /\ thread'[t].at \in {"placed", "done"}
  BY <1>1, <1>2
<1>4. DOMAIN archives' = Archives /\ WholeArchives'
  <2>1. thread[t].ok /\ Cache(t) \in DOMAIN temps => temps[Cache(t)] = "whole"
    BY <1>1 DEF Good
  <2> QED BY <1>1, <1>2, <2>1 DEF WholeArchives
<1>5. t[1] \in Commands /\ Dump(t)[2] = Pid(t[1])
  BY DEF Threads, Dump, TempName, Pid
<1>6. \A n \in DOMAIN temps' : n[2] # Pid(t[1]) => n \in DOMAIN temps /\ temps'[n] = temps[n]
  BY <1>1, <1>5, TempsOf
<1>7. Good(t)'
  BY <1>3 DEF Good
<1> QED BY <1>1, <1>3, <1>4, <1>6, <1>7, RunsOn DEF Recording

LEMMA RecorderSettles == ASSUME IInv, NEW t \in Threads, Settle(t) PROVE IInv'
<1>1. /\ DOMAIN thread = Threads /\ DOMAIN thread[t] = {"at", "archive", "ok", "old"}
      /\ DOMAIN archives = Archives /\ thread[t].at = "ended" /\ UNCHANGED command
      /\ Good(t) /\ WholeArchives
  BY DEF IInv, Shape, Wholes, Settle
<1>2. CASE /\ thread' = [thread EXCEPT ![t].at = "done"] /\ temps' = Drop({Dump(t)})
           /\ UNCHANGED archives
        \/ /\ thread' = [thread EXCEPT ![t].at = "placed"] /\ temps' = Drop({Dump(t)})
           /\ archives' = [archives EXCEPT ![thread[t].archive] = temps[Dump(t)]]
           /\ Keeps(t) /\ thread[t].archive.kind = "jsa"
  <2>1. /\ DOMAIN thread' = Threads /\ \A u \in Threads \ {t} : thread'[u] = thread[u]
        /\ DOMAIN thread'[t] = {"at", "archive", "ok", "old"}
        /\ thread'[t].at \in {"placed", "done"}
    BY <1>1, <1>2
  <2>2. DOMAIN archives' = Archives /\ WholeArchives'
    <3>1. Keeps(t) /\ thread[t].archive.of = Javac => temps[Dump(t)] = "whole"
      BY <1>1 DEF Good, Keeps, Written
    <3> QED BY <1>1, <1>2, <3>1 DEF WholeArchives
  <2>3. t[1] \in Commands /\ Dump(t)[2] = Pid(t[1])
    BY DEF Threads, Dump, TempName, Pid
  <2>4. \A n \in DOMAIN temps' : n[2] # Pid(t[1]) => n \in DOMAIN temps /\ temps'[n] = temps[n]
    BY <1>2, <2>3, TempsOf
  <2>5. Good(t)'
    BY <2>1 DEF Good
  <2> QED BY <1>1, <2>1, <2>2, <2>4, <2>5, RunsOn DEF Recording
<1>3. CASE /\ thread' = [thread EXCEPT ![t] = [Off EXCEPT !.at = "done"],
                                      ![<<t[1], "aside">>] = [thread[t] EXCEPT !.at = "assemble"]]
           /\ UNCHANGED <<archives, temps>>
  <2> DEFINE c == t[1]
  <2>1. /\ c \in Commands /\ <<c, "main">> \in Threads /\ <<c, "aside">> \in Threads
        /\ <<c, "main">> # <<c, "aside">>
        /\ t = <<c, "main">> \/ t = <<c, "aside">>
        /\ \A u \in Threads : u[1] = c => u \in {<<c, "main">>, <<c, "aside">>}
    BY DEF Threads
  <2>2. /\ DOMAIN [Off EXCEPT !.at = "done"] = {"at", "archive", "ok", "old"}
        /\ [Off EXCEPT !.at = "done"].at = "done"
        /\ DOMAIN [thread[t] EXCEPT !.at = "assemble"] = {"at", "archive", "ok", "old"}
        /\ [thread[t] EXCEPT !.at = "assemble"].at = "assemble"
    BY <1>1 DEF Off
  <2>3. /\ DOMAIN thread' = Threads
        /\ \A u \in Threads \ {t, <<c, "aside">>} : thread'[u] = thread[u]
        /\ thread'[<<c, "aside">>].at = "assemble"
        /\ DOMAIN thread'[<<c, "aside">>] = {"at", "archive", "ok", "old"}
        /\ t = <<c, "main">> => /\ thread'[t].at = "done"
                               /\ DOMAIN thread'[t] = {"at", "archive", "ok", "old"}
    BY <1>1, <1>3, <2>1, <2>2
  <2>4. /\ thread'[<<c, "main">>].at \notin Recording \cup {"tests"}
        /\ DOMAIN thread'[<<c, "main">>] = {"at", "archive", "ok", "old"}
        /\ command'[c].claimed \/ thread'[<<c, "main">>].at = "done"
    <3>1. CASE t = <<c, "main">>
      BY <2>3, <3>1 DEF Recording
    <3>2. CASE t = <<c, "aside">>
      <4>1. thread'[<<c, "main">>] = thread[<<c, "main">>]
        BY <2>1, <2>3, <3>2
      <4>2. /\ thread[<<c, "main">>].at \notin Recording \cup {"tests"}
            /\ command[c].claimed \/ thread[<<c, "main">>].at = "done"
        BY <1>1, <2>1, <3>2 DEF IInv, OneAtATime
      <4> QED BY <1>1, <2>1, <4>1, <4>2 DEF IInv, Shape
    <3> QED BY <2>1, <3>1, <3>2
  <2>5. OneAtATime'
    <3>1. \A d \in Commands \ {c} : /\ thread'[<<d, "main">>] = thread[<<d, "main">>]
                                     /\ thread'[<<d, "aside">>] = thread[<<d, "aside">>]
      BY <2>1, <2>3 DEF Threads
    <3>2. \A d \in Commands \ {c} :
            /\ thread'[<<d, "main">>].at \in Recording \cup {"tests"}
                 => thread'[<<d, "aside">>].at = "off"
            /\ thread'[<<d, "aside">>].at # "off"
                 => command'[d].claimed \/ thread'[<<d, "main">>].at = "done"
      BY <1>1, <3>1 DEF IInv, OneAtATime
    <3>3. /\ thread'[<<c, "main">>].at \in Recording \cup {"tests"}
                 => thread'[<<c, "aside">>].at = "off"
          /\ thread'[<<c, "aside">>].at # "off"
                 => command'[c].claimed \/ thread'[<<c, "main">>].at = "done"
      BY <2>4
    <3> QED BY <3>2, <3>3 DEF OneAtATime
  <2>6. \A u \in Threads : u[1] = c => /\ DOMAIN thread'[u] = {"at", "archive", "ok", "old"}
                                       /\ Good(u)'
    <3>1. Good(<<c, "main">>)' /\ Good(<<c, "aside">>)'
      BY <2>3, <2>4 DEF Good, Recording
    <3> QED BY <2>1, <2>3, <2>4, <3>1
  <2>7. WholeArchives' /\ Pid(c) # 0
    BY <1>1, <1>3 DEF WholeArchives, IInv, Owners
  <2>8. \A u \in Threads : u[1] # c => thread'[u] = thread[u]
    BY <2>1, <2>3
  <2> HIDE DEF c
  <2> QED BY <1>1, <1>3, <2>1, <2>3, <2>5, <2>6, <2>7, <2>8, StepOfOne DEF IInv, Shape
<1> QED BY <1>2, <1>3 DEF Settle, Goes

LEMMA RecorderDone == ASSUME IInv, NEW t \in Threads, Placed(t) \/ Remove(t) PROVE IInv'
<1>1. /\ DOMAIN thread = Threads /\ DOMAIN thread[t] = {"at", "archive", "ok", "old"}
      /\ DOMAIN archives = Archives /\ thread[t].at \in {"placed", "remove"}
      /\ WholeArchives /\ UNCHANGED <<command, temps>>
  BY DEF IInv, Shape, Wholes, Placed, Remove
<1>2. \E old : \/ thread' = [thread EXCEPT ![t].at = "done"]
              \/ thread' = [thread EXCEPT ![t].at = "remove", ![t].old = old]
              \/ thread' = [thread EXCEPT ![t].old = old]
  BY DEF Placed, Remove, Goes
<1>3. /\ DOMAIN thread' = Threads /\ \A u \in Threads \ {t} : thread'[u] = thread[u]
      /\ DOMAIN thread'[t] = {"at", "archive", "ok", "old"}
      /\ thread'[t].at \in {"placed", "remove", "done"}
  BY <1>1, <1>2
<1>4. UNCHANGED archives \/ \E b : archives' = [archives EXCEPT ![b] = "none"]
  BY DEF Placed, Remove
<1>5. DOMAIN archives' = Archives /\ WholeArchives'
  BY <1>1, <1>4 DEF WholeArchives
<1>6. Good(t)'
  BY <1>3 DEF Good
<1> QED BY <1>1, <1>3, <1>5, <1>6, RunsOn DEF Recording

-----------------------------------------------------------------------------
(* The commands.                                                           *)

\* What looking for javac's archive comes to.
LEMMA Looks ==
  ASSUME IInv, NEW c \in Commands, LookFor(c) \/ Mark(c)
  PROVE  /\ thread[<<c, "main">>].at \in {"train", "look", "markTrain", "markLook"}
         /\ UNCHANGED archives
         /\ \/ /\ \E at \in {"look", "done", "markTrain", "markLook"} :
                    thread' = [thread EXCEPT ![<<c, "main">>].at = at]
               /\ UNCHANGED <<command, temps>>
            \/ /\ \E at \in {"look", "done"} :
                    thread' = [thread EXCEPT ![<<c, "main">>].at = at, ![<<c, "aside">>].at = "jvm",
                                             ![<<c, "aside">>].archive = JavacArchive]
               /\ Record(c) /\ ~command[c].claimed
            \/ /\ thread' = [thread EXCEPT ![<<c, "main">>].at = "jvm",
                                           ![<<c, "main">>].archive = JavacArchive]
               /\ Record(c) /\ ~command[c].claimed
<1>1. AfterTraining(c) \in {"look", "done"}
  BY DEF AfterTraining
<1>2. /\ thread[<<c, "main">>].at \in {"train", "look", "markTrain", "markLook"}
      /\ UNCHANGED archives
  BY DEF LookFor, Mark
<1>3. \/ /\ \E at \in {"look", "done", "markTrain", "markLook"} : Goes(<<c, "main">>, at)
         /\ UNCHANGED <<command, temps>>
      \/ \E looked : Train(c, looked) \/ ForJavac(c, looked)
  <2>1. CASE LookFor(c)
    BY <1>1, <2>1 DEF LookFor
  <2>2. CASE Mark(c)
    BY <2>2 DEF Mark
  <2> QED BY <2>1, <2>2
<1>4. ASSUME NEW looked, Train(c, looked)
      PROVE  \/ Goes(<<c, "main">>, AfterTraining(c)) /\ UNCHANGED <<command, temps>>
             \/ /\ thread' = [thread EXCEPT ![<<c, "main">>].at = AfterTraining(c),
                                           ![<<c, "aside">>].at = "jvm",
                                           ![<<c, "aside">>].archive = JavacArchive]
                /\ Record(c) /\ ~command[c].claimed
  BY <1>4 DEF Train, MayTrain
<1>5. ASSUME NEW looked, ForJavac(c, looked)
      PROVE  \/ Goes(<<c, "main">>, "done") /\ UNCHANGED <<command, temps>>
             \/ /\ thread' = [thread EXCEPT ![<<c, "main">>].at = "jvm",
                                           ![<<c, "main">>].archive = JavacArchive]
                /\ Record(c) /\ ~command[c].claimed
  BY <1>5 DEF ForJavac, MayRecord
<1> QED BY <1>1, <1>2, <1>3, <1>4, <1>5 DEF Goes

LEMMA LookKeeps == ASSUME IInv, NEW c \in Commands, LookFor(c) \/ Mark(c) PROVE IInv'
<1> DEFINE m == <<c, "main">>
<1> DEFINE a == <<c, "aside">>
<1>1. /\ m \in Threads /\ a \in Threads /\ m # a /\ m[1] = c /\ a[1] = c
      /\ \A u \in Threads : u[1] = c => u \in {m, a}
  BY DEF Threads
<1>2. /\ DOMAIN thread = Threads /\ DOMAIN thread[m] = {"at", "archive", "ok", "old"}
      /\ DOMAIN thread[a] = {"at", "archive", "ok", "old"} /\ DOMAIN archives = Archives
      /\ DOMAIN command = Commands /\ DOMAIN command[c] = {"pid", "kind", "claimed"}
      /\ WholeArchives /\ Good(a)
  BY <1>1 DEF IInv, Shape, Wholes
<1>3. /\ thread[m].at \in {"train", "look", "markTrain", "markLook"} /\ UNCHANGED archives
  BY Looks
<1>4. Pid(c) # 0
  BY <1>1, <1>3 DEF IInv, Owners
<1>5. thread[a].at # "off" => command[c].claimed
  BY <1>3 DEF IInv, OneAtATime
<1>6. \/ /\ \E at \in {"look", "done", "markTrain", "markLook"} :
              thread' = [thread EXCEPT ![m].at = at]
         /\ UNCHANGED <<command, temps>>
      \/ /\ \E at \in {"look", "done"} :
              thread' = [thread EXCEPT ![m].at = at, ![a].at = "jvm", ![a].archive = JavacArchive]
         /\ Record(c) /\ ~command[c].claimed
      \/ /\ thread' = [thread EXCEPT ![m].at = "jvm", ![m].archive = JavacArchive]
         /\ Record(c) /\ ~command[c].claimed
  BY Looks
<1>7. /\ DOMAIN command' = Commands /\ DOMAIN command'[c] = {"pid", "kind", "claimed"}
      /\ command'[c].pid = command[c].pid /\ \A d \in Commands \ {c} : command'[d] = command[d]
      /\ command[c].claimed => command'[c].claimed
  BY <1>2, <1>6 DEF Record
<1>8. \A n \in DOMAIN temps' : n[2] # Pid(c) => n \in DOMAIN temps /\ temps'[n] = temps[n]
  <2> DEFINE n == TempName(c, JavacArchive, "dump")
  <2>1. n[2] = Pid(c) /\ (UNCHANGED temps \/ Temporary(n))
    BY <1>6 DEF TempName, Pid, Record
  <2> HIDE DEF n
  <2> QED BY <2>1, TempsOf
<1>9. /\ DOMAIN thread' = Threads /\ \A u \in Threads : u[1] # c => thread'[u] = thread[u]
      /\ DOMAIN thread'[m] = {"at", "archive", "ok", "old"}
      /\ DOMAIN thread'[a] = {"at", "archive", "ok", "old"}
  BY <1>1, <1>2, <1>6
<1>10. \/ /\ thread'[m].at \notin Recording \cup {"tests"} /\ thread'[a] = thread[a]
          /\ UNCHANGED <<command, temps>>
       \/ /\ thread'[m].at \notin Recording \cup {"tests"} /\ thread'[a].at = "jvm"
          /\ command'[c].claimed
       \/ thread'[m].at = "jvm" /\ thread'[a].at = "off"
  <2>1. Record(c) => command'[c].claimed
    BY <1>2 DEF Record
  <2> QED BY <1>1, <1>2, <1>5, <1>6, <2>1 DEF Recording
<1>11. Good(m)' /\ Good(a)'
  <2>1. Good(m)'
    BY <1>10 DEF Good, Recording
  <2>2. CASE thread'[a] = thread[a] /\ UNCHANGED <<command, temps>>
    BY <1>1, <1>2, <2>1, <2>2, StaysGood
  <2>3. CASE thread'[a].at \in {"jvm", "off"}
    BY <1>1, <2>1, <2>3, NothingToRename
  <2> QED BY <1>10, <2>1, <2>2, <2>3
<1>12. OneAtATime'
  <2>1. /\ thread'[m].at \in Recording \cup {"tests"} => thread'[a].at = "off"
        /\ thread'[a].at # "off" => command'[c].claimed \/ thread'[m].at = "done"
    BY <1>5, <1>7, <1>10
  <2>2. \A d \in Commands \ {c} : /\ thread'[<<d, "main">>] = thread[<<d, "main">>]
                                   /\ thread'[<<d, "aside">>] = thread[<<d, "aside">>]
    BY <1>9 DEF Threads
  <2>3. \A d \in Commands \ {c} :
          /\ thread'[<<d, "main">>].at \in Recording \cup {"tests"}
               => thread'[<<d, "aside">>].at = "off"
          /\ thread'[<<d, "aside">>].at # "off"
               => command'[d].claimed \/ thread'[<<d, "main">>].at = "done"
    BY <1>7, <2>2 DEF IInv, OneAtATime
  <2> QED BY <2>1, <2>3 DEF OneAtATime
<1>13. \A u \in Threads : u[1] = c => /\ DOMAIN thread'[u] = {"at", "archive", "ok", "old"}
                                      /\ Good(u)'
  BY <1>1, <1>9, <1>11
<1>14. WholeArchives' /\ DOMAIN archives' = Archives
  BY <1>2, <1>3 DEF WholeArchives
<1> HIDE DEF m, a
<1> QED BY <1>4, <1>7, <1>8, <1>9, <1>12, <1>13, <1>14, StepOfOne

LEMMA TestsKeep == ASSUME IInv, NEW c \in Commands, ForTests(c) PROVE IInv'
<1> DEFINE m == <<c, "main">>
<1> DEFINE a == <<c, "aside">>
<1>1. /\ m \in Threads /\ a \in Threads /\ m # a /\ m[1] = c /\ a[1] = c
      /\ \A u \in Threads : u[1] = c => u \in {m, a}
  BY DEF Threads
<1>2. /\ DOMAIN thread = Threads /\ DOMAIN thread[m] = {"at", "archive", "ok", "old"}
      /\ DOMAIN thread[a] = {"at", "archive", "ok", "old"} /\ DOMAIN archives = Archives
      /\ DOMAIN command = Commands /\ DOMAIN command[c] = {"pid", "kind", "claimed"}
      /\ WholeArchives
  BY <1>1 DEF IInv, Shape, Wholes
<1>3. thread[m].at = "tests" /\ thread[a].at = "off" /\ UNCHANGED <<command, archives>>
  BY DEF ForTests, IInv, OneAtATime
<1>4. Pid(c) # 0
  BY <1>1, <1>3 DEF IInv, Owners
<1>5. \/ thread' = [thread EXCEPT ![m].at = "done"] /\ UNCHANGED temps
      \/ /\ thread' = [thread EXCEPT ![m].at = "jvm", ![m].archive = TestsArchive]
         /\ Temporary(TempName(c, TestsArchive, "dump"))
  BY DEF ForTests, Goes
<1>6. \A n \in DOMAIN temps' : n[2] # Pid(c) => n \in DOMAIN temps /\ temps'[n] = temps[n]
  <2> DEFINE n == TempName(c, TestsArchive, "dump")
  <2>1. n[2] = Pid(c) /\ (UNCHANGED temps \/ Temporary(n))
    BY <1>5 DEF TempName, Pid
  <2> HIDE DEF n
  <2> QED BY <2>1, TempsOf
<1>7. /\ DOMAIN thread' = Threads /\ \A u \in Threads : u # m => thread'[u] = thread[u]
      /\ DOMAIN thread'[m] = {"at", "archive", "ok", "old"} /\ thread'[m].at \in {"done", "jvm"}
  BY <1>1, <1>2, <1>5
<1>8. Good(m)' /\ Good(a)'
  BY <1>1, <1>3, <1>7, NothingToRename
<1>9. OneAtATime'
  <2>1. thread'[a].at = "off"
    BY <1>1, <1>3, <1>7
  <2>2. \A d \in Commands \ {c} : /\ thread'[<<d, "main">>] = thread[<<d, "main">>]
                                   /\ thread'[<<d, "aside">>] = thread[<<d, "aside">>]
    BY <1>7 DEF Threads
  <2>3. \A d \in Commands \ {c} :
          /\ thread'[<<d, "main">>].at \in Recording \cup {"tests"}
               => thread'[<<d, "aside">>].at = "off"
          /\ thread'[<<d, "aside">>].at # "off"
               => command'[d].claimed \/ thread'[<<d, "main">>].at = "done"
    BY <1>3, <2>2 DEF IInv, OneAtATime
  <2> QED BY <2>1, <2>3 DEF OneAtATime
<1>10. /\ \A u \in Threads : u[1] = c => /\ DOMAIN thread'[u] = {"at", "archive", "ok", "old"}
                                         /\ Good(u)'
       /\ \A u \in Threads : u[1] # c => thread'[u] = thread[u]
  BY <1>1, <1>2, <1>7, <1>8
<1>11. WholeArchives' /\ DOMAIN archives' = Archives
  BY <1>2, <1>3 DEF WholeArchives
<1> HIDE DEF m, a
<1> QED BY <1>2, <1>3, <1>4, <1>6, <1>7, <1>9, <1>10, <1>11, StepOfOne

\* A command begins, with an id no other has; and is over, killed or not.
LEMMA ComesAndGoes ==
  ASSUME IInv, NEW c \in Commands, Begin(c) \/ Join(c) \/ Kill(c) PROVE IInv'
<1> DEFINE m == <<c, "main">>
<1> DEFINE a == <<c, "aside">>
<1>1. /\ m \in Threads /\ a \in Threads /\ m # a /\ m[1] = c /\ a[1] = c
      /\ \A u \in Threads : u[1] = c => u \in {m, a}
      /\ \A u \in Threads : u[1] \in Commands
  BY DEF Threads
<1>2. /\ DOMAIN thread = Threads /\ DOMAIN command = Commands
      /\ \A u \in Threads : DOMAIN thread[u] = {"at", "archive", "ok", "old"}
      /\ \A d \in Commands : DOMAIN command[d] = {"pid", "kind", "claimed"}
  BY DEF IInv, Shape
<1>3. UNCHANGED <<archives, temps>>
  BY DEF Begin, Join, Kill
<1>4. /\ DOMAIN thread' = Threads
      /\ \A u \in Threads : u[1] # c => thread'[u] = thread[u]
      /\ \A u \in Threads : DOMAIN thread'[u] = {"at", "archive", "ok", "old"}
      /\ thread'[a].at = "off" /\ thread'[m].at \in {"off", "tests", "train"}
  <2>1. CASE Begin(c)
    <3>1. /\ thread[a].at = "off"
          /\ \E at \in {"tests", "train"} : thread' = [thread EXCEPT ![m].at = at]
      BY <2>1 DEF Begin, Goes
    <3> QED BY <1>1, <1>2, <3>1
  <2>2. CASE Join(c) \/ Kill(c)
    <3>1. thread' = [t \in Threads |-> IF t[1] = c THEN Off ELSE thread[t]]
      BY <2>2 DEF Join, Kill, Over
    <3>2. DOMAIN Off = {"at", "archive", "ok", "old"} /\ Off.at = "off"
      BY DEF Off
    <3> QED BY <1>1, <1>2, <3>1, <3>2
  <2> QED BY <2>1, <2>2
<1>5. /\ DOMAIN command' = Commands
      /\ \A d \in Commands \ {c} : command'[d] = command[d]
      /\ DOMAIN command'[c] = {"pid", "kind", "claimed"}
      /\ \/ command'[c].pid = 0 /\ thread'[m].at = "off"
         \/ command'[c].pid # 0 /\ \A d \in Commands \ {c} : command[d].pid # command'[c].pid
  <2>1. CASE Begin(c)
    <3> DEFINE free == Pids \ ({seen} \cup {command[d].pid : d \in Commands})
    <3>1. \E kind \in trial.kinds, p \in free :
            command' = [command EXCEPT ![c] = [pid |-> p, kind |-> kind, claimed |-> FALSE]]
      BY <2>1, Zenon DEF Begin
    <3>2. PICK kind \in trial.kinds, p \in free :
            command' = [command EXCEPT ![c] = [pid |-> p, kind |-> kind, claimed |-> FALSE]]
      BY <3>1
    <3>3. p # 0 /\ \A d \in Commands : command[d].pid # p
      BY ArchivesAssumption
    <3> QED BY <1>2, <3>2, <3>3
  <2>2. CASE Join(c) \/ Kill(c)
    <3>1. /\ command' = [command EXCEPT ![c] = [pid |-> 0, kind |-> "edit", claimed |-> FALSE]]
          /\ thread' = [t \in Threads |-> IF t[1] = c THEN Off ELSE thread[t]]
      BY <2>2 DEF Join, Kill, Over, None
    <3>2. thread'[m].at = "off"
      BY <1>1, <3>1 DEF Off
    <3> QED BY <1>2, <3>1, <3>2
  <2> QED BY <2>1, <2>2
<1>6. Shape'
  BY <1>2, <1>3, <1>4, <1>5 DEF IInv, Shape
<1>7. Owners'
  <2>1. \A u \in Threads : u[1] # c => (thread'[u].at # "off" => command'[u[1]].pid # 0)
    BY <1>1, <1>4, <1>5 DEF IInv, Owners, Pid
  <2>2. \A u \in Threads : u[1] = c => (thread'[u].at # "off" => command'[u[1]].pid # 0)
    BY <1>1, <1>4, <1>5
  <2>3. \A d, e \in Commands : d # e => command'[d].pid # command'[e].pid \/ command'[d].pid = 0
    BY <1>5 DEF IInv, Owners, Pid
  <2> QED BY <2>1, <2>2, <2>3 DEF Owners, Pid
<1>8. OneAtATime'
  <2>1. \A d \in Commands \ {c} : /\ thread'[<<d, "main">>] = thread[<<d, "main">>]
                                   /\ thread'[<<d, "aside">>] = thread[<<d, "aside">>]
    BY <1>4 DEF Threads
  <2>2. \A d \in Commands \ {c} :
          /\ thread'[<<d, "main">>].at \in Recording \cup {"tests"}
               => thread'[<<d, "aside">>].at = "off"
          /\ thread'[<<d, "aside">>].at # "off"
               => command'[d].claimed \/ thread'[<<d, "main">>].at = "done"
    BY <1>5, <2>1 DEF IInv, OneAtATime
  <2> QED BY <1>4, <2>2 DEF OneAtATime
<1>9. Wholes'
  <2>1. ASSUME NEW u \in Threads, u[1] = c PROVE Good(u)'
    <3>1. thread'[u].at \notin {"ended", "made"}
      BY <1>1, <1>4, <2>1
    <3> QED BY <3>1, NothingToRename
  <2>2. ASSUME NEW u \in Threads, u[1] # c PROVE Good(u)'
    <3>1. thread'[u] = thread[u] /\ command'[u[1]] = command[u[1]] /\ Good(u)
      BY <1>1, <1>4, <1>5, <2>2 DEF IInv, Wholes
    <3> QED BY <1>3, <3>1 DEF Good, Dump, Cache, TempName
  <2>3. WholeArchives'
    BY <1>3 DEF IInv, Wholes, WholeArchives
  <2> QED BY <2>1, <2>2, <2>3 DEF Wholes
<1> QED BY <1>6, <1>7, <1>8, <1>9 DEF IInv

LEMMA Quiet == ASSUME IInv, Change \/ UNCHANGED vars PROVE IInv'
<1>1. UNCHANGED <<archives, temps, command, thread>>
  BY DEF Change, vars, markers
<1>2. Shape' /\ Owners' /\ OneAtATime'
  BY <1>1 DEF IInv, Shape, Owners, OneAtATime, Pid
<1>3. \A t \in Threads : Good(t)'
  BY <1>1, StaysGood DEF IInv, Wholes
<1>4. WholeArchives'
  BY <1>1 DEF IInv, Wholes, WholeArchives
<1> QED BY <1>2, <1>3, <1>4 DEF IInv, Wholes

-----------------------------------------------------------------------------
(* The theorem.                                                            *)

LEMMA StepIInv == IInv /\ [Next]_vars => IInv'
<1> SUFFICES ASSUME IInv, [Next]_vars PROVE IInv'
  OBVIOUS
<1>1. CASE Change \/ UNCHANGED vars
  BY <1>1, Quiet
<1>2. ASSUME NEW c \in Commands, Begin(c) \/ Join(c) \/ Kill(c) PROVE IInv'
  BY <1>2, ComesAndGoes
<1>3. ASSUME NEW c \in Commands, LookFor(c) \/ Mark(c) \/ ForTests(c) PROVE IInv'
  BY <1>3, LookKeeps, TestsKeep
<1>4. ASSUME NEW c \in Commands, NEW w \in {"main", "aside"}, Run(<<c, w>>) PROVE IInv'
  <2>1. <<c, w>> \in Threads
    BY DEF Threads
  <2> QED BY <1>4, <2>1, RecorderRuns, AssemblerRuns, RecorderMade, RecorderSettles,
             RecorderDone DEF Run
<1> QED BY <1>1, <1>2, <1>3, <1>4 DEF Next, Command

\* The invariant holds whatever commands do.
THEOREM InvIInv == Spec => []IInv
BY InitIInv, StepIInv, PTL DEF Spec

\* However many commands record, sweep, fail and are killed beside each
\* other, an archive that is in place was written to its end, but for the
\* dynamic archive of a test run whose JVM died behind its tests.
THEOREM ArchivesAreWhole == Spec => []WholeArchives
<1>1. IInv => WholeArchives
  BY DEF IInv, Wholes
<1> QED BY <1>1, InvIInv, PTL

-----------------------------------------------------------------------------
(* One archive per project.                                                *)

\* An archive of the tests that is in place.
Kept(a) == InPlace(a) /\ a.of \in Deps
Replacing(t) == thread[t].at = "placed" /\ thread[t].archive.of \in Deps
Removing(t, a) == thread[t].at = "remove" /\ a \in thread[t].old

\* Of two archives one is being removed, or who put one in place has yet to
\* look for others.
Replaces ==
  \/ cut \/ \E t \in Threads : Replacing(t)
  \/ \A a, b \in Archives : Kept(a) /\ Kept(b) /\ a # b =>
       \E t \in Threads : Removing(t, a) \/ Removing(t, b)

\* A step that puts nothing in place, and takes no thread from its removal.
LEMMA StillReplaces ==
  ASSUME Replaces, cut => cut',
         \A a \in Archives : Kept(a)' => Kept(a),
         cut' \/ \A t \in Threads : thread[t].at \in {"placed", "remove"} =>
                   \/ thread'[t] = thread[t]
                   \/ thread[t].at = "placed" /\ thread[t].archive.of = Javac
  PROVE  Replaces'
<1> SUFFICES ASSUME ~cut' PROVE Replaces'
  BY DEF Replaces
<1>1. CASE \E t \in Threads : Replacing(t)
  BY <1>1 DEF Replaces, Replacing
<1>2. CASE ~\E t \in Threads : Replacing(t)
  <2>1. \A t \in Threads, a \in Archives : Removing(t, a) => Removing(t, a)'
    BY DEF Removing
  <2> QED BY <1>2, <2>1 DEF Replaces
<1> QED BY <1>1, <1>2

\* t put archive a in place.
LEMMA PutInPlace ==
  ASSUME Shape, Replaces, NEW t \in Threads, thread[t].at \notin {"placed", "remove"},
         \E how : archives' = [archives EXCEPT ![thread[t].archive] = how],
         thread' = [thread EXCEPT ![t].at = "placed"], UNCHANGED cut
  PROVE  Replaces'
<1>1. /\ DOMAIN thread = Threads /\ DOMAIN archives = Archives
      /\ DOMAIN thread[t] = {"at", "archive", "ok", "old"}
  BY DEF Shape
<1>2. /\ thread'[t].at = "placed" /\ thread'[t].archive = thread[t].archive
      /\ \A u \in Threads : u # t => thread'[u] = thread[u]
  BY <1>1
<1>3. CASE thread[t].archive.of \in Deps
  BY <1>2, <1>3 DEF Replaces, Replacing
<1>4. CASE thread[t].archive.of \notin Deps
  <2>1. \A a \in Archives : Kept(a)' => Kept(a)
    BY <1>1, <1>4 DEF Kept, InPlace
  <2> QED BY <1>2, <2>1, StillReplaces
<1> QED BY <1>3, <1>4

\* It looked for the others.
LEMMA LookedForOthers ==
  ASSUME Shape, Replaces, NEW t \in Threads, Placed(t)
  PROVE  Replaces'
<1> DEFINE a == thread[t].archive
<1>1. /\ DOMAIN thread = Threads /\ DOMAIN thread[t] = {"at", "archive", "ok", "old"}
      /\ thread[t].at = "placed" /\ UNCHANGED archives
  BY DEF Shape, Placed
<1>2. CASE a.of = Javac
  <2>1. UNCHANGED cut /\ thread' = [thread EXCEPT ![t].at = "done"]
    BY <1>2 DEF Placed, Goes
  <2>2. \A u \in Threads : u # t => thread'[u] = thread[u]
    BY <1>1, <2>1
  <2>3. \A b \in Archives : Kept(b)' => Kept(b)
    BY <1>1 DEF Kept, InPlace
  <2> QED BY <1>1, <1>2, <2>1, <2>2, <2>3, StillReplaces
<1>3. CASE a.of # Javac
  <2>1. thread' = [thread EXCEPT ![t].at = "remove", ![t].old = Replaced(a)]
    BY <1>3 DEF Placed
  <2>2. thread'[t].at = "remove" /\ thread'[t].old = Replaced(a)
    BY <1>1, <2>1
  <2>3. ASSUME NEW b \in Archives, NEW d \in Archives, Kept(b)', Kept(d)', b # d
        PROVE  Removing(t, b)' \/ Removing(t, d)'
    <3>1. b # a => b \in Replaced(a)
      BY <1>1, <2>3 DEF Replaced, Kept, InPlace
    <3>2. d # a => d \in Replaced(a)
      BY <1>1, <2>3 DEF Replaced, Kept, InPlace
    <3> QED BY <2>2, <2>3, <3>1, <3>2 DEF Removing
  <2> QED BY <2>3 DEF Replaces
<1> QED BY <1>2, <1>3

LEMMA RemovedOne ==
  ASSUME Shape, Replaces, NEW t \in Threads, Remove(t)
  PROVE  Replaces'
<1>1. /\ DOMAIN thread = Threads /\ DOMAIN thread[t] = {"at", "archive", "ok", "old"}
      /\ DOMAIN archives = Archives /\ thread[t].at = "remove" /\ UNCHANGED cut
  BY DEF Shape, Remove
<1>2. \/ /\ thread[t].old = {} /\ UNCHANGED archives
         /\ thread' = [thread EXCEPT ![t].at = "done"]
      \/ \E b \in thread[t].old : /\ archives' = [archives EXCEPT ![b] = "none"]
                                   /\ thread' = [thread EXCEPT ![t].old = @ \ {b}]
  BY DEF Remove, Goes
<1>3. \A u \in Threads : u # t => thread'[u] = thread[u]
  BY <1>1, <1>2
<1>4. \A d \in Archives : Kept(d)' => Kept(d) /\ (Removing(t, d) => Removing(t, d)')
  <2>1. CASE thread[t].old = {} /\ UNCHANGED archives
    BY <2>1 DEF Kept, InPlace, Removing
  <2>2. ASSUME NEW b \in thread[t].old, archives' = [archives EXCEPT ![b] = "none"],
               thread' = [thread EXCEPT ![t].old = @ \ {b}]
        PROVE  \A d \in Archives : Kept(d)' => Kept(d) /\ (Removing(t, d) => Removing(t, d)')
    <3>1. thread'[t].at = "remove" /\ thread'[t].old = thread[t].old \ {b}
      BY <1>1, <2>2
    <3>2. \A d \in Archives : Kept(d)' => d # b /\ Kept(d)
      BY <1>1, <2>2 DEF Kept, InPlace
    <3> QED BY <3>1, <3>2 DEF Removing
  <2> QED BY <1>2, <2>1, <2>2
<1>5. CASE \E u \in Threads : Replacing(u)
  BY <1>1, <1>3, <1>5 DEF Replaces, Replacing
<1>6. CASE ~cut /\ ~\E u \in Threads : Replacing(u)
  <2>1. \A d \in Archives, u \in Threads : Kept(d)' /\ Removing(u, d) => Removing(u, d)'
    BY <1>3, <1>4 DEF Removing
  <2> QED BY <1>4, <1>6, <2>1 DEF Replaces
<1>7. CASE cut
  BY <1>1, <1>7 DEF Replaces
<1> QED BY <1>5, <1>6, <1>7

LEMMA RunReplaces ==
  ASSUME IInv, Replaces, NEW c \in Commands, NEW w \in {"main", "aside"}, Run(<<c, w>>)
  PROVE  Replaces'
<1> DEFINE a == <<c, "aside">>
<1>1. PICK t : t = <<c, w>>
  OBVIOUS
<1>2. t \in Threads /\ a \in Threads /\ t[1] = c /\ t \in {<<c, "main">>, a}
  BY <1>1 DEF Threads
<1>3. /\ Shape /\ DOMAIN thread = Threads /\ DOMAIN archives = Archives
      /\ DOMAIN thread[t] = {"at", "archive", "ok", "old"}
      /\ thread[t].at \in Recording => t = a \/ thread[a].at = "off"
  BY <1>2 DEF IInv, Shape, OneAtATime
<1>4. CASE /\ UNCHANGED <<archives, cut>> /\ thread[t].at \in Recording
           /\ \A u \in Threads \ {t, a} : thread'[u] = thread[u]
  <2>1. \A b \in Archives : Kept(b)' => Kept(b)
    BY <1>4 DEF Kept, InPlace
  <2>2. \A u \in Threads : thread[u].at \in {"placed", "remove"} => thread'[u] = thread[u]
    BY <1>3, <1>4 DEF Recording
  <2> QED BY <1>4, <2>1, <2>2, StillReplaces
<1>5. CASE /\ UNCHANGED cut /\ thread[t].at \in Recording /\ thread' = [thread EXCEPT ![t].at = "placed"]
           /\ \E how : archives' = [archives EXCEPT ![thread[t].archive] = how]
  BY <1>2, <1>3, <1>5, PutInPlace DEF Recording
<1>6. CASE Exit(t) \/ Ended(t) \/ Assemble(t) \/ Created(t)
  <2>1. UNCHANGED <<archives, cut>> /\ thread[t].at \in Recording
    BY <1>6 DEF Exit, Ended, Assemble, Created, Recording
  <2>2. \E r : thread' = [thread EXCEPT ![t] = r]
    BY <1>6 DEF Exit, Ended, Assemble, Created, Goes
  <2> QED BY <1>3, <1>4, <2>1, <2>2
<1>7. CASE Settle(t)
  <2>1. UNCHANGED cut /\ thread[t].at = "ended"
    BY <1>7 DEF Settle
  <2>2. \/ UNCHANGED archives /\ thread' = [thread EXCEPT ![t].at = "done"]
        \/ /\ thread' = [thread EXCEPT ![t].at = "placed"]
           /\ archives' = [archives EXCEPT ![thread[t].archive] = temps[Dump(t)]]
        \/ /\ UNCHANGED archives
           /\ thread' = [thread EXCEPT ![t] = [Off EXCEPT !.at = "done"],
                                      ![a] = [thread[t] EXCEPT !.at = "assemble"]]
    BY <1>2, <1>7 DEF Settle, Goes
  <2> QED BY <1>3, <1>4, <1>5, <2>1, <2>2 DEF Recording
<1>8. CASE Made(t)
  <2>1. UNCHANGED cut /\ thread[t].at = "made"
    BY <1>8 DEF Made
  <2>2. \/ UNCHANGED archives /\ thread' = [thread EXCEPT ![t].at = "done"]
        \/ /\ thread' = [thread EXCEPT ![t].at = "placed"]
           /\ archives' = [archives EXCEPT ![thread[t].archive] = temps[Cache(t)]]
    BY <1>8 DEF Made, Goes
  <2> QED BY <1>3, <1>4, <1>5, <2>1, <2>2 DEF Recording
<1>9. CASE Placed(t)
  BY <1>2, <1>3, <1>9, LookedForOthers
<1>10. CASE Remove(t)
  BY <1>2, <1>3, <1>10, RemovedOne
<1> QED BY <1>1, <1>6, <1>7, <1>8, <1>9, <1>10 DEF Run

LEMMA CommandReplaces ==
  ASSUME IInv, Replaces, NEW c \in Commands,
         Begin(c) \/ LookFor(c) \/ Mark(c) \/ ForTests(c) \/ Join(c) \/ Kill(c)
  PROVE  Replaces'
<1> DEFINE m == <<c, "main">>
           a == <<c, "aside">>
<1>1. /\ m \in Threads /\ a \in Threads /\ \A u \in Threads : u[1] = c => u \in {m, a}
      /\ \A u \in Threads : u \in {m, a} => u[1] = c
  BY DEF Threads
<1>2. DOMAIN thread = Threads /\ (thread[a].at # "off" => command[c].claimed \/ thread[m].at = "done")
  BY DEF IInv, Shape, OneAtATime
<1>3. /\ cut => cut'
      /\ \A b \in Archives : Kept(b)' => Kept(b)
  <2>1. UNCHANGED archives /\ (UNCHANGED cut \/ Kill(c))
    BY DEF Begin, LookFor, Mark, ForTests, Join, Kill
  <2>2. Kill(c) => (cut => cut')
    BY DEF Kill
  <2> QED BY <2>1, <2>2 DEF Kept, InPlace
<1>4. CASE /\ thread[m].at \notin {"placed", "remove"} /\ thread[a].at \notin {"placed", "remove"}
           /\ \A u \in Threads \ {m, a} : thread'[u] = thread[u]
  BY <1>3, <1>4, StillReplaces
<1>5. CASE /\ thread[m].at \notin {"placed", "remove"}
           /\ \A u \in Threads \ {m} : thread'[u] = thread[u]
  BY <1>3, <1>5, StillReplaces
<1>6. CASE Begin(c)
  <2>1. thread[m].at = "off" /\ thread[a].at = "off"
    BY <1>6 DEF Begin
  <2>2. \E at : thread' = [thread EXCEPT ![m].at = at]
    BY <1>6 DEF Begin, Goes
  <2> QED BY <1>2, <1>5, <2>1, <2>2
<1>7. CASE LookFor(c) \/ Mark(c)
  <2>1. thread[m].at \in {"train", "look", "markTrain", "markLook"}
    BY <1>7, Looks
  <2>2. \/ \E at : thread' = [thread EXCEPT ![m].at = at]
        \/ /\ ~command[c].claimed
           /\ \E at : thread' = [thread EXCEPT ![m].at = at, ![a].at = "jvm",
                                                ![a].archive = JavacArchive]
        \/ thread' = [thread EXCEPT ![m].at = "jvm", ![m].archive = JavacArchive]
    BY <1>7, Looks
  <2>3. \/ \A u \in Threads \ {m} : thread'[u] = thread[u]
        \/ ~command[c].claimed /\ \A u \in Threads \ {m, a} : thread'[u] = thread[u]
    BY <1>2, <2>2
  <2> QED BY <1>2, <1>4, <1>5, <2>1, <2>3
<1>8. CASE ForTests(c)
  <2>1. thread[m].at = "tests" /\ \E r : thread' = [thread EXCEPT ![m] = r]
    BY <1>8 DEF ForTests, Goes
  <2> QED BY <1>2, <1>5, <2>1
<1>9. CASE Join(c)
  <2>1. thread[m].at = "done" /\ thread[a].at \in {"off", "done"}
    BY <1>9 DEF Join
  <2>2. \A u \in Threads : u \notin {m, a} => thread'[u] = thread[u]
    BY <1>1, <1>9 DEF Join, Over
  <2> QED BY <1>4, <2>1, <2>2
<1>10. CASE Kill(c)
  <2>1. cut' = (cut \/ \E w \in {"main", "aside"} : thread[<<c, w>>].at \in {"placed", "remove"})
    BY <1>10 DEF Kill
  <2>2. \A u \in Threads : u \notin {m, a} => thread'[u] = thread[u]
    BY <1>1, <1>10 DEF Kill, Over
  <2>3. CASE thread[m].at \in {"placed", "remove"} \/ thread[a].at \in {"placed", "remove"}
    BY <2>1, <2>3 DEF Replaces
  <2> QED BY <1>4, <2>2, <2>3
<1> QED BY <1>6, <1>7, <1>8, <1>9, <1>10

\* The tests of a project keep one archive once nobody is replacing it: two
\* commands that put theirs in place at once, whichever look first and
\* whatever they find, leave one at most.  A command that was killed before
\* it had removed what it replaced is excepted.
THEOREM OneArchiveStays == Spec => []OnePerProject
<1>1. Init => Replaces
  BY DEF Init, Replaces, Kept, InPlace
<1>2. IInv /\ Replaces /\ [Next]_vars => Replaces'
  <2> SUFFICES ASSUME IInv, Replaces, [Next]_vars PROVE Replaces'
    OBVIOUS
  <2>1. CASE Change \/ UNCHANGED vars
    <3>1. UNCHANGED <<archives, thread, cut>>
      BY <2>1 DEF Change, vars
    <3> QED BY <3>1 DEF Replaces, Replacing, Removing, Kept, InPlace
  <2>2. ASSUME NEW c \in Commands, Begin(c) \/ Command(c) \/ Kill(c) PROVE Replaces'
    BY <2>2, CommandReplaces, RunReplaces DEF Command
  <2> QED BY <2>1, <2>2 DEF Next
<1>3. Replaces => OnePerProject
  <2> SUFFICES ASSUME Replaces, ~cut,
                      \A t \in Threads : thread[t].at \notin {"placed", "remove"}
               PROVE  Cardinality({a \in Archives : InPlace(a) /\ a.of \in Deps}) <= 1
    BY DEF OnePerProject
  <2> DEFINE kept == {a \in Archives : InPlace(a) /\ a.of \in Deps}
  <2>1. \A a, b \in kept : a = b
    BY DEF Replaces, Replacing, Removing, Kept
  <2>2. kept = {} \/ \E a : kept = {a}
    BY <2>1
  <2>3. CASE kept = {}
    BY <2>3, FS_EmptySet
  <2>4. ASSUME NEW a, kept = {a} PROVE Cardinality(kept) <= 1
    <3>1. Cardinality({a}) = 1
      BY FS_Singleton
    <3> HIDE DEF kept
    <3> QED BY <2>4, <3>1
  <2> QED BY <2>2, <2>3, <2>4
<1> QED BY <1>1, <1>2, <1>3, InvIInv, PTL DEF Spec
=============================================================================
