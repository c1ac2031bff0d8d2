---------------------------- MODULE Incremental -----------------------------
(***************************************************************************)
(* What one round of a file-by-file compile changed and whom it reaches    *)
(* (compile/incremental.rs).                                               *)
(*                                                                         *)
(* An index gives each source the hash of its text when it was last        *)
(* compiled (0: to be compiled again whatever it holds), the class it      *)
(* compiled to, by version and members, and the unit's classes that class  *)
(* refers to.                                                              *)
(***************************************************************************)
EXTENDS Javac

Header(s, entry) == Content[s][entry.of].header
Consts(s, entry) == IF entry.of = 0 THEN 0 ELSE Content[s][entry.of].consts

\* Class::only_adds_to: the same header, and every member it had.
OnlyAddsTo(s, before, after) ==
  Header(s, before) = Header(s, after) /\ before.members \subseteq after.members

\* The top-level classes a source compiled to.
TopLevels(s, entry) == IF entry.of = 0 THEN {} ELSE {s} \cup Content[s][entry.of].tops

\* Mutant of SafeToCompare: constants are not looked at.
SafeWithoutConstants(before, after, round) ==
  \A s \in round : TopLevels(s, before[s]) = TopLevels(s, after[s])

\* compare: its verdict.  A top-level class that appeared or went away, or a
\* changed constant, compiles the unit whole.
SafeToCompare(before, after, round) ==
  \A s \in round : /\ TopLevels(s, before[s]) = TopLevels(s, after[s])
                   /\ Consts(s, before[s]) = Consts(s, after[s])

\* Mutant of ChangesOf: any other class file counts as a change.
ChangesOfText(before, after, round) ==
  LET moved == {s \in round : before[s].of # after[s].of} IN
  [added |-> {}, broken |-> moved, methods |-> {}, wide |-> FALSE]

\* compare, Changes::gained: the classes that only gained members, those
\* that changed otherwise, and what the first gained.
ChangesOf(before, after, round) ==
  LET moved == {s \in round : \/ before[s].members # after[s].members
                              \/ Header(s, before[s]) # Header(s, after[s])}
      added == {s \in moved : OnlyAddsTo(s, before[s], after[s])}
      gained == UNION {after[s].members \ before[s].members : s \in added}
  IN [added |-> added, broken |-> moved \ added,
      methods |-> {m.name : m \in {g \in gained : g.plain}},
      wide |-> \E m \in gained : ~m.plain]

\* Mutant of Subtypes: an inherited member is not passed on.
OnlyItself(index, changed) == changed

\* subtypes, inheriting: the changed classes and all that inherit from them.
Subtypes(index, changed) ==
  Closure(changed, [u \in Sources |-> {s \in DOMAIN index : u \in Supers(s, index[s].of)}])

\* direct_users: the sources that refer to one of these classes.
DirectUsers(index, classes) == {s \in DOMAIN index : index[s].deps \cap classes # {}}

\* dependents: the sources that refer to one of these classes, or to the
\* class of one that does, transitively, less the ones compiled already.
Dependents(index, changed, compiled) ==
  DirectUsers(index, Closure(changed, [u \in Sources |-> DirectUsers(index, {u})])) \ compiled

\* feels_new_methods: a subtype of what gained them, or a source whose class
\* file holds one of the names.
FeelsNewMethods(out, index, s, reached, names) ==
  /\ index[s].of # 0
  /\ \/ s \in reached
     \/ Supers(s, index[s].of) \cap reached # {}
     \/ out[s].of = 0
     \/ (Content[s][out[s].of].calls \cup {m.name : m \in out[s].members}) \cap names # {}

\* Mutant of UsersOfAddition: whatever was gained is told apart by name.
UsersByName(out, index, users, reached, changes) ==
  {s \in users : FeelsNewMethods(out, index, s, reached, changes.methods)}

\* users_of_addition: told apart by name when all that was gained is methods
\* with a body.
UsersOfAddition(out, index, users, reached, changes) ==
  IF changes.wide \/ changes.methods = {} THEN users
  ELSE {s \in users : FeelsNewMethods(out, index, s, reached, changes.methods)}
=============================================================================
