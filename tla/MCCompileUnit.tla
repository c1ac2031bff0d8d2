--------------------------- MODULE MCCompileUnit ----------------------------
(* A unit of three sources: Base; Heir, which extends it; and User, which   *)
(* calls Heir, reads a constant of Base and names a type nobody declares at *)
(* first.  Their versions change a body, gain or change a method, gain a    *)
(* field, change a constant, and declare the type.                          *)
EXTENDS CompileUnit, TLC

CONSTANTS Base, Heir, User
MCSources == {Base, Heir, User}

Method(name, sig) == [name |-> name, sig |-> sig, plain |-> TRUE, bridge |-> FALSE]
Field(name) == [name |-> name, sig |-> 0, plain |-> FALSE, bridge |-> FALSE]

BaseText == [header |-> 1, members |-> {Method("f", 1)}, consts |-> 1, supers |-> {},
             refs |-> {}, calls |-> {}, overrides |-> {}, inlines |-> {},
             tops |-> {}, simple |-> {}]
HeirText == [BaseText EXCEPT !.members = {Method("h", 1)}, !.consts = 0,
                             !.supers = {Base}, !.overrides = {"f"}]
UserText == [HeirText EXCEPT !.members = {Method("main", 1)}, !.supers = {},
                             !.refs = {Heir}, !.calls = {"f", "h"},
                             !.overrides = {}, !.inlines = {Base}, !.simple = {"T"}]

\* Base: another f; f overloaded; another constant; a field more.
BaseTexts == <<BaseText,
               [BaseText EXCEPT !.members = {Method("f", 2)}],
               [BaseText EXCEPT !.members = {Method("f", 1), Method("f", 2)}],
               [BaseText EXCEPT !.consts = 2],
               [BaseText EXCEPT !.members = {Method("f", 1), Field("x")}]>>
\* Heir: another body; another type declared beside it; h is gone.
HeirTexts == <<HeirText, HeirText,
               [HeirText EXCEPT !.tops = {"T"}],
               [HeirText EXCEPT !.members = {}]>>
UserTexts == <<UserText, UserText>>

MCContent == (Base :> BaseTexts) @@ (Heir :> HeirTexts) @@ (User :> UserTexts)

None == [what \in {"edits", "saves", "crashes", "clears"} |-> 0]

\* Edits and reverts with the cache on, killed while it is restored from; and
\* sources saved under a build killed anywhere, class files deleted.
MCTrials ==
  {[exact |-> TRUE, cache |-> TRUE, reverts |-> TRUE, settings |-> {1, 2}, edits |-> 3,
    crashes |-> 1, killsAt |-> {"forget", "forget index", "extract", "take stock"}] @@ None,
   [exact |-> FALSE, cache |-> FALSE, reverts |-> FALSE, settings |-> {1}, edits |-> 2,
    saves |-> 1, crashes |-> 1, clears |-> 1,
    killsAt |-> {"track", "sweep", "javac", "record", "reach", "save", "clear", "create",
                 "javac all", "index all", "stamp"}] @@ None}

\* One edit, and a build killed while javac runs.
MCKilledTrials ==
  {[exact |-> TRUE, cache |-> FALSE, reverts |-> FALSE, settings |-> {1}, edits |-> 1,
    crashes |-> 1, killsAt |-> {"javac"}] @@ None}
=============================================================================
