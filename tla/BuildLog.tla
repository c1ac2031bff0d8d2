------------------------------ MODULE BuildLog ------------------------------
(***************************************************************************)
(* What a workspace command promises about its transcript when every       *)
(* member succeeds: the terminal only ever shows a beginning of the        *)
(* transcript `--jobs 1` prints (the loop over members one after the       *)
(* other), and in the end shows all of it.  How the lines are produced,    *)
(* held back and replayed is Members' business.                            *)
(***************************************************************************)
EXTENDS Sequences, SequencesExt, Naturals

CONSTANT Members        \* members are 1 .. Members, in build order

VARIABLES shown,        \* the lines on the terminal, in order
          script        \* script[k]: the lines member k says, in order

logVars == <<shown, script>>

\* The transcript of building one member after the other.
Transcript == FlattenSeq([k \in 1..Members |-> script[k]])

LogInit == shown = <<>>

\* Some more of the transcript reaches the terminal.
Extend == \E n \in (Len(shown) + 1)..Len(Transcript) :
            /\ shown = SubSeq(Transcript, 1, Len(shown))
            /\ shown' = SubSeq(Transcript, 1, n)
            /\ UNCHANGED script

LogSpec == LogInit /\ [][Extend]_logVars /\ WF_logVars(Extend)
=============================================================================
