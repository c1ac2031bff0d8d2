---------------------------- MODULE VersionOrder ----------------------------
(***************************************************************************)
(* How jrs compares versions (resolve/coord.rs), and what it picks by it:  *)
(* a JDK, an upgrade, the fix of an advisory.                              *)
(*                                                                         *)
(* A version is its items, as tokenize splits it: numbers, and words.  A   *)
(* word is its place in the order of words: the known ones first, those    *)
(* nobody knows behind them, alphabetically.                               *)
(***************************************************************************)
EXTENDS Integers, Sequences, SequencesExt

Release == 5    \* no word at all, and ga, final, release: behind snapshot
ServicePack == 6

Number == [kind : {"number"}, of : Nat]  \* one past u64 is its largest
Word == [kind : {"word"}, of : Nat]
Version == Seq(Number \cup Word)
Plain == Seq(Number)

\* An item that is not there stands for a zero, or for no word.
Missing == [kind |-> "missing", of |-> 0]
At(v, i) == IF i \in DOMAIN v THEN v[i] ELSE Missing
Null(kind) == IF kind = "word" THEN Release ELSE 0

Sign(x, y) == IF x < y THEN -1 ELSE IF x > y THEN 1 ELSE 0

\* A number outranks a word.
CompareItems(a, b) ==
  IF a.kind = b.kind THEN Sign(a.of, b.of)
  ELSE IF a.kind = "missing" THEN Sign(Null(b.kind), b.of)
  ELSE IF b.kind = "missing" THEN Sign(a.of, Null(a.kind))
  ELSE IF a.kind = "number" THEN 1 ELSE -1

\* The first items that differ decide.
Differ(v, w) == {i \in DOMAIN v \cup DOMAIN w : CompareItems(At(v, i), At(w, i)) # 0}
First(S) == CHOOSE i \in S : \A j \in S : i <= j
CompareVersions(v, w) ==
  LET i == First(Differ(v, w))
  IN  IF Differ(v, w) = {} THEN 0 ELSE CompareItems(At(v, i), At(w, i))

-----------------------------------------------------------------------------
(* Picking one out of a list: the first of the lowest, the last of the     *)
(* highest.                                                                *)

Highest(list) ==
  FoldLeft(LAMBDA best, v : IF CompareVersions(best, v) > 0 THEN best ELSE v,
           Head(list), Tail(list))
Lowest(list) ==
  FoldLeft(LAMBDA best, v : IF CompareVersions(best, v) > 0 THEN v ELSE best,
           Head(list), Tail(list))

\* The nearest version past `current` in which an advisory is fixed.
FixedAfter(fixed, current) ==
  LET later == SelectSeq(fixed, LAMBDA f : CompareVersions(f, current) > 0)
  IN  IF later = <<>> THEN <<>> ELSE <<Lowest(later)>>
=============================================================================
