------------------------------- MODULE MCMerge -------------------------------
(* An instance of Merge3 in which diff_optimize() moves one insertion to   *)
(* the place of another: the version of one side has lines more in three   *)
(* places, the other side has changed nothing, or something else.          *)
EXTENDS Merge3

Widths == [x \in {"a", "bb", "ccc", "}"} |->
             CASE x = "bb" -> 2 [] x = "ccc" -> 3 [] OTHER -> 1]
Cores == [x \in DOMAIN Widths |-> x]

Moving == <<"}", "a", "bb", "bb", "ccc", "bb", "a", "a">>
Tasks == {<<<<"a", "bb">>, Moving, theirs>> : theirs \in {<<"a", "bb">>, <<"a", "}", "bb">>}}
=============================================================================
