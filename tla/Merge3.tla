------------------------------- MODULE Merge3 -------------------------------
(***************************************************************************)
(* merge_three_blobs() of src/src/merge3.c: the edits that make the pivot  *)
(* into V1 and into V2 are walked side by side, and for each stretch of    *)
(* the pivot one of them, both, or a conflict goes to the output.          *)
(***************************************************************************)
EXTENDS Diff

CONSTANTS
    Task    \* the merges: triples of pivot, V1 and V2

VARIABLES
    task,   \* the merge that is done
    c1, c2, \* what is left of the edits aC1 and aC2
    text,   \* what the cursors have before them in pivot, V1 and V2
    out,    \* what the methods of the MergeBuilder were called with
    pc

vars == <<task, c1, c2, text, out, pc>>

Kinds == {"same", "v1", "v2", "both", "conflict"}

TypeOK ==
    /\ task \in Task
    /\ c1 \in Seq(Nat \X Nat \X Nat) /\ c2 \in Seq(Nat \X Nat \X Nat)
    /\ text \in [p : Seq(Line), v1 : Seq(Line), v2 : Seq(Line)]
    /\ out \in Seq([kind : Kinds, p : Seq(Line), v1 : Seq(Line), v2 : Seq(Line)])
    /\ pc \in {"diff", "merge", "done"}

Init ==
    /\ task \in Task
    /\ text = [p |-> task[1], v1 |-> task[2], v2 |-> task[3]]
    /\ c1 = <<>> /\ c2 = <<>> /\ out = <<>>
    /\ pc = "diff"

-----------------------------------------------------------------------------
(* The triples of an edit before the first of zeros.                       *)
Significant(edit) ==
    LET end == Min({r \in 1 .. Len(edit) : edit[r] = <<0, 0, 0>>})
    IN  SubSeq(edit, 1, end - 1)

Diffs ==
    /\ pc = "diff"
    /\ c1' = Significant(TextDiff(task[1], task[2]))
    /\ c2' = Significant(TextDiff(task[1], task[3]))
    /\ pc' = "merge"
    /\ UNCHANGED <<task, text, out>>

-----------------------------------------------------------------------------
(* blob_copy_lines(): the next n lines, or as many as there are.           *)
First(T, n) == Lines(T, 0, Min({n, Len(T)}))
Beyond(T, n) == Lines(T, Min({n, Len(T)}), Len(T))

(* A method of the MergeBuilder takes lines from each text.                *)
Emit(kind, nPivot, nV1, nV2) ==
    /\ out' = Append(out, [kind |-> kind, p |-> First(text.p, nPivot),
                           v1 |-> First(text.v1, nV1), v2 |-> First(text.v2, nV2)])
    /\ text' = [p |-> Beyond(text.p, nPivot), v1 |-> Beyond(text.v1, nV1),
                v2 |-> Beyond(text.v2, nV2)]

(* n lines less to copy in the first triple.                               *)
Copied(c, n) == IF c = <<>> THEN c ELSE [c EXCEPT ![1][1] = @ - n]

(* The end of the loop body: a triple that is used up makes place.         *)
Advanced(c) == IF c # <<>> /\ c[1] = <<0, 0, 0>> THEN Tail(c) ELSE c

Go(d1, d2) == c1' = Advanced(d1) /\ c2' = Advanced(d2) /\ UNCHANGED <<task, pc>>

InLoop == pc = "merge" /\ c1 # <<>> /\ c2 # <<>>

(* Lines that are unchanged in V1 and in V2.                               *)
Same ==
    LET n == Min({c1[1][1], c2[1][1]})
    IN  /\ InLoop /\ n > 0
        /\ Emit("same", n, n, n)
        /\ Go(Copied(c1, n), Copied(c2, n))

(* An edit whose deletion lies within lines that the other one copies.     *)
Within(edit, other) ==
    /\ edit[1] = 0
    /\ other[1] > 0 /\ other[1] >= edit[2] /\ edit[2] + edit[3] > 0

ChngV2 ==
    /\ InLoop /\ Within(c2[1], c1[1])
    /\ Emit("v2", c2[1][2], c2[1][2], c2[1][3])
    /\ Go(Copied(c1, c2[1][2]), Tail(c2))

ChngV1 ==
    /\ InLoop /\ Within(c1[1], c2[1])
    /\ Emit("v1", c1[1][2], c1[1][3], c1[1][2])
    /\ Go(Tail(c1), Copied(c2, c1[1][2]))

SameEdit ==
    /\ c1[1] = c2[1]
    /\ First(text.v1, c1[1][3]) = First(text.v2, c1[1][3])

Overlap ==
    /\ InLoop
    /\ c1[1][1] = 0 \/ c2[1][1] = 0
    /\ ~Within(c2[1], c1[1]) /\ ~Within(c1[1], c2[1])

ChngBoth ==
    /\ Overlap /\ SameEdit
    /\ Emit("both", c1[1][2], c1[1][3], c1[1][3])
    /\ Go(Tail(c1), Tail(c2))

(* How many lines of the pivot, and of the other text, the first k triples *)
(* of an edit stand for.                                                   *)
Passed(c, k) == FoldLeft(LAMBDA n, t : n + t[1] + t[2], 0, SubSeq(c, 1, k))
Made(c, k) == FoldLeft(LAMBDA n, t : n + t[1] + t[3], 0, SubSeq(c, 1, k))

(* ends_with_copy(): sz lines do not end within a deletion.                *)
EndsWithCopy_Begun(c, sz) == sz >= c[1][1] + c[1][2]
EndsWithCopy(c, sz) ==
    \A k \in 1 .. Len(c) : ~(Passed(c, k - 1) + c[k][1] < sz /\ sz < Passed(c, k))

(* skip_conflict(): the triples that sz lines of the pivot use up, and the *)
(* lines of the other text.                                                *)
SkipConflict(c, sz) ==
    LET n == Min({k \in 0 .. Len(c) : k = Len(c) \/ Passed(c, k) + c[k + 1][1] >= sz})
        rest == IF n = Len(c) THEN 0 ELSE sz - Passed(c, n)
    IN  [edit |-> Copied(SubSeq(c, n + 1, Len(c)), rest), lines |-> Made(c, n) + rest]

Conflict ==
    LET sz == Min({n \in 1 .. Len(task[1]) + 1 : EndsWithCopy(c1, n) /\ EndsWithCopy(c2, n)})
        skip1 == SkipConflict(c1, sz)
        skip2 == SkipConflict(c2, sz)
    IN  /\ Overlap /\ ~SameEdit
        /\ Emit("conflict", sz, skip1.lines, skip2.lines)
        /\ Go(skip1.edit, skip2.edit)

(* After the loop, an insertion that is left over.                         *)
Finish ==
    /\ pc = "merge" /\ (c1 = <<>> \/ c2 = <<>>)
    /\ IF c1 # <<>> /\ c1[1][3] > 0 THEN Emit("v1", 0, c1[1][3], 0)
       ELSE IF c2 # <<>> /\ c2[1][3] > 0 THEN Emit("v2", 0, 0, c2[1][3])
       ELSE UNCHANGED <<text, out>>
    /\ pc' = "done"
    /\ UNCHANGED <<task, c1, c2>>

Next == Diffs \/ Same \/ ChngV2 \/ ChngV1 \/ ChngBoth \/ Conflict \/ Finish

Spec == Init /\ [][Next]_vars

-----------------------------------------------------------------------------
(* text_diff() returns edits that make the pivot into V1 and into V2: they *)
(* end where both texts end and copy only equal lines, also after          *)
(* diff_optimize() has moved insertions and deletions.                     *)
EditsTransform ==
    pc = "merge" /\ out = <<>> => IsEdit(c1, task[1], task[2]) /\ IsEdit(c2, task[1], task[3])

(* What the output takes from one text only is changed in that text only.  *)
Sound(item) ==
    CASE item.kind = "same" -> item.v1 = item.p /\ item.v2 = item.p
      [] item.kind = "v1"   -> item.v2 = item.p
      [] item.kind = "v2"   -> item.v1 = item.p
      [] item.kind = "both" -> item.v1 = item.v2
      [] item.kind = "conflict" -> item.v1 # item.p /\ item.v2 # item.p

EveryLineRead == text = [p |-> <<>>, v1 |-> <<>>, v2 |-> <<>>]

(* A merge, which ends with a note of conflicts or without, loses no       *)
(* change: every line of the three texts is part of a stretch, and outside *)
(* of conflicts each stretch has the change of the text that changed it.   *)
(* Excepted are edits that end with more than one insertion, of which the  *)
(* code writes only the first.                                             *)
MergeKeepsChanges ==
    /\ \A r \in DOMAIN out : Sound(out[r])
    /\ pc = "done" => EveryLineRead \/ Len(c1) > 1 \/ Len(c2) > 1

(* The same without the exception, as merge3.c:861 has it: "When one of    *)
(* the two edit vectors reaches its end, there might still be an insert in *)
(* the other edit vector.  Output this remaining insert."                  *)
EveryLineMerged == pc = "done" => EveryLineRead
=============================================================================
