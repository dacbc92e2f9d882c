-------------------------------- MODULE Diff --------------------------------
(***************************************************************************)
(* text_diff() of src/src/diff.c: the edit triples <<copy, delete,         *)
(* insert>> that make the text A into the text B.  A text is a sequence of *)
(* lines.  Positions count from 0, as in the code: line i is A[i + 1].     *)
(* Left out are the limits that only long texts meet: on the hash chains   *)
(* that are followed, and on the size that optimalLCS() is used for.       *)
(***************************************************************************)
EXTENDS Integers, SequencesExt

CONSTANTS
    Line,
    Width,   \* Width[x]: the bytes of line x
    Core,    \* Core[x]: line x without the white space around it
    Wide     \* lines with more than one character beside white space

DiffAssumption ==
    /\ Width \in [Line -> Nat]
    /\ DOMAIN Core = Line
    /\ Wide \subseteq Line

(* The lines from .. to - 1 of a text.                                     *)
Lines(T, from, to) == SubSeq(T, from + 1, to)

(* How many n of 0 .. max there are in a row with a property.              *)
InARow(max, P(_)) == Max({n \in 0 .. max : \A d \in 0 .. n - 1 : P(d)})

Abs(n) == IF n < 0 THEN -n ELSE n

(* A segment: lines s1 .. e1 - 1 of A against lines s2 .. e2 - 1 of B.     *)
Segment == [s1 : Nat, e1 : Nat, s2 : Nat, e2 : Nat]
Seg(s1, e1, s2, e2) == [s1 |-> s1, e1 |-> e1, s2 |-> s2, e2 |-> e2]
Size(g) == g.e1 - g.s1

-----------------------------------------------------------------------------
(* The common segment around line i of A and line j of B.                  *)
Extended(A, B, g, i, j) ==
    LET up == InARow(Min({i - g.s1, j - g.s2}), LAMBDA d : A[i - d] = B[j - d])
        down == InARow(Min({g.e1 - i, g.e2 - j}), LAMBDA d : A[i + d + 1] = B[j + d + 1])
    IN  Seg(i - up, i + down, j - up, j + down)

(* Long segments first, then those in the middle.                          *)
Score(g, m) ==
    LET span == Size(g) + g.e2 - g.s2
        skew == Abs((m.s1 - g.s1) - (m.s2 - g.s2))
        dist == Abs(((m.s1 + m.e1) \div 2) - ((g.e1 + g.s1) \div 2))
    IN  Size(m) * span - (skew + dist)

(* The hash chain of a line gives its last occurrence in B, but never the  *)
(* last line of the segment.  (j - 1 is the index of that line.)           *)
Twins(A, B, g, i) == {j \in g.s2 + 1 .. g.e2 - 1 : B[j] = A[i + 1]}

Covers(m, i, j) == i < m.e1 /\ j >= m.s2 /\ j < m.e2

(* The heuristic search of longestCommonSequence().                        *)
Heuristic(A, B, g) ==
    LET none == Seg(g.s1, g.s1, g.s2, g.s2)
        Visit(seen, i) ==
          LET j == Max(Twins(A, B, g, i))
              m == Extended(A, B, g, i, j - 1)
          IN  CASE Twins(A, B, g, i) = {} -> seen
                [] Twins(A, B, g, i) # {}
                   /\ (Covers(seen.best, i, j) \/ Covers(seen.other, i, j)) -> seen
                [] OTHER ->
                     IF seen.best = none \/ Score(g, m) > Score(g, seen.best)
                       THEN [seen EXCEPT !.best = m]
                     ELSE IF m.e1 > seen.other.e1 THEN [seen EXCEPT !.other = m]
                     ELSE seen
    IN  FoldLeft(Visit, [best |-> none, other |-> none],
                 [k \in 1 .. Size(g) |-> g.s1 + k - 1]).best

(* optimalLCS(): the longest common segment, of several the first.         *)
Optimal(A, B, g) ==
    LET Common(i, j) ==
          InARow(Min({g.e1 - i, g.e2 - j}), LAMBDA d : A[i + d + 1] = B[j + d + 1])
        pairs == (g.s1 .. g.e1 - 1) \X (g.s2 .. g.e2 - 1)
        longest == Max({Common(p[1], p[2]) : p \in pairs})
        i == Min({p[1] : p \in {q \in pairs : Common(q[1], q[2]) = longest}})
        j == Min({k \in g.s2 .. g.e2 - 1 : Common(i, k) = longest})
    IN  Seg(i, i + longest, j, j + longest)

LongestCommonSequence(A, B, g) ==
    LET m == Heuristic(A, B, g)
    IN  IF Size(m) = 0 THEN Optimal(A, B, g) ELSE m

(* A short segment of a long one counts only if one of its lines is more   *)
(* than a brace and occurs nowhere else in the long one.                   *)
LikelyNotIndentChngArtifact(A, g, m) ==
    \/ Size(m) * 7 >= Size(g)
    \/ \E i \in m.s1 + 1 .. m.e1 :
         /\ A[i] \in Wide
         /\ \A k \in (g.s1 + 1 .. g.e1) \ (m.s1 + 1 .. m.e1) : Core[A[k]] # Core[A[i]]

-----------------------------------------------------------------------------
(* appendTriple()                                                          *)
AppendTriple(edit, t) ==
    LET n == Len(edit)
        Grown == [edit EXCEPT ![n] = <<@[1] + t[1], @[2] + t[2], @[3] + t[3]>>]
    IN  CASE n > 0 /\ edit[n][3] = 0 /\ edit[n][2] = 0 -> Grown
          [] n > 0 /\ edit[n][3] = 0 /\ edit[n][2] # 0 /\ t[1] = 0 -> Grown
          [] n > 0 /\ edit[n][3] # 0 /\ t[1] = 0 /\ t[2] = 0 -> Grown
          [] OTHER -> Append(edit, t)

(* diff_step(): the triples it appends for a segment.                      *)
DiffStep(A, B, segment) ==
    LET step[g \in Segment] ==
          LET m == LongestCommonSequence(A, B, g)
          IN  IF g.e1 <= g.s1 THEN IF g.e2 > g.s2 THEN <<<<0, 0, g.e2 - g.s2>>>> ELSE <<>>
              ELSE IF g.e2 <= g.s2 THEN <<<<0, Size(g), 0>>>>
              ELSE IF Size(m) > 5 \/ (Size(m) > 0 /\ LikelyNotIndentChngArtifact(A, g, m))
                THEN step[Seg(g.s1, m.s1, g.s2, m.s2)] \o <<<<Size(m), 0, 0>>>>
                       \o step[Seg(m.e1, g.e1, m.e2, g.e2)]
              ELSE <<<<0, Size(g), g.e2 - g.s2>>>>
    IN  step[segment]

(* diff_all(): the common tail, the common head, and what is between them. *)
DiffAll(A, B) ==
    LET shorter == Min({Len(A), Len(B)})
        tail == InARow(shorter, LAMBDA d : A[Len(A) - d] = B[Len(B) - d])
        head == InARow(shorter - tail, LAMBDA d : A[d + 1] = B[d + 1])
        Copy(n) == IF n > 0 THEN <<<<n, 0, 0>>>> ELSE <<>>
    IN  Append(FoldLeft(AppendTriple, <<>>,
                        Copy(head)
                        \o DiffStep(A, B, Seg(head, Len(A) - tail, head, Len(B) - tail))
                        \o Copy(tail)),
               <<0, 0, 0>>)

-----------------------------------------------------------------------------
(* diff_optimize(): an insertion or a deletion moves up or down past lines *)
(* like its own, if that leaves shorter lines at its edges.  ln1 and ln2   *)
(* are where it begins in A and B.                                         *)
Moved(edit, r, n) ==
    [edit EXCEPT ![r][1] = @ - n, ![r + 1][1] = @ + n]

InsertUp(A, B, edit, r, ln1, ln2) ==
    LET n == edit[r][3]
    IN  InARow(edit[r][1], LAMBDA d :
          /\ A[ln1 - d] = B[ln2 + n - d]
          /\ Width[A[ln1 - d + 1]] + Width[B[ln2 + n - d]]
               > Width[A[ln1 - d]] + Width[B[ln2 + n - d - 1]])

InsertDown_Unlike(A, B, edit, r, ln1, ln2) ==
    LET n == edit[r][3]
    IN  InARow(edit[r + 1][1], LAMBDA d :
          Width[B[ln2 + d + 1]] + Width[B[ln2 + n + d]]
            > Width[B[ln2 + d + 2]] + Width[B[ln2 + n + d + 1]])
InsertDown(A, B, edit, r, ln1, ln2) ==
    LET n == edit[r][3]
    IN  InARow(edit[r + 1][1], LAMBDA d :
          /\ B[ln2 + d + 1] = B[ln2 + n + d + 1]
          /\ Width[B[ln2 + d + 1]] + Width[B[ln2 + n + d]]
               > Width[B[ln2 + d + 2]] + Width[B[ln2 + n + d + 1]])

DeleteUp(A, B, edit, r, ln1, ln2) ==
    LET n == edit[r][2]
    IN  InARow(edit[r][1], LAMBDA d :
          /\ A[ln1 - d] = A[ln1 + n - d]
          /\ Width[A[ln1 - d + 1]] + Width[A[ln1 + n - d]]
               > Width[A[ln1 - d]] + Width[A[ln1 + n - d - 1]])

DeleteDown(A, B, edit, r, ln1, ln2) ==
    LET n == edit[r][2]
    IN  InARow(edit[r + 1][1], LAMBDA d :
          /\ A[ln1 + d + 1] = A[ln1 + n + d + 1]
          /\ Width[A[ln1 + n + d]] > Width[A[ln1 + n + d + 1]])

Optimized(A, B, edit) ==
    LET Visit(at, r) ==
          LET t == at.edit[r]
              ln1 == at.ln1 + t[1]
              ln2 == at.ln2 + t[1]
              up == CASE t[2] = 0 /\ t[3] > 0 -> InsertUp(A, B, at.edit, r, ln1, ln2)
                      [] t[2] > 0 /\ t[3] = 0 -> DeleteUp(A, B, at.edit, r, ln1, ln2)
                      [] OTHER -> 0
              e == IF up = 0 THEN at.edit ELSE Moved(at.edit, r, up)
              down == CASE t[2] = 0 /\ t[3] > 0 -> InsertDown(A, B, e, r, ln1 - up, ln2 - up)
                        [] t[2] > 0 /\ t[3] = 0 -> DeleteDown(A, B, e, r, ln1 - up, ln2 - up)
                        [] OTHER -> 0
              n == down - up
          IN  [edit |-> IF down = 0 THEN e ELSE Moved(e, r, -down),
               ln1 |-> ln1 + n + t[2], ln2 |-> ln2 + n + t[3]]
    IN  FoldLeft(Visit, [edit |-> edit, ln1 |-> 0, ln2 |-> 0],
                 [r \in 1 .. Len(edit) |-> r]).edit

TextDiff(A, B) == Optimized(A, B, DiffAll(A, B))

-----------------------------------------------------------------------------
(* What an edit promises: its triples copy and delete all of A, and copy   *)
(* and insert all of B, and what they copy is the same in both.            *)
IsEdit(edit, A, B) ==
    LET n == Len(edit)
        Upto(r, c) == FoldLeft(LAMBDA sum, t : sum + t[1] + t[c], 0, SubSeq(edit, 1, r))
    IN  /\ Upto(n, 2) = Len(A) /\ Upto(n, 3) = Len(B)
        /\ \A r \in 1 .. n :
             LET a == Upto(r - 1, 2)
                 b == Upto(r - 1, 3)
             IN  Lines(A, a, a + edit[r][1]) = Lines(B, b, b + edit[r][1])
=============================================================================
