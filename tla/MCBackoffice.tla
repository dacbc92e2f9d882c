---------------------------- MODULE MCBackoffice ----------------------------
(* The safety instance of Backoffice.  All processes have one account, and *)
(* so they are interchangeable.  The run also has the two modules of pure  *)
(* functions: the initial state chooses the part, and the others do        *)
(* nothing; merges keep their state in x1, x2, ...                         *)
EXTENDS Backoffice, Delta

CONSTANTS p1, p2, p3, alice, bob

VARIABLES part, x1, x2, x3, x4, x5, x6
others == <<x1, x2, x3, x4, x5, x6>>

SameOwner == [p \in Pid |-> alice]
SymmetryDef == Permutations(Pid)

Texts(symbols, n) == UNION {[1 .. k -> symbols] : k \in 0 .. n}

-----------------------------------------------------------------------------
(* Merge3: three short texts of two lines; a change on one side only; and  *)
(* longer texts, of which some have insertions that diff_optimize() moves  *)
(* together, while the others share a brace or a line that is unique.      *)
WidthDef == [x \in {"a", "bb", "ccc", "}"} |->
               CASE x = "bb" -> 2 [] x = "ccc" -> 3 [] OTHER -> 1]
CoreDef == [x \in {"a", "bb", "ccc", "}"} |-> x]

Moving == <<"}", "a", "bb", "bb", "ccc", "bb", "a", "a">>
Pair == <<"a", "bb">>
Block(x) == <<"bb", "bb", "a", "bb", x, "bb", "a", "bb">>
Framed(x) == <<"}", "}", x, "ccc">>

Short == Texts({"a", "bb"}, 4) \X Texts({"a", "bb"}, 4) \X Texts({"a", "bb"}, 4)
OneSided == {<<P, V, P>> : P \in Texts({"a", "bb", "}"}, 3), V \in Texts({"a", "bb", "}"}, 5)}
Long ==
    {<<Pair, Moving, Pair>>, <<Pair, Pair, Moving>>, <<Pair, Moving, <<"a", "}", "bb">>>>}
        \cup {<<Block(x), Framed(x), Tail(Block(x))>> : x \in {"}", "ccc"}}

M == INSTANCE Merge3 WITH
    Line <- DOMAIN WidthDef, Width <- WidthDef, Core <- CoreDef, Wide <- {"bb", "ccc"},
    Task <- Short \cup OneSided \cup Long,
    task <- x1, c1 <- x2, c2 <- x3, text <- x4, out <- x5, pc <- x6

(* Delta: all short texts of two bytes.  The window is 2 bytes wide, which *)
(* makes three landmarks, and their hash, the sum, has collisions.         *)
HashDef(w) == FoldLeft(LAMBDA s, x : s + x, 0, w)
SourceDef == Texts({0, 1}, 7)
TargetDef == Texts({0, 1}, 5)
OtherDef == {<<>>, <<0, 0, 1, 0>>}

ASSUME M!DiffAssumption

-----------------------------------------------------------------------------
NoMerge == x1 = 0 /\ x2 = 0 /\ x3 = 0 /\ x4 = 0 /\ x5 = 0 /\ x6 = 0
NoDelta == src = <<>> /\ target = <<>> /\ DeltaInit

InitOfParts ==
    /\ Init
    /\ \/ part = "backoffice" /\ NoMerge /\ NoDelta
       \/ part = "merge" /\ M!Init /\ NoDelta
       \/ part = "delta" /\ NoMerge /\ DeltaInit

NextOfParts ==
    /\ \/ part = "backoffice" /\ Next /\ UNCHANGED <<others, deltaVars>>
       \/ part = "merge" /\ M!Next /\ UNCHANGED <<vars, deltaVars>>
       \/ part = "delta" /\ DeltaNext /\ UNCHANGED <<vars, others>>
       \/ part = "merge" /\ x6 = "done" /\ UNCHANGED <<vars, others, deltaVars>>
       \/ part = "delta" /\ phase \in {"done", "error"} /\ UNCHANGED <<vars, others, deltaVars>>
    /\ UNCHANGED part

SpecOfParts == InitOfParts /\ [][NextOfParts]_<<vars, part, others, deltaVars>>

-----------------------------------------------------------------------------
(* The properties of Merge3, with the types of its state.                  *)
EditsTransform == part = "merge" => M!EditsTransform
MergeKeepsChanges == part = "merge" => M!TypeOK /\ M!MergeKeepsChanges
=============================================================================
