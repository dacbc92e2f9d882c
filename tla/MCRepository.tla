---------------------------- MODULE MCRepository ----------------------------
(* Parts of a repository, and a check-out, that have nothing to do with    *)
(* each other, checked in one run: the initial state chooses the part.     *)
(* The variables of a part do not change in the others.                    *)
EXTENDS Transaction, Tags, IntBag, Undo

CONSTANTS
    (* Transaction *) p1, p2, k1, k2,
    (* Undo *) f, g

VARIABLE part

ASSUME TagsAssumption /\ BagAssumption /\ TransactionAssumption
       /\ UndoAssumption

-----------------------------------------------------------------------------
(* Tags: check-in 1 starts the trunk; 2 and 3 follow; 4, child of 2,       *)
(* starts a branch; 5 is a child of 4 and 6 merges 5 into 3.  Later tags   *)
(* lie on later check-ins: the branch goes back to the trunk, check-in 5   *)
(* has none, check-in 3 moves to a branch of its own.                      *)
Star(branch, t) == [kind |-> "propagate", value |-> branch, time |-> t]
Minus(t) == [kind |-> "cancel", value |-> "trunk", time |-> t]

CheckIns == 1 .. 6
Values == {"trunk", "dev"}
ParentDef == <<Nil, 1, 2, 2, 4, 3>>
MergedDef == <<{}, {}, {}, {}, {}, {5}>>
CardDef == <<Star("trunk", 1), Nil, Nil, Star("dev", 4), Nil, Nil>>
Controls == {11, 12, 13}
OrderDef == [t \in Controls |->
               CASE t = 11 -> <<4, Star("trunk", 7)>>
                 [] t = 12 -> <<5, Minus(8)>>
                 [] t = 13 -> <<3, Star("dev", 9)>>]

(* IntBag: the keys collide in tables of 6 and 9 slots; a table grows 6,   *)
(* 18, 24, ... and shrinks through 9 and 12.                               *)
Keys == {1, 7, 13, 10, 2, 19}

(* Transaction: one process has two transactions before it closes.         *)
MaxTxnDef == [p \in Proc |-> IF p = p1 THEN 2 ELSE 1]

(* Undo: f changes in k1 and is removed in k2; g is new in both.       *)
FileDef == [c \in Leaf \cup {Root} |->
              IF c = Root THEN [p \in Path |-> IF p = f THEN "f0" ELSE "absent"]
              ELSE IF c = k1 THEN [p \in Path |-> IF p = f THEN "f1" ELSE "g1"]
              ELSE [p \in Path |-> IF p = f THEN "absent" ELSE "g2"]]

-----------------------------------------------------------------------------
InitOfParts ==
    /\ Init /\ TagsInit /\ BagInit /\ UndoInit
    /\ part \in {"transaction", "tags", "bag", "undo"}
    /\ part # "undo" => disk[g] = Text(Root, g)

NextOfParts ==
    /\ \/ part = "transaction" /\ Next /\ UNCHANGED <<tagsVars, bagVars, undoVars>>
       \/ part = "tags" /\ TagsNext /\ UNCHANGED <<vars, bagVars, undoVars>>
       \/ part = "bag" /\ BagStep /\ UNCHANGED <<vars, tagsVars, undoVars>>
       \/ part = "undo" /\ UndoNext /\ UNCHANGED <<vars, tagsVars, bagVars>>
    /\ UNCHANGED part

SpecOfParts == InitOfParts /\ [][NextOfParts]_<<vars, tagsVars, bagVars, part, undoVars>>
=============================================================================
