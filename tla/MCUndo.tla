------------------------------- MODULE MCUndo -------------------------------
EXTENDS Undo

CONSTANTS f, g, r, a, b

(* f changes in a and is removed in b; g is new in a and in b.             *)
MCFile == [v \in Version |->
             IF v = r THEN [p \in Path |-> IF p = f THEN "f0" ELSE "absent"]
             ELSE IF v = a THEN [p \in Path |-> IF p = f THEN "f1" ELSE "g1"]
             ELSE [p \in Path |-> IF p = f THEN "absent" ELSE "g2"]]
=============================================================================
