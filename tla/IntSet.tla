------------------------------- MODULE IntSet -------------------------------
(* What a "bag" of src/src/bag.c promises: "an unordered collection        *)
(* without duplicates" of positive integers, with the answer of each call. *)
EXTENDS Naturals, FiniteSets

CONSTANT Key

VARIABLES members, reply
vars == <<members, reply>>

Init == members = {} /\ reply = 0

Insert(e) == /\ members' = members \cup {e}
             /\ reply' = IF e \in members THEN 0 ELSE 1
Remove(e) == /\ members' = members \ {e}
             /\ reply' = 0
Find(e)   == /\ reply' = IF e \in members THEN 1 ELSE 0
             /\ UNCHANGED members
Count     == /\ reply' = Cardinality(members)
             /\ UNCHANGED members
Clear     == members' = {} /\ reply' = 0

Next == \/ \E e \in Key : Insert(e) \/ Remove(e) \/ Find(e)
        \/ Count \/ Clear

Spec == Init /\ [][Next]_vars
=============================================================================
