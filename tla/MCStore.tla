------------------------------ MODULE MCStore -------------------------------
(* What stores artifacts and what takes them away, checked in one run: the *)
(* initial state chooses between Content, in the instance of MCContent,    *)
(* and Purge, which keeps its state in x1, x2, ...                         *)
EXTENDS MCContent

CONSTANTS (* Purge *) Item, Announced, ItemSource, Similar, Shunnable, MaxRid, MaxItem

VARIABLES part, x1, x2, x3, x4, x5, x6
others == <<x1, x2, x3, x4, x5, x6>>

P == INSTANCE Purge WITH
    Artifact <- Item, DeltaSource <- ItemSource, row <- x1, grave <- x2,
    shun <- x3, owed <- x4, doubtful <- x5, stray <- x6

ASSUME P!PurgeAssumption

(* Purge: a and b are versions of one file, c is like b.  b may be         *)
(* announced without coming, or come too late for its delta.               *)
Alike == {<<"a", "b">>, <<"b", "a">>, <<"b", "c">>}
Deltas == {<<"a", "b">>}

-----------------------------------------------------------------------------
InitOfParts ==
    /\ Init
    /\ \/ /\ part = "content"
          /\ x1 = 0 /\ x2 = 0 /\ x3 = 0 /\ x4 = 0 /\ x5 = 0 /\ x6 = 0
       \/ part = "purge" /\ P!Init /\ active = {p1, p2}

NextOfParts ==
    /\ \/ part = "content" /\ Next /\ UNCHANGED others
       \/ part = "purge" /\ P!Next /\ UNCHANGED vars
    /\ UNCHANGED part

SpecOfParts == InitOfParts /\ [][NextOfParts]_<<vars, part, others>>

-----------------------------------------------------------------------------
(* The properties of Purge, with the types of its state.                   *)
NothingIsLost == part = "purge" => P!TypeOK /\ P!NothingIsLost
ReadableIsRight == part = "purge" => P!ReadableIsRight
=============================================================================
