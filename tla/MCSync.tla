------------------------------- MODULE MCSync -------------------------------
(* What two clients and a server exchange, in two parts of which the       *)
(* initial state chooses one.  "sync": alice commits a check-in of one     *)
(* file, bob makes another artifact and sometimes only pulls.  "uv":       *)
(* unversioned files, which keep their state in y1, y2, ... .              *)
EXTENDS Sync

CONSTANTS alice, bob, f, g, Name, Edits, Writers, Reverters, Room

VARIABLES part, y1, y2, y3, y4, y5, y6, y7, y8
uvVars == <<y1, y2, y3, y4, y5, y6, y7, y8>>

V == INSTANCE Unversioned WITH
    uv <- y1, cache <- y2, sess <- y3, request <- y4, reply <- y5, quiet <- y6,
    edits <- y7, faults <- y8

ASSUME V!UnversionedAssumption

-----------------------------------------------------------------------------
file == <<"file", 1>>
manifest == <<"manifest", 2>>
other == <<"file", 3>>
ArtifactsDef == {file, manifest, other}

RefsDef == [x \in File |-> IF x = manifest THEN {file} ELSE {}]
CommitsDef == {<<alice, {file, manifest}>>, <<bob, {other}>>}

Both == [push |-> TRUE, pull |-> TRUE]
Pull == [push |-> FALSE, pull |-> TRUE]
ModesDef == [c \in Client |-> IF c = bob THEN {Both, Pull} ELSE {Both}]

(* Unversioned: both have the same content of one file, of different       *)
(* times; alice removes hers at the time of bob's, and has another file.   *)
EditsDef == [r \in Repo |->
    CASE r = alice  -> <<<<"add", f, 1, 1>>, <<"add", g, 1, 1>>, <<"remove", f, 0, 2>>>>
      [] r = bob    -> <<<<"add", f, 1, 2>>>>
      [] r = Server -> <<>>]

-----------------------------------------------------------------------------
InitOfParts ==
    /\ Init
    /\ \/ /\ part = "sync"
          /\ y1 = 0 /\ y2 = 0 /\ y3 = 0 /\ y4 = 0 /\ y5 = 0 /\ y6 = 0 /\ y7 = 0 /\ y8 = 0
       \/ part = "uv" /\ V!Init

NextOfParts ==
    /\ \/ part = "sync" /\ Next /\ UNCHANGED uvVars
       \/ part = "uv" /\ V!Next /\ UNCHANGED vars
    /\ UNCHANGED part

(* The fairness of Sync and of Unversioned, each of its part.              *)
FairnessOfParts ==
    \A c \in Client :
       /\ \A at \in {"ready", "sent", "answered"} :
            []<>IF part = "sync" THEN sess[c].pc # at ELSE y3[c].pc # at
       /\ \/ <>[](part = "sync" /\ sess[c].pc # "idle")
          \/ []<>IF part = "sync" THEN sess[c].pc # "idle" /\ sess[c].push /\ sess[c].pull
                 ELSE y3[c].pc # "idle"

SpecOfParts == InitOfParts /\ [][NextOfParts]_<<vars, part, uvVars>> /\ FairnessOfParts

-----------------------------------------------------------------------------
(* The properties of Unversioned, of its part, with the type of its state. *)
SyncKeepsNewest ==
    [][part = "uv" => V!TypeOK' /\ V!KeepsNewest /\ V!SyncCompletes]_<<vars, part, uvVars>>
UvConverges == <>[](part = "uv" => V!SameFiles)
=============================================================================
