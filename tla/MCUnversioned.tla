--------------------------- MODULE MCUnversioned ----------------------------
(* An instance of Unversioned: bob has a newer version of alice's file,    *)
(* and alice touches hers.                                                 *)
EXTENDS Unversioned

CONSTANTS alice, bob, server, f

EditsTouch == [r \in Repo |->
    CASE r = alice  -> <<<<"add", f, 1, 1>>, <<"touch", f, 0, 3>>>>
      [] r = bob    -> <<<<"add", f, 2, 2>>>>
      [] r = server -> <<>>]
=============================================================================
