------------------------------ MODULE MCPurge ------------------------------
(* An instance of Purge: a and b are versions of one file, c is like b.    *)
EXTENDS Purge

Alike == {<<"a", "b">>, <<"b", "a">>, <<"b", "c">>}
=============================================================================
