------------------------------ MODULE MCAlerts ------------------------------
(* An instance of Alerts: two posts p and q and an attachment att, with the *)
(* file that it attaches, of users; x comes from a peer.  Two of them come  *)
(* into play.  One subscriber is a moderator, one gets the digest.          *)
EXTENDS Alerts

CONSTANTS p, q, att, file, x, ann, mod, day

FileDef == [a \in {att} |-> file]
AttachedDef == [a \in {att} |-> p]
CastsDef == {{p, q}, {p, x}, {p, att}}
=============================================================================
