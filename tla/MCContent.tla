------------------------------ MODULE MCContent ------------------------------
(* Model-checking instances of Content.  root is a check-in without parent, *)
(* base its child, and dm a delta-manifest of base, with parent base.       *)
EXTENDS Content

CONSTANTS root, base, dm, p1, p2

BaselineDef == [a \in Artifact |-> IF a = dm THEN base ELSE None]
ParentDef == [a \in Artifact |->
                CASE a = base -> root
                  [] a = dm -> base
                  [] OTHER -> None]
(* Peers send root as a delta of what is newer, and dm as a delta of root. *)
(* No deltas that name each other.                                         *)
Sendable == {<<root, base>>, <<dm, root>>}

(* One process, with nothing shunned and nothing private; or with root     *)
(* shunned, which peers name as a delta source all the same, and private   *)
(* content; or while wrong bytes come for root, which dm is a delta of and *)
(* which is itself sent as a delta of base; or two processes, while root   *)
(* is shunned.  Unkilled is for the instance in which no process is killed.*)
Kind(s, priv, arts, wrongs, procs) ==
    [shun |-> s, private |-> priv, sent |-> arts, faulty |-> wrongs, active |-> procs]
Together == Kind({root}, FALSE, {base, dm}, {}, {p1, p2})
Setups == {Kind({}, FALSE, Artifact, {}, {p1}), Kind({root}, TRUE, Artifact, {}, {p1}),
           Kind({}, FALSE, {root, base}, {root}, {p1}),
           Kind({}, FALSE, {root, dm}, {root}, {p1}), Together}
Unkilled == {Kind({}, FALSE, Artifact, {}, {p1, p2})}
=============================================================================
