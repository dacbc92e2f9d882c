----------------------------- MODULE AtomicStore -----------------------------
(***************************************************************************)
(* What the transactions of db.c promise to the rest of the program: one   *)
(* process at a time gathers artifacts, any of the nested calls may refuse *)
(* them, and at the outermost end they enter the repository together - all *)
(* of them, each with its content verified - or not at all.                *)
(***************************************************************************)
CONSTANTS Proc, Artifact

VARIABLES
    store,    \* the artifacts of the repository
    todo,     \* what each process has gathered in its open transaction
    broken,   \* ... those among them whose content cannot be read back
    refused   \* some level of the transaction asked for a rollback

vars == <<store, todo, broken, refused>>

Init ==
    /\ store = {}
    /\ todo = [p \in Proc |-> {}]
    /\ broken = [p \in Proc |-> {}]
    /\ refused = [p \in Proc |-> FALSE]

Gather(p, a) ==
    /\ a \notin store
    /\ \A q \in Proc \ {p} : todo[q] = {}
    /\ todo' = [todo EXCEPT ![p] = @ \cup {a}]
    /\ \/ UNCHANGED broken
       \/ broken' = [broken EXCEPT ![p] = @ \cup {a}]
    /\ UNCHANGED <<store, refused>>

Refuse(p) ==
    /\ refused' = [refused EXCEPT ![p] = TRUE]
    /\ UNCHANGED <<store, todo, broken>>

Clear(p) ==
    /\ todo' = [todo EXCEPT ![p] = {}]
    /\ broken' = [broken EXCEPT ![p] = {}]
    /\ refused' = [refused EXCEPT ![p] = FALSE]

Commit(p) ==
    /\ ~refused[p]
    /\ broken[p] = {}
    /\ store' = store \cup todo[p]
    /\ Clear(p)

Abort(p) == Clear(p) /\ UNCHANGED store

Next == \E p \in Proc : \/ \E a \in Artifact : Gather(p, a)
                        \/ Refuse(p)
                        \/ Commit(p)
                        \/ Abort(p)

Spec == Init /\ [][Next]_vars
=============================================================================
