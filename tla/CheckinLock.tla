---------------------------- MODULE CheckinLock -----------------------------
(***************************************************************************)
(* Check-in locks: "fossil commit" of several clients that auto-sync with  *)
(* one server (src/src/checkin.c, sync.c), and the pragmas ci-lock,        *)
(* ci-unlock and ci-lock-fail (src/src/xfer.c) by which the server warns a *)
(* client that another one is about to commit against the same check-in.   *)
(*                                                                         *)
(* A check-in is the sequence of its parent, and who made it.  All are on  *)
(* one branch, so that a check-in with a child is not a leaf.  Notes stand *)
(* for everything else that a sync transfers.                              *)
(***************************************************************************)
EXTENDS Naturals, Sequences, FiniteSets

CONSTANTS
    Client, Server,
    Busy,       \* the clients whose users do not give up
    Root,       \* the check-in that all have at the start
    Notes,      \* other artifacts that appear at the server
    MaxCommits, \* MaxCommits[c]: so many check-ins does c make
    OneMessage, \* does every new check-in fit into the first message of a push
    MaxFaults   \* bound on lost exchanges, killed and aborted commands, and
                \* on locks that time out under a commit

Repo == Client \cup {Server}

CheckinLockAssumption ==
    /\ Server \notin Client /\ IsFiniteSet(Client) /\ Busy \subseteq Client
    /\ Root = <<Root[1]>> /\ \A n \in Notes : n = <<n[1]>> /\ n # Root
    /\ MaxCommits \in [Client -> Nat]
    /\ OneMessage \in BOOLEAN /\ MaxFaults \in Nat

VARIABLES
    has,      \* per repository: its check-ins and notes
    base,     \* per client: the check-in that is checked out
    lock,     \* at the server, per locked check-in: the client, is it too old
    cmd,      \* per client: the command that runs, and its sync
    lost,     \* was a lock lost with a commit pending: did it time out, did an
              \* exchange fail, or did the client itself give it back
    faults

vars == <<has, base, lock, cmd, lost, faults>>

(* cmd[c].pc is "idle"; "send" or "got" within a sync; "edit" when the     *)
(* comment is being edited.  cmd[c].name is the reason of the sync: the    *)
(* "first" or the "second" auto-pull of a commit, its "push", an "update". *)
NoReply == [files |-> {}, igots |-> {}, fail |-> FALSE]
NoCommand == [pc |-> "idle", name |-> "none", round |-> 0, phantom |-> {},
              queued |-> FALSE, fail |-> FALSE, reply |-> NoReply]
Command(name) == [NoCommand EXCEPT !.pc = "send", !.name = name]

CheckinsOf(c, S) == {x \in S : x[Len(x)] = c}
Unsent(c) == CheckinsOf(c, has[c]) \ has[Server]

(* is_a_leaf() in a repository that has S.                                 *)
IsALeaf(x, S) == ~\E y \in S : Len(y) = Len(x) + 1 /\ SubSeq(y, 1, Len(x)) = x

Committing(c) == cmd[c].name \in {"first", "second", "push"}

TypeOK ==
    /\ \A r \in Repo : Root \in has[r]
    /\ \A c \in Client :
         /\ base[c] \in has[c]
         /\ cmd[c].pc \in {"idle", "send", "got", "edit"}
         /\ cmd[c].pc = "idle" <=> cmd[c].name = "none"
         /\ cmd[c].pc = "edit" => cmd[c].name = "first" /\ ~cmd[c].fail
         /\ has[c] \subseteq has[Server] \cup CheckinsOf(c, has[c])
         /\ cmd[c].reply.files \subseteq cmd[c].phantom
    /\ \A x \in DOMAIN lock : lock[x].client \in Client /\ lock[x].old \in BOOLEAN
    /\ faults \in 0 .. MaxFaults

Init ==
    /\ has = [r \in Repo |-> {Root}]
    /\ base = [c \in Client |-> Root]
    /\ lock = <<>>
    /\ cmd = [c \in Client |-> NoCommand]
    /\ lost = FALSE /\ faults = 0

-----------------------------------------------------------------------------
(* The server's part (page_xfer).                                          *)

Without(locks, X) == [x \in DOMAIN locks \ X |-> locks[x]]

(* pragma ci-lock: locks too old, or of no leaf, are removed; that of      *)
(* another client is a failure, one's own is left as it is.                *)
(* Broken variant: locks do not expire.                                    *)
Stale_Leaf(S) == {x \in DOMAIN lock : ~IsALeaf(x, S)}
Stale(S) == {x \in DOMAIN lock : lock[x].old \/ ~IsALeaf(x, S)}
LockFails(c, x) == x \in DOMAIN lock \ Stale(has[Server]) /\ lock[x].client # c

(* Broken variant: the lock of another client is replaced.                 *)
CiLock_Replace(c, x) ==
    [y \in (DOMAIN lock \ Stale(has[Server])) \cup {x} |->
       IF y = x THEN [client |-> c, old |-> FALSE] ELSE lock[y]]
CiLock(c, x) ==
    LET kept == Without(lock, Stale(has[Server]))
    IN  [y \in DOMAIN kept \cup {x} |->
           IF y \in DOMAIN kept THEN kept[y] ELSE [client |-> c, old |-> FALSE]]

(* pragma ci-unlock.                                                       *)
CiUnlock(c) == Without(lock, {x \in DOMAIN lock : lock[x].client = c})

(* The first request of an auto-pull for a commit asks for the lock; every *)
(* other request, the second one of the same sync too, gives it back.      *)
Locks(c) == cmd[c].name \in {"first", "second"} /\ cmd[c].round = 0
GivesBackEarly(c) == cmd[c].name \in {"first", "second"} /\ ~Locks(c)

(* A request and what the server does about it.  The files of a push that  *)
(* does not fit into one message are announced first, and sent on demand.  *)
Serve(c, fits) ==
    LET d == cmd[c]
        pushed == IF d.name = "push" /\ (d.queued \/ fits) THEN Unsent(c) ELSE {}
    IN  /\ d.pc = "send"
        /\ ~fits => d.name = "push" /\ ~OneMessage /\ ~d.queued /\ Unsent(c) # {}
        /\ has' = [has EXCEPT ![Server] = @ \cup pushed]
        /\ lock' = IF Locks(c) THEN CiLock(c, base[c]) ELSE CiUnlock(c)
        /\ cmd' = [cmd EXCEPT ![c].pc = "got",
                              ![c].queued = ~fits,
                              ![c].reply = [files |-> d.phantom \cap has[Server],
                                            igots |-> has[Server],
                                            fail |-> Locks(c) /\ LockFails(c, base[c])]]
        /\ lost' = (lost \/ GivesBackEarly(c))
        /\ UNCHANGED <<base, faults>>

Note(n) ==
    /\ n \in Notes \ has[Server]
    /\ has' = [has EXCEPT ![Server] = @ \cup {n}]
    /\ UNCHANGED <<base, lock, cmd, lost, faults>>

(* lock-timeout seconds have gone by, which counts as a fault when it      *)
(* happens in the course of a commit.                                      *)
Timeout(x) ==
    LET c == lock[x].client
    IN  /\ x \in DOMAIN lock /\ ~lock[x].old
        /\ Committing(c) => faults < MaxFaults
        /\ lock' = [lock EXCEPT ![x].old = TRUE]
        /\ lost' = (lost \/ Committing(c) \/ Unsent(c) # {})
        /\ faults' = IF Committing(c) THEN faults + 1 ELSE faults
        /\ UNCHANGED <<has, base, cmd>>

-----------------------------------------------------------------------------
(* The client's part.                                                      *)

End(c) == cmd' = [cmd EXCEPT ![c] = NoCommand]

(* "fossil commit" and "fossil update" begin with an auto-pull.            *)
Begin(c, name) ==
    /\ cmd[c].pc = "idle"
    /\ name = "first" => Cardinality(CheckinsOf(c, has[c])) < MaxCommits[c]
    /\ cmd' = [cmd EXCEPT ![c] = Command(name)]
    /\ UNCHANGED <<has, base, lock, lost, faults>>

(* Would the check-in fork?  commit_cmd() asks after each auto-pull.       *)
MayCommit(c, S, fail) == IsALeaf(base[c], S) /\ ~fail

(* The new check-in, in one transaction, and the auto-sync that follows.   *)
(* Broken variant: the check-in is not in the repository when it is        *)
(* checked out.                                                            *)
CommitAs_NotStored(c, S) ==
    /\ has' = [has EXCEPT ![c] = S]
    /\ base' = [base EXCEPT ![c] = Append(base[c], c)]
    /\ cmd' = [cmd EXCEPT ![c] = Command("push")]
CommitAs(c, S) ==
    LET new == Append(base[c], c)
    IN  /\ has' = [has EXCEPT ![c] = S \cup {new}]
        /\ base' = [base EXCEPT ![c] = new]
        /\ cmd' = [cmd EXCEPT ![c] = Command("push")]

(* What follows an auto-pull that has made S of the repository.  With      *)
(* option -m the comment is there already, otherwise it is edited now.     *)
Proceed(c, S, fail) ==
    \/ ~MayCommit(c, S, fail) /\ has' = [has EXCEPT ![c] = S] /\ End(c) /\ UNCHANGED base
    \/ MayCommit(c, S, fail) /\ CommitAs(c, S)
    \/ /\ MayCommit(c, S, fail) /\ cmd[c].name = "first"
       /\ has' = [has EXCEPT ![c] = S]
       /\ cmd' = [cmd EXCEPT ![c] = [NoCommand EXCEPT !.pc = "edit", !.name = "first"]]
       /\ UNCHANGED base

(* The newest check-in below the one that is checked out.                  *)
Newest(c, S) ==
    {y \in S : /\ Len(y) >= Len(base[c]) /\ SubSeq(y, 1, Len(base[c])) = base[c]
               /\ IsALeaf(y, S)}

(* The reply: another round when there is something new, or something to   *)
(* send; otherwise the command goes on.                                    *)
Receive(c) ==
    LET d == cmd[c]
        S == has[c] \cup d.reply.files
        phantom == d.reply.igots \ S
        fail == d.fail \/ d.reply.fail
    IN  /\ d.pc = "got"
        /\ IF phantom # {} \/ d.queued
           THEN /\ has' = [has EXCEPT ![c] = S]
                /\ cmd' = [cmd EXCEPT ![c] = [d EXCEPT !.pc = "send", !.round = 1,
                              !.phantom = phantom, !.fail = fail, !.reply = NoReply]]
                /\ UNCHANGED base
           ELSE CASE d.name \in {"first", "second"} -> Proceed(c, S, fail)
                  [] d.name = "push" ->
                       has' = [has EXCEPT ![c] = S] /\ End(c) /\ UNCHANGED base
                  [] OTHER ->
                       /\ has' = [has EXCEPT ![c] = S] /\ End(c)
                       /\ \E x \in Newest(c, S) : base' = [base EXCEPT ![c] = x]
        /\ UNCHANGED <<lock, lost, faults>>

(* The comment is there: the second auto-pull.                             *)
Edited(c) ==
    /\ cmd[c].pc = "edit"
    /\ cmd' = [cmd EXCEPT ![c] = Command("second")]
    /\ UNCHANGED <<has, base, lock, lost, faults>>

(* The exchange fails, before or after the server has done its part.  The  *)
(* user may go on with the commit all the same.                            *)
Fail(c) ==
    /\ cmd[c].pc \in {"send", "got"} /\ faults < MaxFaults
    /\ faults' = faults + 1
    /\ \/ End(c) /\ lost' = (lost \/ Unsent(c) # {}) /\ UNCHANGED <<has, base>>
       \/ /\ cmd[c].name \in {"first", "second"}
          /\ Proceed(c, has[c], cmd[c].fail) /\ lost' = TRUE
    /\ UNCHANGED lock

(* The command is killed, or given up while the comment is being edited.   *)
Kill(c) ==
    /\ cmd[c].pc # "idle" /\ faults < MaxFaults
    /\ faults' = faults + 1
    /\ lost' = (lost \/ Unsent(c) # {})
    /\ End(c)
    /\ UNCHANGED <<has, base, lock>>

Next ==
    \/ \E n \in Notes : Note(n)
    \/ \E x \in DOMAIN lock : Timeout(x)
    \/ \E c \in Client :
         \/ \E name \in {"first", "update", "push"} : Begin(c, name)
         \/ \E fits \in BOOLEAN : Serve(c, fits)
         \/ Receive(c) \/ Edited(c) \/ Fail(c) \/ Kill(c)

Spec == Init /\ [][Next]_vars

(* Commands go on, locks get old, and a busy user tries to commit, updates *)
(* and syncs, again and again; the others may leave after any command.     *)
Fairness ==
    /\ WF_vars(\E x \in DOMAIN lock : Timeout(x))
    /\ \A c \in Client :
         /\ WF_vars(Serve(c, TRUE)) /\ WF_vars(Receive(c)) /\ WF_vars(Edited(c))
         /\ c \in Busy => \A name \in {"first", "update", "push"} : SF_vars(Begin(c, name))

LiveSpec == Spec /\ Fairness

-----------------------------------------------------------------------------
Forks(S) == {x \in S : Cardinality({y \in S : Len(y) = Len(x) + 1
                                              /\ SubSeq(y, 1, Len(x)) = x}) > 1}

(* "Check-in locks are an advisory mechanism designed to help prevent      *)
(* accidental forks due to a check-in race" (db.c:5007), and they "expire  *)
(* when the check-in actually occurs, or after a timeout"                  *)
(* (sync.wiki:792): two clients make children of one check-in only if a    *)
(* lock timed out under a commit, an exchange failed and the user went on, *)
(* a commit was left without its push, or its auto-pull took two rounds:   *)
(* the second gives the lock back although the client "will have some      *)
(* pending commits soon" (xfer.c:1776-1778).                               *)
ForksAreExcused == ~lost => Forks(has[Server]) = {}

(* The check-ins of a client have got to the server.                       *)
Arrived(c) == Cardinality(CheckinsOf(c, has[Server])) = MaxCommits[c]
=============================================================================
