-------------------------- MODULE CheckinLockProofs --------------------------
(***************************************************************************)
(* Theorems about module CheckinLock: for any number of clients, check-ins *)
(* and faults, as long as no lock is lost with a commit pending nobody     *)
(* forks.                                                                  *)
(***************************************************************************)
EXTENDS CheckinLock, SequenceTheorems, FiniteSetTheorems, TLAPS

-----------------------------------------------------------------------------
(* Check-ins and notes as sequences.                                       *)
Symbol == Client \cup {Root[1]} \cup {n[1] : n \in Notes}
Id == {s \in Seq(Symbol) : Len(s) > 0}

Child(y, x) == Len(y) = Len(x) + 1 /\ SubSeq(y, 1, Len(x)) = x

LEMMA LeafDef == \A x, S : IsALeaf(x, S) <=> ~\E y \in S : Child(y, x)
BY DEF IsALeaf, Child

LEMMA OneParent == ASSUME NEW x \in Id, NEW y \in Id, NEW z, Child(z, x), Child(z, y)
                   PROVE  x = y
<1>1. Len(x) \in Nat /\ Len(y) \in Nat
  BY LenProperties DEF Id
<1> QED BY <1>1 DEF Child

LEMMA NewCheckin ==
    ASSUME NEW x \in Id, NEW c \in Client
    PROVE  /\ Append(x, c) \in Id /\ Child(Append(x, c), x)
           /\ Append(x, c)[Len(Append(x, c))] = c
           /\ Len(Append(x, c)) > 1
<1> DEFINE y == Append(x, c)
<1>1. x \in Seq(Symbol) /\ Len(x) \in Nat /\ Len(x) > 0 /\ c \in Symbol
  BY LenProperties DEF Id, Symbol
<1>2. y \in Seq(Symbol) /\ Len(y) = Len(x) + 1
      /\ (\A k \in 1 .. Len(x) : y[k] = x[k]) /\ y[Len(x) + 1] = c
  BY <1>1
<1> HIDE DEF y
<1>3. /\ SubSeq(y, 1, Len(x)) \in Seq(Symbol) /\ Len(SubSeq(y, 1, Len(x))) = Len(x)
      /\ \A k \in 1 .. Len(x) : SubSeq(y, 1, Len(x))[k] = x[k]
  <2>1. \A k \in 1 .. Len(x) : y[k] \in Symbol
    BY <1>1, <1>2, ElementOfSeq
  <2> QED BY <1>1, <1>2, <2>1, SubSeqProperties
<1>4. SubSeq(y, 1, Len(x)) = x
  BY <1>1, <1>3, SeqEqual
<1> QED BY <1>1, <1>2, <1>4 DEF Child, Id, y

LEMMA Short ==
    ASSUME CheckinLockAssumption, NEW n \in Notes \cup {Root}
    PROVE  n \in Id /\ Len(n) = 1 /\ \A x \in Id : ~Child(n, x)
<1>1. n = <<n[1]>> /\ n[1] \in Symbol
  BY DEF CheckinLockAssumption, Symbol
<1>2. n \in Seq(Symbol) /\ Len(n) = 1
  <2>1. \A e \in Symbol : <<e>> \in Seq(Symbol) /\ Len(<<e>>) = 1
    OBVIOUS
  <2>2. PICK e : e = n[1]
    OBVIOUS
  <2> QED BY <1>1, <2>1, <2>2
<1>3. \A x \in Id : Len(x) \in Nat /\ Len(x) > 0
  BY LenProperties DEF Id
<1> QED BY <1>2, <1>3 DEF Child, Id

-----------------------------------------------------------------------------
(* The records that the variables are made of.                             *)
Reply == [files : SUBSET Id, igots : SUBSET Id, fail : BOOLEAN]
Cmd == [pc : {"idle", "send", "got", "edit"},
        name : {"none", "first", "second", "push", "update"}, round : 0 .. 1,
        phantom : SUBSET Id, queued : BOOLEAN, fail : BOOLEAN, reply : Reply]

Typed ==
    /\ has \in [Repo -> SUBSET Id]
    /\ base \in [Client -> Id]
    /\ DOMAIN lock \subseteq Id
    /\ \A x \in DOMAIN lock : lock[x] \in [client : Client, old : BOOLEAN]
    /\ cmd \in [Client -> Cmd]
    /\ lost \in BOOLEAN /\ faults \in 0 .. MaxFaults

(* What a client has is known to the server or its own; what it is sent,   *)
(* it asked for; and a command is what its name says.                      *)
Consistent(c) ==
    /\ Root \in has[c] /\ base[c] \in has[c]
    /\ has[c] \subseteq has[Server] \cup CheckinsOf(c, has[c])
    /\ cmd[c].reply.files \subseteq has[Server] \cap cmd[c].phantom
    /\ cmd[c].pc = "idle" <=> cmd[c].name = "none"
    /\ cmd[c].pc = "edit" => cmd[c].name = "first" /\ ~cmd[c].fail

Sane == Typed /\ Root \in has[Server] /\ \A c \in Client : Consistent(c)

LEMMA NoCommandType == ASSUME CheckinLockAssumption
                       PROVE  /\ NoCommand \in Cmd /\ NoReply \in Reply
                              /\ NoReply.files = {}
                              /\ NoCommand.pc = "idle" /\ NoCommand.name = "none"
                              /\ NoCommand.reply.files = {}
BY DEF NoCommand, NoReply, Cmd, Reply

LEMMA CommandType ==
    ASSUME CheckinLockAssumption, NEW name \in {"first", "second", "push", "update"}
    PROVE  /\ Command(name) \in Cmd /\ Command(name).pc = "send" /\ Command(name).name = name
           /\ Command(name).round = 0
           /\ Command(name).reply.files = {}
<1>1. NoCommand \in Cmd /\ NoCommand.reply.files = {} /\ NoCommand.round = 0
  BY NoCommandType DEF NoCommand
<1> HIDE DEF NoCommand
<1> QED BY <1>1 DEF Command, Cmd

(* A client whose command has changed in a consistent way.                 *)
LEMMA StaysConsistent ==
    ASSUME NEW c \in Client, Consistent(c), Typed,
           has'[c] = has[c], base'[c] = base[c], has[Server] \subseteq has'[Server],
           \/ cmd'[c] = cmd[c]
           \/ /\ cmd'[c].reply.files \subseteq has'[Server] \cap cmd'[c].phantom
              /\ (cmd'[c].pc = "idle") <=> (cmd'[c].name = "none")
              /\ cmd'[c].pc # "edit"
    PROVE  Consistent(c)'
BY DEF Consistent, CheckinsOf

LEMMA InitSane == ASSUME CheckinLockAssumption, Init
                  PROVE  Sane
<1>1. Root \in Id /\ \A n \in Notes : n \in Id
  BY Short
<1>2. Typed
  <2>1. DOMAIN lock = {}
    BY DEF Init
  <2>2. lost \in BOOLEAN /\ faults \in 0 .. MaxFaults
    <3>1. lost = FALSE /\ faults = 0 /\ MaxFaults \in Nat
      BY DEF Init, CheckinLockAssumption
    <3>2. faults \in 0 .. MaxFaults
      BY <3>1
    <3>3. lost \in BOOLEAN
      BY <3>1
    <3> QED BY <3>2, <3>3
  <2> QED BY <1>1, <2>1, <2>2, NoCommandType DEF Typed, Init
<1>3. \A c \in Client : Consistent(c)
  BY NoCommandType DEF Consistent, Init, Repo, CheckinsOf
<1> QED BY <1>2, <1>3 DEF Sane, Init, Repo

LEMMA NoteSane == ASSUME CheckinLockAssumption, Sane, NEW n \in Notes, Note(n)
                  PROVE  Sane'
<1>1. n \in Id
  BY Short
<1>2. has' = [has EXCEPT ![Server] = @ \cup {n}] /\ UNCHANGED <<base, lock, cmd, lost, faults>>
  BY DEF Note
<1>3. Typed'
  BY <1>1, <1>2 DEF Sane, Typed
<1>4. \A c \in Client : has'[c] = has[c] /\ has[Server] \subseteq has'[Server]
  BY <1>2 DEF Sane, Typed, Repo, CheckinLockAssumption
<1>5. \A c \in Client : Consistent(c)'
  BY <1>2, <1>4, StaysConsistent DEF Sane
<1> QED BY <1>2, <1>3, <1>4, <1>5 DEF Sane, Typed, Repo

LEMMA TimeoutSane == ASSUME CheckinLockAssumption, Sane, NEW x \in DOMAIN lock, Timeout(x)
                     PROVE  Sane'
<1>1. /\ lock' = [lock EXCEPT ![x].old = TRUE] /\ UNCHANGED <<has, base, cmd>>
      /\ lost' \in BOOLEAN
  BY DEF Timeout, Committing
<1>2. faults' \in 0 .. MaxFaults
  BY DEF Timeout, Sane, Typed, CheckinLockAssumption
<1>3. DOMAIN lock' = DOMAIN lock
      /\ \A y \in DOMAIN lock' : lock'[y] \in [client : Client, old : BOOLEAN]
  BY <1>1 DEF Sane, Typed
<1>4. Typed'
  BY <1>1, <1>2, <1>3 DEF Sane, Typed
<1>5. \A c \in Client : Consistent(c)'
  BY <1>1, StaysConsistent DEF Sane
<1> QED BY <1>1, <1>4, <1>5 DEF Sane

LEMMA BeginSane ==
    ASSUME CheckinLockAssumption, Sane, NEW c \in Client,
           NEW name \in {"first", "update", "push"}, Begin(c, name) \/ Edited(c)
    PROVE  Sane'
<1>1. PICK n \in {"first", "second", "update", "push"} : cmd' = [cmd EXCEPT ![c] = Command(n)]
  BY DEF Begin, Edited
<1>2. UNCHANGED <<has, base, lock, lost, faults>>
  BY DEF Begin, Edited
<1>3. Typed'
  BY <1>1, <1>2, CommandType DEF Sane, Typed
<1>4. \A d \in Client \ {c} : cmd'[d] = cmd[d]
  BY <1>1 DEF Sane, Typed
<1>5. cmd'[c] = Command(n)
  BY <1>1 DEF Sane, Typed
<1>6. Consistent(c)'
  BY <1>2, <1>5, CommandType, StaysConsistent DEF Sane
<1>7. \A d \in Client \ {c} : Consistent(d)'
  BY <1>2, <1>4, StaysConsistent DEF Sane
<1> QED BY <1>2, <1>3, <1>6, <1>7 DEF Sane

(* What the server does for one client.                                    *)
LEMMA LockTypes ==
    ASSUME CheckinLockAssumption, Typed, NEW c \in Client,
           lock' = CiLock(c, base[c]) \/ lock' = CiUnlock(c)
    PROVE  /\ DOMAIN lock' \subseteq Id
           /\ \A x \in DOMAIN lock' : lock'[x] \in [client : Client, old : BOOLEAN]
<1>1. base[c] \in Id /\ DOMAIN lock \subseteq Id
      /\ \A x \in DOMAIN lock : lock[x] \in [client : Client, old : BOOLEAN]
  BY DEF Typed
<1>2. CASE lock' = CiUnlock(c)
  BY <1>1, <1>2 DEF CiUnlock, Without
<1>3. CASE lock' = CiLock(c, base[c])
  <2>1. [client |-> c, old |-> FALSE] \in [client : Client, old : BOOLEAN]
    OBVIOUS
  <2> DEFINE new == [client |-> c, old |-> FALSE]
  <2> HIDE DEF new
  <2>2. DOMAIN lock' \subseteq DOMAIN lock \cup {base[c]}
        /\ \A x \in DOMAIN lock' : (lock'[x] = lock[x] /\ x \in DOMAIN lock) \/ lock'[x] = new
    BY <1>3 DEF CiLock, Without, new
  <2> QED BY <1>1, <2>1, <2>2 DEF new
<1> QED BY <1>2, <1>3

LEMMA ServeSteps ==
    ASSUME CheckinLockAssumption, Sane, NEW c \in Client, NEW fits \in BOOLEAN, Serve(c, fits)
    PROVE  /\ \E pushed \in SUBSET has[c] : has'[Server] = has[Server] \cup pushed
           /\ \A d \in Client : has'[d] = has[d]
           /\ has' \in [Repo -> SUBSET Id]
           /\ \A d \in Client \ {c} : cmd'[d] = cmd[d]
           /\ cmd' \in [Client -> Cmd]
           /\ cmd[c].pc = "send" /\ cmd'[c].pc = "got"
           /\ cmd'[c].name = cmd[c].name /\ cmd'[c].round = cmd[c].round
           /\ cmd'[c].reply.files = cmd[c].phantom \cap has[Server]
           /\ cmd'[c].reply.igots = has[Server]
           /\ cmd'[c].reply.fail = (Locks(c) /\ LockFails(c, base[c]))
           /\ cmd'[c].phantom = cmd[c].phantom
<1> DEFINE r == [files |-> cmd[c].phantom \cap has[Server], igots |-> has[Server],
                 fail |-> Locks(c) /\ LockFails(c, base[c])]
           pushed == IF cmd[c].name = "push" /\ (cmd[c].queued \/ fits) THEN Unsent(c) ELSE {}
<1>1. /\ has \in [Repo -> SUBSET Id] /\ cmd \in [Client -> Cmd] /\ cmd[c] \in Cmd
      /\ Server \notin Client /\ Server \in Repo /\ Client \subseteq Repo
  BY DEF Sane, Typed, Repo, CheckinLockAssumption
<1>2. pushed \in SUBSET has[c]
  BY DEF Unsent, CheckinsOf
<1>3. r \in Reply /\ r.files = cmd[c].phantom \cap has[Server] /\ r.igots = has[Server]
      /\ r.fail = (Locks(c) /\ LockFails(c, base[c]))
  <2>1. (Locks(c) /\ LockFails(c, base[c])) \in BOOLEAN
    BY DEF Locks, LockFails
  <2>2. cmd[c].phantom \cap has[Server] \in SUBSET Id /\ has[Server] \in SUBSET Id
    BY <1>1 DEF Cmd
  <2> QED BY <2>1, <2>2 DEF Reply
<1>4. /\ cmd[c].pc = "send"
      /\ has' = [has EXCEPT ![Server] = @ \cup pushed]
      /\ cmd' = [cmd EXCEPT ![c].pc = "got", ![c].queued = ~fits, ![c].reply = r]
  BY DEF Serve
<1> HIDE DEF r, pushed
<1>5. has' \in [Repo -> SUBSET Id] /\ has'[Server] = has[Server] \cup pushed
      /\ \A d \in Client : has'[d] = has[d]
  BY <1>1, <1>2, <1>4
<1>6. cmd' \in [Client -> Cmd]
  BY <1>1, <1>3, <1>4 DEF Cmd
<1>7. (\A d \in Client \ {c} : cmd'[d] = cmd[d]) /\ cmd'[c].pc = "got"
      /\ cmd'[c].name = cmd[c].name /\ cmd'[c].round = cmd[c].round
      /\ cmd'[c].reply = r /\ cmd'[c].phantom = cmd[c].phantom
  BY <1>1, <1>4 DEF Cmd
<1> QED BY <1>2, <1>3, <1>4, <1>5, <1>6, <1>7

LEMMA ServeSane ==
    ASSUME CheckinLockAssumption, Sane, NEW c \in Client, NEW fits \in BOOLEAN, Serve(c, fits)
    PROVE  Sane'
<1>1. UNCHANGED <<base, faults>> /\ (lock' = CiLock(c, base[c]) \/ lock' = CiUnlock(c))
      /\ lost' \in BOOLEAN
  <2>1. UNCHANGED <<base, faults>> /\ (lock' = CiLock(c, base[c]) \/ lock' = CiUnlock(c))
    BY DEF Serve
  <2>2. lost' \in BOOLEAN
    BY DEF Serve
  <2> QED BY <2>1, <2>2
<1>2. Typed'
  BY <1>1, ServeSteps, LockTypes DEF Sane, Typed
<1>3. has[Server] \subseteq has'[Server]
  BY ServeSteps
<1>4. \A d \in Client \ {c} : Consistent(d)'
  BY <1>1, <1>3, ServeSteps, StaysConsistent DEF Sane
<1>5. Consistent(c)'
  <2>1. cmd[c].name # "none" /\ Consistent(c) /\ Typed
    BY ServeSteps DEF Sane, Consistent
  <2>2. cmd'[c].reply.files \subseteq has'[Server] \cap cmd'[c].phantom
    BY <1>3, ServeSteps
  <2>3. has'[c] = has[c] /\ cmd'[c].pc = "got" /\ cmd'[c].name # "none" /\ base'[c] = base[c]
    BY <1>1, <2>1, ServeSteps
  <2> QED BY <1>3, <2>1, <2>2, <2>3, StaysConsistent
<1> QED BY <1>2, <1>3, <1>4, <1>5 DEF Sane

-----------------------------------------------------------------------------
(* What a client does when a sync of its command has ended with S in its   *)
(* repository: S is what it had and what came from the server.             *)
LEMMA Ended ==
    ASSUME CheckinLockAssumption, Sane, NEW c \in Client, NEW S \in SUBSET Id,
           has[c] \subseteq S, S \subseteq has[Server] \cup CheckinsOf(c, has[c]),
           has' = [has EXCEPT ![c] = S], End(c),
           base' \in [Client -> Id], base'[c] \in S,
           \A d \in Client \ {c} : base'[d] = base[d],
           UNCHANGED lock, lost' \in BOOLEAN, faults' \in 0 .. MaxFaults
    PROVE  Sane'
<1>1. /\ has \in [Repo -> SUBSET Id] /\ cmd \in [Client -> Cmd]
      /\ Server \notin Client /\ Server \in Repo /\ c \in Repo /\ Client \subseteq Repo
  BY DEF Sane, Typed, Repo, CheckinLockAssumption
<1>2. has' \in [Repo -> SUBSET Id] /\ has'[c] = S /\ has'[Server] = has[Server]
      /\ \A d \in Client \ {c} : has'[d] = has[d]
  BY <1>1
<1>3. cmd' \in [Client -> Cmd] /\ cmd'[c] = NoCommand /\ \A d \in Client \ {c} : cmd'[d] = cmd[d]
  BY <1>1, NoCommandType DEF End
<1>4. Typed'
  BY <1>2, <1>3 DEF Sane, Typed
<1>5. \A d \in Client \ {c} : Consistent(d)'
  BY <1>2, <1>3, StaysConsistent DEF Sane
<1>6. Consistent(c)'
  BY <1>2, <1>3, NoCommandType DEF Consistent, Sane, CheckinsOf
<1> QED BY <1>2, <1>4, <1>5, <1>6 DEF Sane

LEMMA Committed ==
    ASSUME CheckinLockAssumption, Sane, NEW c \in Client, NEW S \in SUBSET Id,
           has[c] \subseteq S, S \subseteq has[Server] \cup CheckinsOf(c, has[c]),
           CommitAs(c, S), UNCHANGED lock, lost' \in BOOLEAN, faults' \in 0 .. MaxFaults
    PROVE  /\ Sane'
           /\ has'[c] = S \cup {Append(base[c], c)} /\ has'[Server] = has[Server]
           /\ cmd'[c].pc = "send" /\ cmd'[c].name = "push"
           /\ \A d \in Client \ {c} : has'[d] = has[d] /\ base'[d] = base[d] /\ cmd'[d] = cmd[d]
<1> DEFINE new == Append(base[c], c)
<1>1. /\ has \in [Repo -> SUBSET Id] /\ cmd \in [Client -> Cmd] /\ base \in [Client -> Id]
      /\ Server \notin Client /\ Server \in Repo /\ c \in Repo /\ Client \subseteq Repo
  BY DEF Sane, Typed, Repo, CheckinLockAssumption
<1>2. new \in Id /\ new[Len(new)] = c
  BY <1>1, NewCheckin
<1>3. /\ has' = [has EXCEPT ![c] = S \cup {new}]
      /\ base' = [base EXCEPT ![c] = new]
      /\ cmd' = [cmd EXCEPT ![c] = Command("push")]
  BY DEF CommitAs
<1> HIDE DEF new
<1>4. has' \in [Repo -> SUBSET Id] /\ has'[c] = S \cup {new} /\ has'[Server] = has[Server]
      /\ \A d \in Client \ {c} : has'[d] = has[d]
  BY <1>1, <1>2, <1>3
<1>5. cmd' \in [Client -> Cmd] /\ cmd'[c] = Command("push")
      /\ \A d \in Client \ {c} : cmd'[d] = cmd[d]
  BY <1>1, <1>3, CommandType
<1>6. base' \in [Client -> Id] /\ base'[c] = new /\ \A d \in Client \ {c} : base'[d] = base[d]
  BY <1>1, <1>2, <1>3
<1>7. Typed'
  BY <1>4, <1>5, <1>6 DEF Sane, Typed
<1>8. \A d \in Client \ {c} : Consistent(d)'
  BY <1>4, <1>5, <1>6, StaysConsistent DEF Sane
<1>9. Consistent(c)'
  <2>1. cmd'[c].pc = "send" /\ cmd'[c].name = "push" /\ cmd'[c].reply.files = {}
    BY <1>5, CommandType
  <2>2. Root \in has'[c] /\ base'[c] \in has'[c]
    BY <1>4, <1>6 DEF Sane, Consistent
  <2>3. has'[c] \subseteq has'[Server] \cup {x \in has'[c] : x[Len(x)] = c}
    BY <1>2, <1>4 DEF CheckinsOf
  <2> QED BY <2>1, <2>2, <2>3 DEF Consistent, CheckinsOf
<1>10. cmd'[c].pc = "send" /\ cmd'[c].name = "push"
  BY <1>5, CommandType
<1> QED BY <1>4, <1>5, <1>6, <1>7, <1>8, <1>9, <1>10 DEF Sane, new

LEMMA Editing ==
    ASSUME CheckinLockAssumption, Sane, NEW c \in Client, NEW S \in SUBSET Id,
           has[c] \subseteq S, S \subseteq has[Server] \cup CheckinsOf(c, has[c]),
           has' = [has EXCEPT ![c] = S],
           cmd' = [cmd EXCEPT ![c] = [NoCommand EXCEPT !.pc = "edit", !.name = "first"]],
           UNCHANGED <<base, lock>>, lost' \in BOOLEAN, faults' \in 0 .. MaxFaults
    PROVE  /\ Sane' /\ has'[c] = S /\ has'[Server] = has[Server] /\ cmd'[c].pc = "edit"
           /\ \A d \in Client \ {c} : has'[d] = has[d] /\ cmd'[d] = cmd[d]
<1> DEFINE e == [NoCommand EXCEPT !.pc = "edit", !.name = "first"]
<1>1. /\ has \in [Repo -> SUBSET Id] /\ cmd \in [Client -> Cmd]
      /\ Server \notin Client /\ Server \in Repo /\ c \in Repo /\ Client \subseteq Repo
  BY DEF Sane, Typed, Repo, CheckinLockAssumption
<1>2. e \in Cmd /\ e.pc = "edit" /\ e.name = "first" /\ e.reply.files = {}
  BY NoCommandType DEF Cmd
<1>3. ~e.fail
  BY NoCommandType DEF NoCommand
<1> HIDE DEF e
<1>4. has' \in [Repo -> SUBSET Id] /\ has'[c] = S /\ has'[Server] = has[Server]
      /\ \A d \in Client \ {c} : has'[d] = has[d]
  BY <1>1
<1>5. cmd' = [cmd EXCEPT ![c] = e]
  BY DEF e
<1>6. cmd' \in [Client -> Cmd] /\ cmd'[c] = e /\ \A d \in Client \ {c} : cmd'[d] = cmd[d]
  BY <1>1, <1>2, <1>5
<1>7. Typed'
  BY <1>4, <1>6 DEF Sane, Typed
<1>8. \A d \in Client \ {c} : Consistent(d)'
  BY <1>4, <1>6, StaysConsistent DEF Sane
<1>9. Consistent(c)'
  BY <1>2, <1>3, <1>4, <1>6 DEF Consistent, Sane, CheckinsOf
<1> QED BY <1>2, <1>4, <1>6, <1>7, <1>8, <1>9 DEF Sane

LEMMA ProceedSane ==
    ASSUME CheckinLockAssumption, Sane, NEW c \in Client, NEW S \in SUBSET Id,
           has[c] \subseteq S, S \subseteq has[Server] \cup CheckinsOf(c, has[c]),
           NEW fail \in BOOLEAN, Proceed(c, S, fail),
           UNCHANGED lock, lost' \in BOOLEAN, faults' \in 0 .. MaxFaults
    PROVE  Sane'
<1>1. base \in [Client -> Id] /\ base[c] \in S
  BY DEF Sane, Typed, Consistent
<1>2. CASE has' = [has EXCEPT ![c] = S] /\ End(c) /\ UNCHANGED base
  BY <1>1, <1>2, Ended
<1>3. CASE CommitAs(c, S)
  BY <1>3, Committed
<1>4. CASE /\ has' = [has EXCEPT ![c] = S]
           /\ cmd' = [cmd EXCEPT ![c] = [NoCommand EXCEPT !.pc = "edit", !.name = "first"]]
           /\ UNCHANGED base
  BY <1>4, Editing
<1> QED BY <1>2, <1>3, <1>4 DEF Proceed

LEMMA Received ==
    ASSUME CheckinLockAssumption, Sane, NEW c \in Client
    PROVE  /\ has[c] \cup cmd[c].reply.files \in SUBSET Id
           /\ has[c] \cup cmd[c].reply.files \subseteq has[Server] \cup CheckinsOf(c, has[c])
           /\ (cmd[c].fail \/ cmd[c].reply.fail) \in BOOLEAN
           /\ cmd[c].reply.igots \in SUBSET Id
<1>1. has[c] \in SUBSET Id /\ cmd[c] \in Cmd
  BY DEF Sane, Typed, Repo
<1>2. cmd[c].reply \in Reply
  BY <1>1 DEF Cmd
<1>3. cmd[c].reply.files \in SUBSET Id /\ cmd[c].reply.igots \in SUBSET Id
  BY <1>2 DEF Reply
<1>4. Consistent(c)
  BY DEF Sane
<1> QED BY <1>1, <1>3, <1>4 DEF Consistent

(* The other round of a sync.                                              *)
LEMMA AnotherRound ==
    ASSUME CheckinLockAssumption, Sane, NEW c \in Client, NEW S \in SUBSET Id,
           has[c] \subseteq S, S \subseteq has[Server] \cup CheckinsOf(c, has[c]),
           NEW phantom \in SUBSET Id, NEW fail \in BOOLEAN, cmd[c].pc = "got",
           has' = [has EXCEPT ![c] = S],
           cmd' = [cmd EXCEPT ![c] = [cmd[c] EXCEPT !.pc = "send", !.round = 1,
                      !.phantom = phantom, !.fail = fail, !.reply = NoReply]],
           UNCHANGED <<base, lock, lost, faults>>
    PROVE  /\ Sane' /\ has'[c] = S /\ has'[Server] = has[Server] /\ cmd'[c].pc = "send"
           /\ \A d \in Client \ {c} : has'[d] = has[d] /\ cmd'[d] = cmd[d]
<1> DEFINE e == [cmd[c] EXCEPT !.pc = "send", !.round = 1,
                    !.phantom = phantom, !.fail = fail, !.reply = NoReply]
<1>1. /\ has \in [Repo -> SUBSET Id] /\ cmd \in [Client -> Cmd] /\ cmd[c] \in Cmd
      /\ Server \notin Client /\ Server \in Repo /\ c \in Repo /\ Client \subseteq Repo
  BY DEF Sane, Typed, Repo, CheckinLockAssumption
<1>2. e \in Cmd
  <2>1. NoReply \in Reply /\ 1 \in 0 .. 1 /\ "send" \in {"idle", "send", "got", "edit"}
    BY NoCommandType
  <2>2. \A r \in Reply, n \in 0 .. 1 :
          [cmd[c] EXCEPT !.pc = "send", !.round = n, !.phantom = phantom, !.fail = fail,
                         !.reply = r] \in Cmd
    BY <1>1 DEF Cmd
  <2> QED BY <2>1, <2>2
<1>3. e.pc = "send" /\ e.name = cmd[c].name /\ e.reply = NoReply
  BY <1>1 DEF Cmd
<1> HIDE DEF e
<1>4. has' \in [Repo -> SUBSET Id] /\ has'[c] = S /\ has'[Server] = has[Server]
      /\ \A d \in Client \ {c} : has'[d] = has[d]
  BY <1>1
<1>5. cmd' = [cmd EXCEPT ![c] = e]
  BY DEF e
<1>6. cmd' \in [Client -> Cmd] /\ cmd'[c] = e /\ \A d \in Client \ {c} : cmd'[d] = cmd[d]
  BY <1>1, <1>2, <1>5
<1>7. Typed'
  BY <1>4, <1>6 DEF Sane, Typed
<1>8. \A d \in Client \ {c} : Consistent(d)'
  BY <1>4, <1>6, StaysConsistent DEF Sane
<1>9. Consistent(c)'
  <2>1. cmd'[c].pc = "send" /\ cmd'[c].name # "none" /\ cmd'[c].reply.files = {}
    BY <1>3, <1>6, NoCommandType DEF Sane, Consistent
  <2> QED BY <1>4, <2>1 DEF Consistent, Sane, CheckinsOf
<1> QED BY <1>3, <1>4, <1>6, <1>7, <1>8, <1>9 DEF Sane

LEMMA ReceiveSane ==
    ASSUME CheckinLockAssumption, Sane, NEW c \in Client, Receive(c)
    PROVE  Sane'
<1> DEFINE S == has[c] \cup cmd[c].reply.files
           phantom == cmd[c].reply.igots \ S
           fail == cmd[c].fail \/ cmd[c].reply.fail
<1>1. /\ S \in SUBSET Id /\ has[c] \subseteq S /\ S \subseteq has[Server] \cup CheckinsOf(c, has[c])
      /\ phantom \in SUBSET Id /\ fail \in BOOLEAN
  BY Received
<1>2. /\ cmd[c].pc = "got" /\ UNCHANGED <<lock, lost, faults>>
      /\ \/ /\ has' = [has EXCEPT ![c] = S] /\ UNCHANGED base
            /\ cmd' = [cmd EXCEPT ![c] = [cmd[c] EXCEPT !.pc = "send", !.round = 1,
                          !.phantom = phantom, !.fail = fail, !.reply = NoReply]]
         \/ Proceed(c, S, fail)
         \/ has' = [has EXCEPT ![c] = S] /\ End(c) /\ UNCHANGED base
         \/ /\ has' = [has EXCEPT ![c] = S] /\ End(c)
            /\ \E x \in Newest(c, S) : base' = [base EXCEPT ![c] = x]
  BY DEF Receive
<1>3. lost' \in BOOLEAN /\ faults' \in 0 .. MaxFaults
  BY <1>2 DEF Sane, Typed
<1>4. base \in [Client -> Id] /\ base[c] \in S
  BY DEF Sane, Typed, Consistent
<1> HIDE DEF S, phantom, fail
<1>5. CASE has' = [has EXCEPT ![c] = S] /\ UNCHANGED base
           /\ cmd' = [cmd EXCEPT ![c] = [cmd[c] EXCEPT !.pc = "send", !.round = 1,
                         !.phantom = phantom, !.fail = fail, !.reply = NoReply]]
  BY <1>1, <1>2, <1>5, AnotherRound
<1>6. CASE Proceed(c, S, fail)
  BY <1>1, <1>2, <1>3, <1>6, ProceedSane
<1>7. CASE has' = [has EXCEPT ![c] = S] /\ End(c) /\ UNCHANGED base
  BY <1>1, <1>2, <1>3, <1>4, <1>7, Ended
<1>8. CASE /\ has' = [has EXCEPT ![c] = S] /\ End(c)
           /\ \E x \in Newest(c, S) : base' = [base EXCEPT ![c] = x]
  <2>1. PICK x \in S : base' = [base EXCEPT ![c] = x]
    BY <1>8 DEF Newest
  <2>2. base' \in [Client -> Id] /\ base'[c] = x /\ \A d \in Client \ {c} : base'[d] = base[d]
    BY <1>1, <1>4, <2>1
  <2> QED BY <1>1, <1>2, <1>3, <1>8, <2>2, Ended
<1> QED BY <1>2, <1>5, <1>6, <1>7, <1>8

LEMMA FailSane ==
    ASSUME CheckinLockAssumption, Sane, NEW c \in Client, Fail(c) \/ Kill(c)
    PROVE  Sane'
<1>1. faults' \in 0 .. MaxFaults
  BY DEF Fail, Kill, Sane, Typed, CheckinLockAssumption
<1>2. UNCHANGED lock
  BY DEF Fail, Kill
<1>3. base \in [Client -> Id] /\ base[c] \in has[c] /\ has[c] \in SUBSET Id
      /\ has \in [Repo -> SUBSET Id] /\ cmd[c].fail \in BOOLEAN
      /\ has[c] \subseteq has[Server] \cup CheckinsOf(c, has[c])
  BY DEF Sane, Typed, Consistent, Repo, Cmd
<1>4. CASE End(c) /\ UNCHANGED <<has, base>> /\ lost' = (lost \/ Unsent(c) # {})
  <2>1. has' = [has EXCEPT ![c] = has[c]] /\ lost' \in BOOLEAN
    BY <1>3, <1>4
  <2> QED BY <1>1, <1>2, <1>3, <1>4, <2>1, Ended
<1>5. CASE Proceed(c, has[c], cmd[c].fail) /\ lost' = TRUE
  BY <1>1, <1>2, <1>3, <1>5, ProceedSane
<1> QED BY <1>4, <1>5 DEF Fail, Kill

LEMMA NextSane == ASSUME CheckinLockAssumption, Sane, [Next]_vars
                  PROVE  Sane'
<1>1. CASE UNCHANGED vars
  BY <1>1 DEF vars, Sane, Typed, Consistent, CheckinsOf
<1>2. CASE Next
  BY <1>2, NoteSane, TimeoutSane, BeginSane, ServeSane, ReceiveSane, FailSane DEF Next
<1> QED BY <1>1, <1>2

(* What the repositories and the commands are: whatever a client has was   *)
(* made by itself or has come to the server, and it has what is checked    *)
(* out.                                                                    *)
THEOREM LocksTyped == ASSUME CheckinLockAssumption PROVE Spec => []TypeOK
<1>1. Sane => TypeOK
  <2> SUFFICES ASSUME Sane PROVE TypeOK
    OBVIOUS
  <2>1. \A x \in DOMAIN lock : lock[x].client \in Client /\ lock[x].old \in BOOLEAN
    BY DEF Sane, Typed
  <2>2. faults \in 0 .. MaxFaults /\ \A r \in Repo : Root \in has[r]
    BY DEF Sane, Typed, Consistent, Repo
  <2>3. \A c \in Client : Consistent(c) /\ cmd[c].pc \in {"idle", "send", "got", "edit"}
    BY DEF Sane, Typed, Cmd
  <2> QED BY <2>1, <2>2, <2>3 DEF TypeOK, Consistent
<1> QED BY <1>1, InitSane, NextSane, PTL DEF Spec

-----------------------------------------------------------------------------
(* Why nobody forks as long as no lock is lost: every check-in has at most *)
(* one child at the server; a client that may go on to commit holds the    *)
(* lock of what it has checked out, and one that has committed holds that  *)
(* of the parent of its only unsent check-in, whose push it is about to    *)
(* send; a lock that is held is of a leaf and not too old.                 *)
Held(c, x) ==
    /\ x \in DOMAIN lock /\ lock[x].client = c /\ ~lock[x].old
    /\ IsALeaf(x, has[Server])

NoFork == \A x \in Id : \A y, z \in has[Server] : Child(y, x) /\ Child(z, x) => y = z

Granted(c) ==
    cmd[c].pc = "got" /\ cmd[c].name \in {"first", "second"} =>
      /\ cmd[c].round = 0
      /\ \/ cmd[c].reply.fail
         \/ ~IsALeaf(base[c], cmd[c].reply.igots)
         \/ Held(c, base[c])

Pushing(c) ==
    Unsent(c) # {} =>
      /\ cmd[c].pc = "send" /\ cmd[c].name = "push"
      /\ \E x \in Id : Unsent(c) \subseteq {Append(x, c)} /\ Held(c, x)

IInv == Sane /\ (~lost => NoFork /\ \A c \in Client : Granted(c) /\ Pushing(c))

(* A client that does not move keeps what it holds, if its locks stay and  *)
(* the server gets nothing that is its own or that is below its locks.     *)
LEMMA OthersKeep ==
    ASSUME NEW d \in Client, Granted(d), Pushing(d), has'[d] = has[d],
           base'[d] = base[d], cmd'[d] = cmd[d], has[Server] \subseteq has'[Server],
           \A x : Held(d, x) => Held(d, x)'
    PROVE  Granted(d)' /\ Pushing(d)'
<1>1. Granted(d)'
  BY DEF Granted
<1>2. Unsent(d)' \subseteq Unsent(d)
  BY DEF Unsent, CheckinsOf
<1>3. Pushing(d)'
  BY <1>2 DEF Pushing
<1> QED BY <1>1, <1>3

LEMMA NothingUnsent ==
    ASSUME NEW c \in Client, Unsent(c)' = {}, cmd'[c].pc # "got"
    PROVE  Granted(c)' /\ Pushing(c)'
BY DEF Granted, Pushing

LEMMA InitLocks == ASSUME CheckinLockAssumption, Init PROVE IInv
<1>1. Sane
  BY InitSane
<1>2. NoFork
  <2>1. \A x \in Id : ~Child(Root, x)
    BY Short
  <2> QED BY <2>1 DEF NoFork, Init, Repo
<1>3. \A c \in Client : Unsent(c) = {} /\ cmd[c].pc = "idle"
  BY NoCommandType DEF Unsent, CheckinsOf, Init, Repo
<1>4. \A c \in Client : Granted(c) /\ Pushing(c)
  BY <1>3 DEF Granted, Pushing
<1> QED BY <1>1, <1>2, <1>4 DEF IInv

LEMMA NoteLocks ==
    ASSUME CheckinLockAssumption, IInv, NEW n \in Notes, Note(n)
    PROVE  IInv'
<1>1. Sane'
  BY NoteSane DEF IInv
<1>2. has' = [has EXCEPT ![Server] = @ \cup {n}] /\ UNCHANGED <<base, lock, cmd, lost, faults>>
  BY DEF Note
<1>3. has'[Server] = has[Server] \cup {n} /\ \A c \in Client : has'[c] = has[c]
  BY <1>2 DEF IInv, Sane, Typed, Repo, CheckinLockAssumption
<1>4. \A x \in Id : ~Child(n, x)
  BY Short
<1>5. SUFFICES ASSUME ~lost PROVE NoFork' /\ \A c \in Client : Granted(c)' /\ Pushing(c)'
  BY <1>1, <1>2 DEF IInv
<1>6. NoFork'
  BY <1>3, <1>4, <1>5 DEF IInv, NoFork
<1>7. \A d \in Client : \A x : Held(d, x) => Held(d, x)'
  BY <1>2, <1>3, <1>4, LeafDef DEF Held, IInv, Sane, Typed
<1> QED BY <1>2, <1>3, <1>5, <1>6, <1>7, OthersKeep DEF IInv

LEMMA TimeoutLocks ==
    ASSUME CheckinLockAssumption, IInv, NEW x \in DOMAIN lock, Timeout(x)
    PROVE  IInv'
<1>1. Sane'
  BY TimeoutSane DEF IInv
<1> PICK c \in Client : c = lock[x].client
  BY DEF IInv, Sane, Typed
<1>2. /\ lock' = [lock EXCEPT ![x].old = TRUE] /\ UNCHANGED <<has, base, cmd>>
      /\ lost' = (lost \/ Committing(c) \/ Unsent(c) # {})
  BY DEF Timeout
<1>3. SUFFICES ASSUME ~lost' PROVE NoFork' /\ \A d \in Client : Granted(d)' /\ Pushing(d)'
  BY <1>1 DEF IInv
<1>4. ~lost /\ ~Committing(c) /\ Unsent(c) = {}
  BY <1>2, <1>3
<1>5. NoFork'
  BY <1>2, <1>4 DEF IInv, NoFork
<1>6. \A d \in Client \ {c} : Granted(d)' /\ Pushing(d)'
  <2>1. \A d \in Client \ {c} : \A y : Held(d, y) => Held(d, y)'
    BY <1>2 DEF Held, IInv, Sane, Typed
  <2> QED BY <1>2, <1>4, <2>1, OthersKeep DEF IInv
<1>7. Granted(c)' /\ Pushing(c)'
  <2>1. cmd'[c].name \notin {"first", "second", "push"} /\ Unsent(c)' = {}
    BY <1>2, <1>4 DEF Committing, Unsent, CheckinsOf
  <2> QED BY <2>1 DEF Granted, Pushing
<1> QED BY <1>5, <1>6, <1>7

LEMMA BeginLocks ==
    ASSUME CheckinLockAssumption, IInv, NEW c \in Client,
           NEW name \in {"first", "update", "push"}, Begin(c, name) \/ Edited(c)
    PROVE  IInv'
<1>1. Sane'
  BY BeginSane DEF IInv
<1>2. /\ UNCHANGED <<has, base, lock, lost, faults>> /\ cmd[c].pc \in {"idle", "edit"}
      /\ \E n \in {"first", "second", "update", "push"} : cmd' = [cmd EXCEPT ![c] = Command(n)]
  BY DEF Begin, Edited
<1>3. SUFFICES ASSUME ~lost PROVE NoFork' /\ \A d \in Client : Granted(d)' /\ Pushing(d)'
  BY <1>1, <1>2 DEF IInv
<1>4. NoFork'
  BY <1>2, <1>3 DEF IInv, NoFork
<1>5. cmd'[c].pc = "send" /\ \A d \in Client \ {c} : cmd'[d] = cmd[d]
  BY <1>2, CommandType DEF IInv, Sane, Typed
<1>6. \A d \in Client \ {c} : Granted(d)' /\ Pushing(d)'
  <2>1. \A d \in Client : \A y : Held(d, y) => Held(d, y)'
    BY <1>2 DEF Held
  <2> QED BY <1>2, <1>3, <1>5, <2>1, OthersKeep DEF IInv
<1>7. Granted(c)' /\ Pushing(c)'
  <2>1. Unsent(c) = {}
    BY <1>2, <1>3 DEF IInv, Pushing
  <2>2. Unsent(c)' = {}
    BY <1>2, <2>1 DEF Unsent, CheckinsOf
  <2> QED BY <1>5, <2>2, NothingUnsent
<1> QED BY <1>4, <1>6, <1>7

(* A push: what arrives is a child of a check-in without children, whose   *)
(* lock the pushing client holds.                                          *)
LEMMA PushLocks ==
    ASSUME CheckinLockAssumption, IInv, ~lost, NEW c \in Client, cmd[c].name = "push",
           Unsent(c) # {}, has'[Server] = has[Server] \cup Unsent(c),
           \A d \in Client : has'[d] = has[d],
           \A d \in Client \ {c} : cmd'[d] = cmd[d],
           lock' = CiUnlock(c), base' = base
    PROVE  NoFork' /\ \A d \in Client \ {c} : Granted(d)' /\ Pushing(d)'
<1>1. PICK p \in Id : Unsent(c) = {Append(p, c)} /\ Held(c, p)
  BY DEF IInv, Pushing
<1> DEFINE new == Append(p, c)
<1>2. new \in Id /\ Child(new, p)
  BY <1>1, NewCheckin
<1>3. has'[Server] = has[Server] \cup {new}
  BY <1>1
<1> HIDE DEF new
<1>4. \A x \in Id : Child(new, x) => x = p
  BY <1>2, OneParent
<1>5. \A y \in has[Server] : ~Child(y, p)
  BY <1>1, LeafDef DEF Held
<1>6. NoFork'
  BY <1>3, <1>4, <1>5 DEF IInv, NoFork
<1>7. \A d \in Client \ {c} : \A x : Held(d, x) => Held(d, x)'
  <2> SUFFICES ASSUME NEW d \in Client \ {c}, NEW x, Held(d, x) PROVE Held(d, x)'
    OBVIOUS
  <2>1. x \in Id /\ x # p
    BY <1>1 DEF Held, IInv, Sane, Typed
  <2>2. IsALeaf(x, has'[Server])
    BY <1>3, <1>4, <2>1, LeafDef DEF Held
  <2>3. x \in DOMAIN lock' /\ lock'[x] = lock[x]
    BY DEF Held, CiUnlock, Without
  <2> QED BY <2>2, <2>3 DEF Held
<1> QED BY <1>3, <1>6, <1>7, OthersKeep DEF IInv

LEMMA ServeLocks ==
    ASSUME CheckinLockAssumption, OneMessage, IInv, NEW c \in Client,
           NEW fits \in BOOLEAN, Serve(c, fits)
    PROVE  IInv'
<1>1. Sane'
  BY ServeSane DEF IInv
<1>2. fits /\ base' = base /\ cmd[c].pc = "send"
      /\ has' = [has EXCEPT ![Server] = @ \cup (IF cmd[c].name = "push" THEN Unsent(c) ELSE {})]
      /\ lock' = (IF Locks(c) THEN CiLock(c, base[c]) ELSE CiUnlock(c))
      /\ lost' = (lost \/ GivesBackEarly(c))
  BY DEF Serve
<1>3. SUFFICES ASSUME ~lost' PROVE NoFork' /\ \A d \in Client : Granted(d)' /\ Pushing(d)'
  BY <1>1 DEF IInv
<1>4. ~lost /\ ~GivesBackEarly(c)
  BY <1>2, <1>3
<1>5. has \in [Repo -> SUBSET Id] /\ Server \in Repo
  BY DEF IInv, Sane, Typed, Repo
<1>6. has'[Server] = has[Server] \cup (IF cmd[c].name = "push" THEN Unsent(c) ELSE {})
  BY <1>2, <1>5
<1>7. /\ \A d \in Client : has'[d] = has[d]
      /\ \A d \in Client \ {c} : cmd'[d] = cmd[d]
      /\ cmd'[c].pc = "got" /\ cmd'[c].name = cmd[c].name /\ cmd'[c].round = cmd[c].round
      /\ cmd'[c].reply.igots = has[Server]
      /\ cmd'[c].reply.fail = (Locks(c) /\ LockFails(c, base[c]))
  BY ServeSteps DEF IInv
<1>8. Unsent(c)' = {}
  <2>1. CASE Unsent(c) = {}
    BY <1>6, <1>7, <2>1 DEF Unsent, CheckinsOf
  <2>2. CASE Unsent(c) # {}
    <3>1. cmd[c].name = "push"
      BY <1>4, <2>2 DEF IInv, Pushing
    <3> QED BY <1>6, <1>7, <3>1 DEF Unsent, CheckinsOf
  <2> QED BY <2>1, <2>2
<1>9. CASE cmd[c].name = "push" /\ Unsent(c) # {}
  <2>1. lock' = CiUnlock(c) /\ has'[Server] = has[Server] \cup Unsent(c)
    BY <1>2, <1>6, <1>9 DEF Locks
  <2>2. NoFork' /\ \A d \in Client \ {c} : Granted(d)' /\ Pushing(d)'
    BY <1>2, <1>4, <1>7, <1>9, <2>1, PushLocks
  <2>3. Granted(c)' /\ Pushing(c)'
    BY <1>7, <1>8, <1>9 DEF Granted, Pushing
  <2> QED BY <2>2, <2>3
<1>10. CASE cmd[c].name # "push" \/ Unsent(c) = {}
  <2>1. has'[Server] = has[Server]
    BY <1>6, <1>10
  <2>2. NoFork'
    BY <1>4, <2>1 DEF IInv, NoFork
  <2>3. \A d \in Client \ {c} : \A x : Held(d, x) => Held(d, x)'
    BY <1>2, <2>1 DEF Held, CiUnlock, CiLock, Without, Stale
  <2>4. \A d \in Client \ {c} : Granted(d)' /\ Pushing(d)'
    BY <1>2, <1>4, <1>7, <2>1, <2>3, OthersKeep DEF IInv
  <2>5. Pushing(c)'
    BY <1>8 DEF Pushing
  <2>6. ASSUME cmd[c].name \in {"first", "second"} PROVE Granted(c)'
    <3>1. Locks(c) /\ cmd[c].round = 0 /\ lock' = CiLock(c, base[c])
      BY <1>2, <1>4, <2>6 DEF GivesBackEarly, Locks
    <3>2. ASSUME ~LockFails(c, base[c]), IsALeaf(base[c], has[Server])
          PROVE  Held(c, base[c])'
      <4>1. CASE base[c] \in DOMAIN lock \ Stale(has[Server])
        <5>1. lock[base[c]].client = c /\ ~lock[base[c]].old
          BY <3>2, <4>1 DEF LockFails, Stale
        <5>2. base[c] \in DOMAIN lock' /\ lock'[base[c]] = lock[base[c]]
          BY <3>1, <4>1 DEF CiLock, Without
        <5> QED BY <1>2, <2>1, <3>2, <5>1, <5>2 DEF Held
      <4>2. CASE base[c] \notin DOMAIN lock \ Stale(has[Server])
        <5>1. base[c] \in DOMAIN lock' /\ lock'[base[c]] = [client |-> c, old |-> FALSE]
          BY <3>1, <4>2 DEF CiLock, Without
        <5>2. lock'[base[c]].client = c /\ lock'[base[c]].old = FALSE
          BY <5>1
        <5> QED BY <1>2, <2>1, <3>2, <5>1, <5>2 DEF Held
      <4> QED BY <4>1, <4>2
    <3> QED BY <1>2, <1>7, <3>1, <3>2 DEF Granted
  <2>7. ASSUME cmd[c].name \notin {"first", "second"} PROVE Granted(c)'
    BY <1>7, <2>7 DEF Granted
  <2> QED BY <2>2, <2>4, <2>5, <2>6, <2>7
<1> QED BY <1>9, <1>10

(* The others, when a client moves without the server.                     *)
LEMMA OthersWait ==
    ASSUME CheckinLockAssumption, IInv, ~lost, NEW c \in Client,
           has'[Server] = has[Server], UNCHANGED lock,
           \A d \in Client \ {c} : has'[d] = has[d] /\ base'[d] = base[d] /\ cmd'[d] = cmd[d]
    PROVE  NoFork' /\ \A d \in Client \ {c} : Granted(d)' /\ Pushing(d)'
<1>1. NoFork'
  BY DEF IInv, NoFork
<1>2. \A d \in Client : \A x : Held(d, x) => Held(d, x)'
  BY DEF Held
<1> QED BY <1>1, <1>2, OthersKeep DEF IInv

LEMMA ProceedLocks ==
    ASSUME CheckinLockAssumption, IInv, Sane', ~lost, NEW c \in Client, NEW S \in SUBSET Id,
           has[c] \subseteq S, S \subseteq has[Server] \cup CheckinsOf(c, has[c]),
           Unsent(c) = {}, NEW fail \in BOOLEAN, Proceed(c, S, fail),
           MayCommit(c, S, fail) => Held(c, base[c]),
           UNCHANGED <<lock, lost, faults>>
    PROVE  NoFork' /\ \A d \in Client : Granted(d)' /\ Pushing(d)'
<1>1. /\ has \in [Repo -> SUBSET Id] /\ cmd \in [Client -> Cmd] /\ base \in [Client -> Id]
      /\ Server \notin Client /\ Server \in Repo /\ c \in Repo /\ Client \subseteq Repo
  BY DEF IInv, Sane, Typed, Repo, CheckinLockAssumption
<1>2. S \subseteq has[Server] \cup has[c] /\ \A x \in has[c] : x[Len(x)] = c => x \in has[Server]
  BY DEF Unsent, CheckinsOf
<1>3. lost' \in BOOLEAN /\ faults' \in 0 .. MaxFaults
  BY DEF IInv, Sane, Typed
<1>4. CASE has' = [has EXCEPT ![c] = S] /\ End(c) /\ UNCHANGED base
  <2>1. has'[c] = S /\ has'[Server] = has[Server] /\ \A d \in Client \ {c} : has'[d] = has[d]
    BY <1>1, <1>4
  <2>2. cmd'[c].pc = "idle" /\ \A d \in Client \ {c} : cmd'[d] = cmd[d]
    BY <1>1, <1>4, NoCommandType DEF End
  <2>3. Unsent(c)' = {}
    BY <1>2, <2>1 DEF Unsent, CheckinsOf
  <2> QED BY <1>4, <2>1, <2>2, <2>3, OthersWait, NothingUnsent
<1>5. CASE MayCommit(c, S, fail) /\ CommitAs(c, S)
  <2>1. /\ has'[c] = S \cup {Append(base[c], c)} /\ has'[Server] = has[Server]
        /\ cmd'[c].pc = "send" /\ cmd'[c].name = "push"
        /\ \A d \in Client \ {c} : has'[d] = has[d] /\ base'[d] = base[d] /\ cmd'[d] = cmd[d]
    BY <1>3, <1>5, Committed DEF IInv
  <2>2. Unsent(c)' \subseteq {Append(base[c], c)}
    BY <1>2, <2>1 DEF Unsent, CheckinsOf
  <2>3. PICK b \in Id : b = base[c]
    BY <1>1
  <2>4. Pushing(c)'
    <3>1. Held(c, b)'
      BY <1>5, <2>1, <2>3 DEF Held
    <3> QED BY <2>1, <2>2, <2>3, <3>1 DEF Pushing
  <2>5. Granted(c)'
    BY <2>1 DEF Granted
  <2> QED BY <2>1, <2>4, <2>5, OthersWait
<1>6. CASE /\ has' = [has EXCEPT ![c] = S] /\ UNCHANGED base
           /\ cmd' = [cmd EXCEPT ![c] = [NoCommand EXCEPT !.pc = "edit", !.name = "first"]]
  <2>1. /\ has'[c] = S /\ has'[Server] = has[Server] /\ cmd'[c].pc = "edit"
        /\ \A d \in Client \ {c} : has'[d] = has[d] /\ cmd'[d] = cmd[d]
    BY <1>3, <1>6, Editing DEF IInv
  <2>2. Unsent(c)' = {}
    BY <1>2, <2>1 DEF Unsent, CheckinsOf
  <2> QED BY <1>6, <2>1, <2>2, OthersWait, NothingUnsent
<1> QED BY <1>4, <1>5, <1>6 DEF Proceed

LEMMA ReceiveLocks ==
    ASSUME CheckinLockAssumption, IInv, NEW c \in Client, Receive(c)
    PROVE  IInv'
<1> DEFINE S == has[c] \cup cmd[c].reply.files
           phantom == cmd[c].reply.igots \ S
           fail == cmd[c].fail \/ cmd[c].reply.fail
<1>1. Sane /\ Sane'
  BY ReceiveSane DEF IInv
<1>2. /\ S \in SUBSET Id /\ has[c] \subseteq S /\ S \subseteq has[Server] \cup CheckinsOf(c, has[c])
      /\ phantom \in SUBSET Id /\ fail \in BOOLEAN
  BY <1>1, Received
<1>3. /\ cmd[c].pc = "got" /\ UNCHANGED <<lock, lost, faults>>
      /\ \/ /\ has' = [has EXCEPT ![c] = S] /\ UNCHANGED base
            /\ cmd' = [cmd EXCEPT ![c] = [cmd[c] EXCEPT !.pc = "send", !.round = 1,
                          !.phantom = phantom, !.fail = fail, !.reply = NoReply]]
         \/ /\ phantom = {} /\ cmd[c].name \in {"first", "second"}
            /\ Proceed(c, S, fail)
         \/ has' = [has EXCEPT ![c] = S] /\ End(c) /\ UNCHANGED base
         \/ /\ has' = [has EXCEPT ![c] = S] /\ End(c)
            /\ \E x \in Newest(c, S) : base' = [base EXCEPT ![c] = x]
  BY DEF Receive
<1>4. SUFFICES ASSUME ~lost PROVE NoFork' /\ \A d \in Client : Granted(d)' /\ Pushing(d)'
  BY <1>1, <1>3 DEF IInv
<1>5. Unsent(c) = {} /\ Granted(c)
  BY <1>3, <1>4 DEF IInv, Pushing
<1>6. \A x \in S : x[Len(x)] = c => x \in has[Server]
  BY <1>2, <1>5 DEF Unsent, CheckinsOf
<1>7. /\ has \in [Repo -> SUBSET Id] /\ cmd \in [Client -> Cmd] /\ base \in [Client -> Id]
      /\ Server \notin Client /\ Server \in Repo /\ c \in Repo /\ Client \subseteq Repo
  BY <1>1 DEF Sane, Typed, Repo, CheckinLockAssumption
<1>8. phantom = {} => cmd[c].reply.igots \subseteq S
  OBVIOUS
<1>9. ~fail => ~cmd[c].reply.fail
  OBVIOUS
<1> HIDE DEF S, phantom, fail
<1>10. CASE /\ has' = [has EXCEPT ![c] = S] /\ UNCHANGED base
            /\ cmd' = [cmd EXCEPT ![c] = [cmd[c] EXCEPT !.pc = "send", !.round = 1,
                          !.phantom = phantom, !.fail = fail, !.reply = NoReply]]
  <2>1. /\ has'[c] = S /\ has'[Server] = has[Server] /\ cmd'[c].pc = "send"
        /\ \A d \in Client \ {c} : has'[d] = has[d] /\ cmd'[d] = cmd[d]
    BY <1>1, <1>2, <1>3, <1>10, AnotherRound
  <2>2. Unsent(c)' = {}
    BY <1>6, <2>1 DEF Unsent, CheckinsOf
  <2> QED BY <1>3, <1>4, <1>10, <2>1, <2>2, OthersWait, NothingUnsent
<1>11. CASE /\ phantom = {} /\ cmd[c].name \in {"first", "second"}
            /\ Proceed(c, S, fail)
  <2>1. MayCommit(c, S, fail) => Held(c, base[c])
    <3> SUFFICES ASSUME MayCommit(c, S, fail) PROVE Held(c, base[c])
      OBVIOUS
    <3>1. ~cmd[c].reply.fail /\ IsALeaf(base[c], cmd[c].reply.igots)
      BY <1>8, <1>9, <1>11, LeafDef DEF MayCommit
    <3> QED BY <1>3, <1>5, <1>11, <3>1 DEF Granted
  <2> QED BY <1>1, <1>2, <1>3, <1>4, <1>5, <1>11, <2>1, ProceedLocks
<1>12. CASE has' = [has EXCEPT ![c] = S] /\ End(c)
            /\ \A d \in Client \ {c} : base'[d] = base[d]
  <2>1. has'[c] = S /\ has'[Server] = has[Server] /\ \A d \in Client \ {c} : has'[d] = has[d]
    BY <1>7, <1>12, <1>2
  <2>2. cmd'[c].pc = "idle" /\ \A d \in Client \ {c} : cmd'[d] = cmd[d]
    BY <1>7, <1>12, NoCommandType DEF End
  <2>3. Unsent(c)' = {}
    BY <1>6, <2>1 DEF Unsent, CheckinsOf
  <2> QED BY <1>3, <1>4, <1>12, <2>1, <2>2, <2>3, OthersWait, NothingUnsent
<1>13. \A d \in Client \ {c} : \A x : base' = [base EXCEPT ![c] = x] => base'[d] = base[d]
  BY <1>7
<1> QED BY <1>3, <1>10, <1>11, <1>12, <1>13

LEMMA FailLocks ==
    ASSUME CheckinLockAssumption, IInv, NEW c \in Client, Fail(c) \/ Kill(c)
    PROVE  IInv'
<1>1. Sane'
  BY FailSane DEF IInv
<1>2. SUFFICES ASSUME ~lost' PROVE NoFork' /\ \A d \in Client : Granted(d)' /\ Pushing(d)'
  BY <1>1 DEF IInv
<1>3. End(c) /\ UNCHANGED <<has, base, lock>> /\ lost' = (lost \/ Unsent(c) # {})
  BY <1>2 DEF Fail, Kill
<1>4. ~lost /\ Unsent(c) = {}
  BY <1>2, <1>3
<1>5. cmd'[c].pc = "idle" /\ \A d \in Client \ {c} : cmd'[d] = cmd[d]
  BY <1>3, NoCommandType DEF End, IInv, Sane, Typed
<1>6. Unsent(c)' = {}
  BY <1>3, <1>4 DEF Unsent, CheckinsOf
<1> QED BY <1>3, <1>4, <1>5, <1>6, OthersWait, NothingUnsent

LEMMA NextLocks ==
    ASSUME CheckinLockAssumption, OneMessage, IInv, [Next]_vars
    PROVE  IInv'
<1>1. CASE UNCHANGED vars
  BY <1>1 DEF vars, IInv, Sane, Typed, Consistent, CheckinsOf, NoFork, Granted, Pushing, Held, Unsent
<1>2. CASE Next
  BY <1>2, NoteLocks, TimeoutLocks, BeginLocks, ServeLocks, ReceiveLocks, FailLocks DEF Next
<1> QED BY <1>1, <1>2

(* When every new check-in fits into one message, two clients make         *)
(* children of one check-in only if a lock was lost with a commit pending. *)
THEOREM LocksPreventForks ==
    ASSUME CheckinLockAssumption, OneMessage
    PROVE  Spec => []ForksAreExcused
<1>1. IInv => ForksAreExcused
  <2> SUFFICES ASSUME IInv, ~lost, NEW x \in has[Server]
               PROVE  ~(Cardinality({y \in has[Server] : Child(y, x)}) > 1)
    BY DEF ForksAreExcused, Forks, Child
  <2> DEFINE C == {y \in has[Server] : Child(y, x)}
  <2>1. x \in Id
    BY DEF IInv, Sane, Typed, Repo
  <2>2. \A y, z \in C : y = z
    BY <2>1 DEF IInv, NoFork
  <2> HIDE DEF C
  <2>3. C = {} \/ \E y : C = {y}
    <3>1. \A y \in C : C = {y}
      BY <2>2
    <3> QED BY <3>1
  <2>4. Cardinality(C) \in {0, 1}
    BY <2>3, FS_EmptySet, FS_Singleton
  <2> QED BY <2>4 DEF C
<1>2. IInv /\ [Next]_vars => IInv'
  BY NextLocks
<1>3. Init => IInv
  BY InitLocks
<1> QED BY <1>1, <1>2, <1>3, PTL DEF Spec
=============================================================================
