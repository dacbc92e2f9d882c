------------------------------ MODULE Content ------------------------------
(***************************************************************************)
(* Several fossil processes that add artifacts to one repository, each     *)
(* through its own transactions and with its own content cache (content.c, *)
(* verify.c, the receiving half of xfer.c).                                *)
(*                                                                         *)
(* A process keeps its bags from one transaction to the next: a sync       *)
(* client runs one transaction per round trip.  A transaction that writes  *)
(* excludes the writers of other processes; readers see what is committed. *)
(***************************************************************************)
EXTENDS ContentStore

CONSTANTS
    Proc,          \* the processes
    DeltaSource,   \* pairs <<a, s>>: some peer may send a as a delta of s
    Setup,         \* kinds of repositories: what is shunned, is private
                   \* content in use, what peers have, of which they may
                   \* send wrong bytes, and who is at work
    Stopping       \* may a process be killed, or start over?

ASSUME ContentAssumption ==
    /\ DeltaSource \subseteq Artifact \X Artifact
    /\ Setup \subseteq [shun : SUBSET Artifact, private : BOOLEAN, sent : SUBSET Artifact,
                       faulty : SUBSET Artifact, active : SUBSET Proc]
    /\ Stopping \in BOOLEAN
    /\ None \notin Proc

VARIABLES
    repo,     \* the committed tables
    work,     \* the tables as the writer sees them
    writer,   \* the process inside a write transaction, or None
    bag,      \* contentCache.missing, .available and toVerify per process
    hooked,   \* the processes that have registered verify_at_commit()
    private,  \* is private content in use?
    err,      \* has the writer noted an error in the message it reads?
    sent,     \* the artifacts that peers send and announce
    faulty,   \* those of which the bytes that arrive may be wrong
    active,   \* the processes that work on the repository
    (* History: has a manifest been linked that could not be read?  Which  *)
    (* artifacts have been stored as wrong bytes?  Which have been         *)
    (* committed without being readable (and are not readable and right)?  *)
    early, wrong, unread

setting == <<shun, private, sent, faulty, active>>
vars == <<repo, work, writer, bag, hooked, err, setting, early, wrong, unread>>

TypeOK ==
    /\ repo \in Tables /\ work \in Tables
    /\ writer \in Proc \cup {None}
    /\ bag \in [Proc -> Bags]
    /\ hooked \in SUBSET Proc /\ err \in BOOLEAN
    /\ [shun |-> shun, private |-> private, sent |-> sent, faulty |-> faulty,
        active |-> active] \in Setup
    /\ early \in BOOLEAN
    /\ wrong \in SUBSET faulty /\ unread \in SUBSET Artifact

Init ==
    /\ repo = EmptyTables /\ work = EmptyTables
    /\ writer = None
    /\ bag = [p \in Proc |-> EmptyBags]
    /\ hooked = {} /\ err = FALSE
    /\ early = FALSE /\ wrong = {} /\ unread = {}
    /\ \E s \in Setup :
         /\ shun = s.shun /\ private = s.private /\ active = s.active
         /\ sent = s.sent /\ faulty = s.faulty

Flag == IF private THEN BOOLEAN ELSE {FALSE}
View(p) == IF writer = p THEN work ELSE repo
Context(p) == [db |-> View(p), bag |-> bag[p]]

-----------------------------------------------------------------------------
Begin(p) ==
    /\ writer = None
    /\ writer' = p
    /\ work' = repo
    /\ UNCHANGED <<repo, bag, hooked, err, early, wrong, unread>>

(* Process p, inside its transaction, leaves the context c behind.  A call *)
(* of verify_before_commit() also registers the commit hook.               *)
Leave(p, c) ==
    /\ writer = p
    /\ work' = c.db
    /\ bag' = [bag EXCEPT ![p] = c.bag]
    /\ hooked' = IF c.bag.verify # {} THEN hooked \cup {p} ELSE hooked
    /\ UNCHANGED <<repo, writer, unread>>

(* xfer_accept_file(): "file HASH ?DELTASRC? SIZE", after "private" or not;*)
(* right: are these the bytes that the artifact, or its delta of s, has?   *)
(* A delta whose source cannot be read is stored as it came, unless there  *)
(* is no such source (it is shunned): then it is taken for the full text.  *)
(* Otherwise the full text is stored, and crosslinked, even if its hash is *)
(* wrong; then an error is noted, and the rest of the message not read.    *)
Dangling(c, s) == s # None /\ (RidOf(c, s) = None \/ ~CanGet(c, s))
Received(c, a, isPriv) == IF isPriv THEN c ELSE MakePublic(c, a)

KeepDelta(c, a, rid, isPriv, right, worth) ==
    [ContentPut(IF rid = None THEN c ELSE AfterGet(c, rid),
                a, rid, isPriv, right /\ rid # None, worth)
       EXCEPT !.db.phantom = @ \ {a}]

KeepFile(c, a, s, isPriv, good, worth) ==
    ContentPut(IF s = None THEN c ELSE AfterGet(c, s), a, None, isPriv, good, worth)

HashFits(c, s, right) == right /\ s \notin c.db.bad

CrosslinkText(c, a, good, worth) == IF good THEN Crosslink(c, a, worth) ELSE c

AcceptFrom(c, a, s, isPriv, right, worth) ==
    LET good == HashFits(c, s, right)
    IN  IF Dangling(c, s)
          THEN Received(KeepDelta(c, a, RidOf(c, s), isPriv, right, worth), a, isPriv)
          ELSE CrosslinkText(Received(KeepFile(c, a, s, isPriv, good, worth), a, isPriv),
                             a, good, worth)

AcceptFile(c, a, s, isPriv, right, worth) ==
    AcceptFrom(IF s = None THEN c ELSE Phantomize(c, s, isPriv),
               a, s, isPriv, right, worth)

(* What is stored as a delta of something missing stays that way when it   *)
(* comes once more, but may be linked now: from the message.  So does what *)
(* is stored wrong.                                                        *)
LinksEarly(c, a, s, right) ==
    /\ ~Dangling(c, s) /\ HashFits(c, s, right)
    /\ a \in Real(c.db) /\ ~Intact(c.db, a)

ReceiveFile(p, a, s, isPriv, right, worth) ==
    LET c == Context(p)
    IN  /\ a \in sent \ shun /\ ~err
        /\ s = None \/ <<a, s>> \in DeltaSource
        /\ right \/ a \in faulty
        /\ Leave(p, AcceptFile(c, a, s, isPriv, right, worth))
        /\ err' = (~Dangling(c, s) /\ ~HashFits(c, s, right))
        /\ early' = (early \/ LinksEarly(c, a, s, right))
        /\ wrong' = IF right \/ a \in Real(c.db) THEN wrong ELSE wrong \cup {a}

(* "igot HASH ?1?" received while pulling, or while being pushed to; may   *)
(* says whether the user may sync private content.                         *)
ReceiveIgot(p, a, isPriv, may) ==
    LET c == Context(p)
        c1 == IF isPriv /\ ~may THEN c ELSE Phantomize(c, a, isPriv)
    IN  /\ a \in sent /\ ~err
        /\ Leave(p, IF a \notin Known(c1.db) THEN c1
                    ELSE IF isPriv THEN MakePrivate(c1, a) ELSE MakePublic(c1, a))
        /\ UNCHANGED <<err, early, wrong>>

(* content_deltify() as called by rebuild, commit and the web editors.     *)
Redeltify(p, a, s, force, worth) ==
    /\ a \in Known(View(p)) /\ s \in Known(View(p))
    /\ Leave(p, Deltify(Context(p), a, s, force, worth))
    /\ UNCHANGED <<err, early, wrong>>

(* "fossil publish" of an artifact.                                        *)
Publish(p, a) ==
    /\ a \in View(p).private
    /\ Leave(p, [MakePublic(Context(p), a) EXCEPT !.db.unclustered = @ \cup {a}])
    /\ UNCHANGED <<err, early, wrong>>

(* Any process reads an artifact at any time.                              *)
Read(p, a) ==
    /\ a \in Known(View(p))
    /\ bag' = [bag EXCEPT ![p] = AfterGet(Context(p), a).bag]
    /\ UNCHANGED <<repo, work, writer, hooked, err, early, wrong, unread>>

-----------------------------------------------------------------------------
(* verify_at_commit(): the caches are emptied, and every artifact of       *)
(* toVerify is read back; one that does not have its hash is a panic.      *)
(* Broken variant: only what is stored as a delta is read back.            *)
VerifyFails_DeltasOnly(p) ==
    /\ p \in hooked
    /\ \E a \in bag[p].verify :
         work.src[a] # None /\ Readable(work, a) /\ ~Intact(work, a)

VerifyFails(p) ==
    /\ p \in hooked
    /\ \E a \in bag[p].verify :
         Readable(work, a) /\ ~Intact(work, a)

BagAfterCommit(p) ==
    IF p \notin hooked THEN bag[p]
    ELSE FoldSet(LAMBDA a, acc : AfterGet([db |-> work, bag |-> acc], a).bag,
                 EmptyBags, bag[p].verify \cap Real(work))

Commit(p) ==
    /\ writer = p
    /\ ~VerifyFails(p)
    /\ repo' = work
    /\ writer' = None
    /\ bag' = [bag EXCEPT ![p] = BagAfterCommit(p)]
    /\ err' = FALSE
    /\ unread' = {a \in Real(work) : ~Readable(work, a)} \cup (unread \cap work.bad)
    /\ UNCHANGED <<work, hooked, early, wrong>>

(* The process ends: its transaction is rolled back and its memory gone.   *)
Gone(p) ==
    /\ writer' = IF writer = p THEN None ELSE writer
    /\ work' = IF writer = p THEN repo ELSE work
    /\ bag' = [bag EXCEPT ![p] = EmptyBags]
    /\ hooked' = hooked \ {p}
    /\ err' = (err /\ writer # p)
    /\ UNCHANGED <<repo, early, wrong, unread>>

VerifyPanic(p) == writer = p /\ VerifyFails(p) /\ Gone(p)
Stop(p) == Stopping /\ Gone(p)

Next ==
    /\ UNCHANGED setting
    /\ \E p \in active :
      \/ Begin(p) \/ Commit(p) \/ VerifyPanic(p) \/ Stop(p)
      \/ \E a \in Artifact :
           \/ Publish(p, a) \/ Read(p, a)
           \/ \E isPriv, may \in Flag : ReceiveIgot(p, a, isPriv, may)
           \/ \E s \in Artifact \cup {None}, worth \in {{}, Artifact} :
                \E flag \in Flag, right \in BOOLEAN :
                   ReceiveFile(p, a, s, flag, right, worth)
           \/ \E s \in Artifact, force \in BOOLEAN :
                Redeltify(p, a, s, force, Artifact)

Spec == Init /\ [][Next]_vars

-----------------------------------------------------------------------------
(* The phantom table lists exactly the artifacts without content, also in  *)
(* the middle of a transaction.                                            *)
PhantomTableExact == \A db \in {repo, work} : db.phantom = Known(db) \ Real(db)

(* What is kept beside the contents agrees with them: the phantom table is *)
(* exact; what a process believes to be available can be extracted,        *)
(* whatever the other processes have done to the delta chains since; and   *)
(* "artifacts whose record ID are in missingCache cannot be retrieved"     *)
(* (content.c:37) as long as no other process can store them.              *)
Alone == \A p, q \in active : p = q
CachesAgree ==
    /\ PhantomTableExact
    /\ \A p \in active :
         /\ \A a \in bag[p].available : Readable(View(p), a)
         /\ Alone => \A a \in bag[p].missing : ~Readable(View(p), a)

(* A committed manifest that can be read, and whose baseline can be read,  *)
(* has been crosslinked: none is invisible until the next rebuild,         *)
(* whatever wrong content lies beside it.  The exception:                  *)
(* after_dephantomize() does not go on from a manifest that has been       *)
(* linked, although its deltas have not if that was early.                 *)
ReadableIsLinked ==
    Alone /\ ~early =>
      \A a \in Artifact :
         /\ Intact(repo, a)
         /\ Baseline[a] # None => Intact(repo, Baseline[a])
         => a \in repo.linked

(* "An orphan is a delta-manifest for which we have content, but its       *)
(* baseline-manifest is a phantom" (schema.c:334): no delta-manifest waits *)
(* for a baseline that is there.  True of a process that is alone.         *)
OrphansWaitForPhantoms ==
    \A row \in repo.orphan : ~Readable(repo, row[2])

(* Content that can be extracted after a commit can be extracted after     *)
(* every later one: no deltify, undelta or receipt breaks a delta chain.   *)
ContentIsDurable ==
    [][\A a \in Artifact : Intact(repo, a) => Intact(repo', a)]_vars

(* What a may rest on, of all that peers send as a delta of what.          *)
SentFrom(a) ==
    LET closed == {S \in SUBSET Artifact : a \in S /\ \A e \in DeltaSource :
                                              e[1] \in S => e[2] \in S}
    IN  {x \in Artifact : \A S \in closed : x \in S}

(* What is wrong, and makes the verification of verify.c:48 panic if it is *)
(* read back, is wrong because a peer has sent wrong bytes for it, or for  *)
(* what it came as a delta of, or because of a source that is shunned:     *)
(* nothing that fossil does to the delta chains is ever the cause.         *)
WrongHasCause ==
    \A db \in {repo, work}, a \in Artifact :
       Readable(db, a) /\ ~Intact(db, a) => SentFrom(a) \cap (wrong \cup shun) # {}

(* What can be read and has not been committed before it could be read is  *)
(* right: the commit reads back all of it.  (What was committed as a delta *)
(* of something missing is never read back, see README.)                   *)
ReadBackIsRight ==
    \A a \in Artifact : Readable(repo, a) /\ ~Intact(repo, a) => a \in unread
=============================================================================
