----------------------------- MODULE Transaction -----------------------------
(***************************************************************************)
(* Nested transactions (db.c) with what the program keeps in memory beside *)
(* them: the artifacts to be verified before the commit (verify.c), the    *)
(* check-ins whose leaf status is to be looked at (leaf.c) and the events  *)
(* to be relayed to chat by a commit hook (alerts.c).  The memory belongs  *)
(* to the process: it outlives a rolled-back transaction and is inherited  *)
(* by the backoffice that a web page forks when it is done.  SQLite's      *)
(* locking is external: one writer, and a reader that wants to write after *)
(* another process has committed gets SQLITE_BUSY.                         *)
(***************************************************************************)
EXTENDS Naturals, FiniteSets

CONSTANTS
    Proc,       \* processes working on one repository
    Artifact,   \* artifacts they store, each at most once
    Checkin,    \* those that are check-ins: they have an event and may be leaves
    MaxNest,    \* bound: depth of nested transactions
    MaxTxn,     \* bound: transactions of each process before it closes
    None        \* no process, no artifact

TransactionAssumption ==
    /\ Checkin \subseteq Artifact /\ IsFiniteSet(Artifact)
    /\ None \notin Proc \cup Artifact
    /\ MaxNest \in Nat \ {0} /\ MaxTxn \in [Proc -> Nat]

VARIABLES
    repo,     \* the committed database: [blob, wrong, leaf, chat]
    work,     \* the database as each process sees it in its transaction
    lock,     \* the process that holds SQLite's write lock
    view,     \* "none", "current" or "stale": the snapshot a transaction reads
    proc,     \* per process: "off", "page" or "backoffice", and transactions left
    db,       \* per process: [nBegin, doRollback, changed, wrTxn]
    mem,      \* per process: [toVerify, needToCheck, triggers]
    temp      \* per process: temp.deferred_chat_events now and at BEGIN

vars == <<repo, work, lock, view, proc, db, mem, temp>>

Rid == 1..Cardinality(Artifact)

(* Tables blob (with the rids whose content does not give the artifact     *)
(* back), leaf and chat (how often each event has been relayed).           *)
Empty == [blob |-> [r \in Rid |-> None], wrong |-> {}, leaf |-> {},
          chat |-> [a \in Checkin |-> 0]]

Rows(d) == {r \in Rid : d.blob[r] # None}
Stored(d) == {d.blob[r] : r \in Rows(d)}

NoTxn == [nBegin |-> 0, doRollback |-> FALSE, changed |-> FALSE, wrTxn |-> FALSE]
NoMem == [toVerify |-> {}, needToCheck |-> {}, triggers |-> FALSE]
NoTemp == [table |-> FALSE, rows |-> {}]

Init ==
    /\ repo = Empty
    /\ work = [p \in Proc |-> Empty]
    /\ lock = None
    /\ view = [p \in Proc |-> "none"]
    /\ proc = [p \in Proc |-> [is |-> "off", left |-> 0]]
    /\ db = [p \in Proc |-> NoTxn]
    /\ mem = [p \in Proc |-> NoMem]
    /\ temp = [p \in Proc |-> [now |-> NoTemp, old |-> NoTemp]]

-----------------------------------------------------------------------------
(* SQLite: a transaction reads the database as it was when it first read   *)
(* it, and may write only while nobody has committed since.                *)

Seen(p) == IF view[p] = "none" THEN repo ELSE work[p]

MayWrite(p) == lock = p \/ (lock = None /\ view[p] # "stale")

(* Broken variant: a transaction that has changed nothing keeps the lock.  *)
Release_Changed(p) == lock' = IF lock = p /\ db[p].changed THEN None ELSE lock
Release(p) == lock' = IF lock = p THEN None ELSE lock

(* ROLLBACK: the database and the temp tables are what they were at BEGIN. *)
RolledBack(p) ==
    /\ view' = [view EXCEPT ![p] = "none"]
    /\ work' = [work EXCEPT ![p] = Empty]
    /\ temp' = [temp EXCEPT ![p].now = temp[p].old]
    /\ Release(p)
    /\ UNCHANGED repo

(* COMMIT of the database d: the other readers' snapshots become stale.    *)
Committed(p, d) ==
    LET writes == lock = p \/ d # Seen(p)
    IN  /\ repo' = IF writes THEN d ELSE repo
        /\ view' = [q \in Proc |-> IF q = p THEN "none"
                                   ELSE IF writes /\ view[q] # "none" THEN "stale" ELSE view[q]]
        /\ work' = [work EXCEPT ![p] = Empty]
        /\ Release(p)

(* The process is gone - fossil_fatal(), fossil_panic(), a kill: its       *)
(* transaction is rolled back and its memory lost.                         *)
Dies(p) ==
    /\ RolledBack(p)
    /\ proc' = [proc EXCEPT ![p] = [is |-> "off", left |-> 0]]
    /\ db' = [db EXCEPT ![p] = NoTxn]
    /\ mem' = [mem EXCEPT ![p] = NoMem]

-----------------------------------------------------------------------------
(* A command or a web page starts.                                         *)
Start(p) ==
    /\ proc[p].is = "off"
    /\ proc' = [proc EXCEPT ![p] = [is |-> "page", left |-> MaxTxn[p]]]
    /\ temp' = [temp EXCEPT ![p] = [now |-> NoTemp, old |-> NoTemp]]
    /\ UNCHANGED <<repo, work, lock, view, db, mem>>

Outermost(p, writes) ==
    /\ proc[p].left > 0
    /\ proc' = [proc EXCEPT ![p].left = @ - 1]
    /\ db' = [db EXCEPT ![p] = [NoTxn EXCEPT !.nBegin = 1, !.wrTxn = writes]]
    /\ temp' = [temp EXCEPT ![p].old = temp[p].now]

Nested(p) ==
    /\ db[p].nBegin \in 1..(MaxNest - 1)
    /\ db' = [db EXCEPT ![p].nBegin = @ + 1]
    /\ UNCHANGED <<repo, work, lock, view, proc, mem, temp>>

(* db_begin_transaction(): BEGIN, which takes no lock yet.                 *)
BeginTransaction(p) ==
    /\ proc[p].is # "off"
    /\ \/ Nested(p)
       \/ /\ db[p].nBegin = 0
          /\ Outermost(p, FALSE)
          /\ UNCHANGED <<repo, work, lock, view, mem>>

(* db_begin_write(): BEGIN IMMEDIATE waits for the write lock; inside      *)
(* another transaction it only counts (and warns if that one only reads).  *)
BeginWrite(p) ==
    /\ proc[p].is # "off"
    /\ \/ Nested(p)
       \/ /\ db[p].nBegin = 0
          /\ lock = None
          /\ Outermost(p, TRUE)
          /\ lock' = p
          /\ view' = [view EXCEPT ![p] = "current"]
          /\ work' = [work EXCEPT ![p] = repo]
          /\ UNCHANGED <<repo, mem>>

(* A query in the transaction: the snapshot is taken.                      *)
Query(p) ==
    /\ db[p].nBegin > 0
    /\ view[p] = "none"
    /\ view' = [view EXCEPT ![p] = "current"]
    /\ work' = [work EXCEPT ![p] = repo]
    /\ UNCHANGED <<repo, lock, proc, db, mem, temp>>

Writes(p, d) ==
    /\ MayWrite(p)
    /\ lock' = p
    /\ view' = [view EXCEPT ![p] = "current"]
    /\ work' = [work EXCEPT ![p] = d]
    /\ db' = [db EXCEPT ![p].changed = TRUE]

(* manifest_create_event_triggers(): the triggers, and the temp table of   *)
(* deferred chat events, are made once in the life of a process.           *)
WithTriggers(p) ==
    IF mem[p].triggers THEN temp[p].now ELSE [table |-> TRUE, rows |-> {}]

(* content_put_ex(), and manifest_crosslink() of a check-in, inside the    *)
(* caller's transaction; ok is FALSE when what was written does not give   *)
(* the artifact back (a damaged delta or delta source, a failing disk).    *)
Put(p, a, ok) ==
    LET d == Seen(p)
        r == CHOOSE i \in Rid \ Rows(d) : \A j \in Rid \ Rows(d) : i <= j
        ev == WithTriggers(p)
    IN /\ proc[p].is = "page"
       /\ db[p].nBegin > 0
       /\ a \notin Stored(d)
       /\ Writes(p, [d EXCEPT !.blob[r] = a,
                              !.wrong = IF ok THEN @ ELSE @ \cup {r}])
       /\ mem' = [mem EXCEPT ![p].toVerify = @ \cup {r},
                             ![p].needToCheck = IF a \in Checkin THEN @ \cup {r} ELSE @,
                             ![p].triggers = @ \/ a \in Checkin]
       /\ temp' = IF a \notin Checkin THEN temp
                  ELSE [temp EXCEPT ![p].now =
                          IF ev.table THEN [ev EXCEPT !.rows = @ \cup {a}] ELSE ev]
       /\ UNCHANGED <<repo, proc>>

(* Any other change in a transaction: a setting, the backoffice lease.     *)
Touch(p) ==
    /\ db[p].nBegin > 0
    /\ ~db[p].changed
    /\ Writes(p, Seen(p))
    /\ UNCHANGED <<repo, proc, mem, temp>>

-----------------------------------------------------------------------------
(* db_end_transaction().                                                   *)

(* leaf_do_pending_checks(): only when the transaction has changed         *)
(* something.  A row without children is a leaf, whatever it is.           *)
LeafChecks(p, d) == IF db[p].changed THEN [d EXCEPT !.leaf = @ \cup mem[p].needToCheck] ELSE d

(* alert_process_deferred_triggers(), the hook of sequence 1: every row of *)
(* the temp table becomes a chat message.  The rows stay in the table.     *)
(* Broken variant: only db_begin_write() makes an event worth relaying.    *)
Relayed_Write(p) == IF temp[p].now.table /\ db[p].wrTxn THEN temp[p].now.rows ELSE {}
Relayed(p) == IF temp[p].now.table THEN temp[p].now.rows ELSE {}
ChatHook(p, d) == [d EXCEPT !.chat = [a \in Checkin |-> IF a \in Relayed(p) THEN @[a] + 1 ELSE @[a]]]

(* verify_at_commit(), the hook of sequence 1000: it ends the process when *)
(* a row it was asked to verify cannot be read back, or is not there.      *)
VerifyHook(p, d) == \A r \in mem[p].toVerify : r \in Rows(d) /\ r \notin d.wrong

(* Broken variant: the last level to end decides.                          *)
Inner_Last(p, rollback) ==
    /\ db[p].nBegin > 1
    /\ db' = [db EXCEPT ![p].nBegin = @ - 1, ![p].doRollback = rollback]
    /\ UNCHANGED <<repo, work, lock, view, proc, mem, temp>>
Inner(p, rollback) ==
    /\ db[p].nBegin > 1
    /\ db' = [db EXCEPT ![p].nBegin = @ - 1, ![p].doRollback = @ \/ rollback]
    /\ UNCHANGED <<repo, work, lock, view, proc, mem, temp>>

(* ROLLBACK: what is in memory stays.  The callers that roll back and do   *)
(* not end the process (a dry run of a web page, an error reply) open no   *)
(* further transaction of their own.                                       *)
Rollback(p, rollback) ==
    /\ db[p].nBegin = 1
    /\ db[p].doRollback \/ rollback
    /\ RolledBack(p)
    /\ db' = [db EXCEPT ![p] = NoTxn]
    /\ proc' = [proc EXCEPT ![p].left = 0]
    /\ UNCHANGED mem

(* The leaf checks and the hooks run in the transaction, then COMMIT.  The *)
(* chat hook may be the first to write, and needs the lock then.           *)
Commit(p, rollback) ==
    LET d == ChatHook(p, LeafChecks(p, Seen(p)))
    IN /\ db[p].nBegin = 1
       /\ ~db[p].doRollback /\ ~rollback
       /\ d # Seen(p) => MayWrite(p)
       /\ IF VerifyHook(p, d)
          THEN /\ Committed(p, d)
               /\ db' = [db EXCEPT ![p] = NoTxn]
               /\ mem' = [mem EXCEPT ![p].toVerify = {},
                                     ![p].needToCheck = IF db[p].changed THEN {} ELSE @]
               /\ UNCHANGED <<proc, temp>>
          ELSE Dies(p)

EndTransaction(p) ==
    \E rollback \in BOOLEAN :
        Inner(p, rollback) \/ Rollback(p, rollback) \/ Commit(p, rollback)

-----------------------------------------------------------------------------
(* SQLITE_BUSY: a write, or BEGIN IMMEDIATE when the busy timeout has run  *)
(* out, fails; the error is fatal.                                         *)
Busy(p) ==
    /\ proc[p].is # "off"
    /\ IF db[p].nBegin = 0 THEN lock \notin {None, p} ELSE ~MayWrite(p)
    /\ Dies(p)

Kill(p) == proc[p].is # "off" /\ Dies(p)

(* db_close(): a transaction still open is rolled back; the backoffice a   *)
(* page then forks (or runs itself) opens the database again, with the     *)
(* memory the page leaves behind and no temp tables.                       *)
Close(p) ==
    /\ proc[p].is = "page"
    /\ view' = [view EXCEPT ![p] = "none"]
    /\ work' = [work EXCEPT ![p] = Empty]
    /\ Release(p)
    /\ temp' = [temp EXCEPT ![p] = [now |-> NoTemp, old |-> NoTemp]]
    /\ db' = [db EXCEPT ![p] = NoTxn]
    /\ proc' = [proc EXCEPT ![p] = [is |-> "backoffice", left |-> 1]]
    /\ UNCHANGED <<repo, mem>>

Next ==
    \E p \in Proc :
        \/ Start(p)
        \/ BeginTransaction(p)
        \/ BeginWrite(p)
        \/ Query(p)
        \/ \E a \in Artifact, ok \in BOOLEAN : Put(p, a, ok)
        \/ Touch(p)
        \/ EndTransaction(p)
        \/ Busy(p)
        \/ Kill(p)
        \/ Close(p)

Spec == Init /\ [][Next]_vars

-----------------------------------------------------------------------------
(* The types of the state.                                                 *)
TypeOK ==
    /\ \A d \in {repo} \cup {work[p] : p \in Proc} :
          /\ d.blob \in [Rid -> Artifact \cup {None}]
          /\ d.wrong \subseteq Rows(d)
          /\ d.leaf \subseteq Rid
          /\ \A r, s \in Rows(d) : d.blob[r] = d.blob[s] => r = s
    /\ lock \in Proc \cup {None}
    /\ \A p \in Proc :
          /\ db[p].nBegin \in 0..MaxNest
          /\ db[p].nBegin = 0 => db[p] = NoTxn /\ view[p] = "none" /\ lock # p
          /\ db[p].wrTxn \/ db[p].changed => lock = p
          /\ lock = p => view[p] = "current"
          /\ mem[p].toVerify \cup mem[p].needToCheck \subseteq Rid

(* The transactions of db.c are atomic: whatever the nesting, a rollback   *)
(* asked for at any level (attach.c:875, fileedit.c:679) undoes the whole, *)
(* and what is committed has been verified.                                *)
Gathered(p) == Stored(work[p]) \ Stored(repo)
Atomic == INSTANCE AtomicStore WITH
    store <- Stored(repo),
    todo <- [p \in Proc |-> IF lock = p THEN Gathered(p) ELSE {}],
    broken <- [p \in Proc |-> IF lock = p THEN {work[p].blob[r] : r \in work[p].wrong} ELSE {}],
    refused <- [p \in Proc |-> db[p].doRollback]
AtomicInit == Atomic!Init
AtomicStep == [Atomic!Next]_(Atomic!vars)
IsAtomic == Atomic!Spec

(* A row of table leaf names an artifact that exists, even though the list *)
(* of check-ins to look at survives a rollback (db.c:301) and is worked    *)
(* off by the next commit of the process: the verification of that same    *)
(* commit fails.                                                           *)
LeafRowsExist == repo.leaf \subseteq Rows(repo)

(* No event is lost: a check-in is relayed to chat in the transaction that *)
(* stores it (alerts.c:199-204).                                           *)
EventsReachChat == \A a \in Stored(repo) \cap Checkin : repo.chat[a] > 0

(* What the commit derives from memory is right: no leaf without an        *)
(* artifact, and no artifact without its event.                            *)
DerivedIsRight == LeafRowsExist /\ EventsReachChat
=============================================================================
