-------------------------------- MODULE Undo --------------------------------
(***************************************************************************)
(* The commands that change the files of a check-out, and how they are     *)
(* taken back: undo and redo (src/src/undo.c), update and revert           *)
(* (update.c), merge (merge.c), stash (stash.c), checkout (checkout.c).    *)
(*                                                                         *)
(* A command changes one file after another, and the check-out database in *)
(* one transaction.  If it fails, the files already changed are restored   *)
(* from the undo log and the transaction is rolled back.  If it is killed, *)
(* only the transaction is.                                                *)
(*                                                                         *)
(* A file content is a text of the repository, and the edits the user made *)
(* to it.  Merging keeps the edits of both sides.                          *)
(***************************************************************************)
EXTENDS Naturals, Sequences, FiniteSets

CONSTANTS
    Path, Root, Leaf,   \* paths; a check-in, and children of it
    File,               \* File[v][p]: text of p in check-in v, or "absent"
    Commands,           \* the commands that are run
    Excused,            \* commands that "undo" need not restore
    StashRemoved,       \* is "stash save" run with edits in removed files
    MaxEdits, MaxStash, MaxFaults,
    MaxTurns            \* bound on the commands other than undo and redo,
                        \* and on the changes by the user

Version == Leaf \cup {Root}
Absent == [text |-> "absent", edits |-> {}]
Text(v, p) == [text |-> File[v][p], edits |-> {}]

UndoAssumption ==
    /\ Root \notin Leaf /\ StashRemoved \in BOOLEAN
    /\ File \in [Version -> [Path -> STRING]]
    /\ MaxEdits \in Nat \ {0} /\ MaxStash \in Nat /\ MaxFaults \in Nat /\ MaxTurns \in Nat

VARIABLES
    disk,     \* the content of each path
    backup,   \* the edits in the "-original" files
    vdb,      \* the check-out database, as the running command sees it
    committed,  \* ... as it is committed
    cmd,      \* the running command
    last,     \* the last command, and how it ended
    before,   \* the check-out when the last command began
    marks,    \* the check-out before and after the last undoable command,
              \* or <<>> when something else has changed it since
    edits, faults, turns

undoVars == <<disk, backup, vdb, committed, cmd, last, before, marks,
              edits, faults, turns>>

(* A row of vfile: rid is the content at the check-in, Absent for an added *)
(* file; mrid what a merge made of it; merged is vfile.chnged in 2..5.     *)
VFileRow(c) == [rid |-> c, mrid |-> c, merged |-> "no", deleted |-> FALSE]
VFile(v) == [p \in {q \in Path : File[v][q] # "absent"} |-> VFileRow(Text(v, p))]

Added(row) == row.rid = Absent

(* vfile.chnged, after vfile_check_signature().                            *)
Changed(row, content) ==
    \/ row.deleted \/ Added(row) \/ row.merged # "no"
    \/ content # row.mrid

NoLog(d) == [rows |-> <<>>, vf |-> d.vf, mg |-> d.mg, co |-> d.co, stash |-> <<>>]
UndoReset(d) == [d EXCEPT !.avail = 0, !.log = NoLog(d)]
UndoBegin(d) == [d EXCEPT !.avail = 1, !.log = NoLog(d)]

(* todo[p]: what is written to p; the content that is first put in the     *)
(* log, if any; is the old content copied to an "-original" file.          *)
(* cmd.then is what comes after: the second part of the command.           *)
Idle == [name |-> "none", todo |-> <<>>, db |-> <<>>, then |-> "none", arg |-> 0]

Tree(d) == [disk |-> disk, vf |-> d.vf, mg |-> d.mg, co |-> d.co, stash |-> d.stash]

With(f, k, x) == [i \in DOMAIN f \cup {k} |-> IF i = k THEN x ELSE f[i]]
Drop(f, K) == [i \in DOMAIN f \ K |-> f[i]]
EditsOf(f) == UNION {f[p].edits : p \in DOMAIN f}
StashEdits(s) ==
    UNION {EditsOf([p \in DOMAIN s[i].files |-> s[i].files[p].content]) : i \in DOMAIN s}

(* Clean content comes from the repository, without edits by the user.     *)
Texts == {"absent", "new"} \cup {File[v][p] : v \in Version, p \in Path}
Content == [text : Texts, edits : SUBSET (1 .. MaxEdits)]
Clean == [text : Texts, edits : {{}}]
FileRow == [rid : Clean, mrid : Clean, merged : {"no", "merged", "added"}, deleted : BOOLEAN]
LogRow == [redo : BOOLEAN, content : Content]
Entry == [op : {"add", "remove", "edit"}, rid : Clean, content : Content]
WriteOf == [to : Content, log : BOOLEAN, saved : Content, copy : BOOLEAN]

IsMap(m, D, R) == DOMAIN m \subseteq D /\ m \in [DOMAIN m -> R]

(* Of a database, of its undo log and of a state of the check-out.         *)
TablesOK(d) ==
    /\ IsMap(d.vf, Path, FileRow) /\ d.mg \subseteq Version /\ d.co \in Version
    /\ DOMAIN d.stash \subseteq 1 .. MaxStash
    /\ \A i \in DOMAIN d.stash :
         d.stash[i].co \in Version /\ IsMap(d.stash[i].files, Path, Entry)
DatabaseOK(d) ==
    /\ TablesOK(d) /\ TablesOK(d.log) /\ IsMap(d.log.rows, Path, LogRow)
    /\ d.next \in 1 .. MaxStash + 1 /\ d.avail \in 0 .. 2

UndoTypeOK ==
    /\ disk \in [Path -> Content] /\ backup \subseteq 1 .. MaxEdits
    /\ DatabaseOK(vdb) /\ DatabaseOK(committed)
    /\ before.disk \in [Path -> Content] /\ TablesOK(before)
    /\ IF cmd.name = "none" THEN cmd = Idle
       ELSE cmd.name \in Commands /\ IsMap(cmd.todo, Path, WriteOf) /\ DatabaseOK(cmd.db)
    /\ edits \in 0 .. MaxEdits /\ faults \in 0 .. MaxFaults /\ turns \in 0 .. MaxTurns

(* Content c, edited once more.                                            *)
Edited(c, e) == [text |-> IF c = Absent THEN "new" ELSE c.text, edits |-> c.edits \cup {e}]

(* The user has edited, or made, one file.                                 *)
UndoInit ==
    /\ \E p \in Path :
         disk = [q \in Path |-> IF q # p THEN Text(Root, q)
                                ELSE Edited(Text(Root, q), 1)]
    /\ backup = {}
    /\ vdb = [vf |-> VFile(Root), mg |-> {}, co |-> Root, stash |-> <<>>, next |-> 1,
              avail |-> 0, log |-> [rows |-> <<>>, vf |-> VFile(Root), mg |-> {},
                                    co |-> Root, stash |-> <<>>]]
    /\ committed = vdb /\ cmd = Idle
    /\ last = [name |-> "none", how |-> "done"]
    /\ before = Tree(vdb) /\ marks = <<>>
    /\ edits = 1 /\ faults = 0 /\ turns = 0

-----------------------------------------------------------------------------
(* What the commands write.  Each gives todo and the database at the end.  *)

Write(p, to, log) == [to |-> to, log |-> log, saved |-> disk[p], copy |-> FALSE]

(* Three-way merge of other, which was made from pivot, into local.        *)
Merge3(pivot, local, other) ==
    [text |-> IF local.text = pivot.text THEN other.text ELSE local.text,
     edits |-> local.edits \cup (other.edits \ pivot.edits)]

(* update_cmd(): a row of the current version, a row of the target.        *)
UpdateOne(d, t, p, log) ==
    LET managed == p \in DOMAIN d.vf
        row == d.vf[p]
        to == Text(t, p)
        chnged == Changed(row, disk[p])
    IN  IF ~managed
        THEN IF to = Absent THEN {}
             ELSE {[to |-> to, log |-> log, saved |-> Absent, copy |-> disk[p] # Absent]}
        ELSE IF to = Absent
        THEN IF Added(row) \/ chnged THEN {} ELSE {Write(p, Absent, log)}
        ELSE IF Added(row) THEN {}
        ELSE IF (row.rid # to /\ (~chnged \/ row.deleted)) \/ (~row.deleted /\ disk[p] = Absent)
        THEN {Write(p, to, log)}
        ELSE IF row.rid # to THEN {Write(p, Merge3(row.rid, disk[p], to), log)}
        ELSE {}

(* A todo function of the sets of at most one write per path.              *)
Todo(W) == [p \in {q \in Path : W[q] # {}} |-> CHOOSE w \in W[p] : TRUE]

UpdateTo(d, t, log) ==
    LET kept == {p \in DOMAIN d.vf : Added(d.vf[p]) /\ File[t][p] = "absent"}
        new == VFile(t)
    IN  [todo |-> Todo([p \in Path |-> UpdateOne(d, t, p, log)]),
         db |-> [d EXCEPT !.co = t,
                   !.vf = [p \in DOMAIN new \cup kept |->
                             IF p \in kept THEN d.vf[p]
                             ELSE [new[p] EXCEPT
                                     !.deleted = p \in DOMAIN d.vf /\ d.vf[p].deleted]]]]

(* revert_cmd() for the files in S.                                        *)
Reverted(d, S, log) ==
    LET unmanaged(p) == p \notin DOMAIN d.vf \/ Added(d.vf[p])
        gone == {p \in S : File[d.co][p] = "absent"}
    IN  [todo |-> Todo([p \in Path |->
                    IF p \notin S \/ (p \in gone /\ unmanaged(p)) THEN {}
                    ELSE {Write(p, Text(d.co, p), log)}]),
         db |-> [d EXCEPT !.vf = [p \in DOMAIN @ \ gone |->
                   IF p \in S THEN VFileRow(@[p].rid) ELSE @[p]]]]

(* stash_create(): the changed files, and what stash_apply() does.         *)
StashEntry(d) ==
    [p \in {q \in DOMAIN d.vf : Changed(d.vf[q], disk[q])} |->
       LET row == d.vf[p]
       IN  IF Added(row) THEN [op |-> "add", rid |-> Absent, content |-> disk[p]]
           ELSE IF row.deleted THEN [op |-> "remove", rid |-> row.mrid, content |-> Absent]
           ELSE [op |-> "edit", rid |-> row.mrid, content |-> disk[p]]]

Applied(d, id) ==
    LET s == d.stash[id].files
        added == {p \in DOMAIN s : s[p].op = "add"}
        result(p) ==
          IF s[p].op # "edit" \/ disk[p] = s[p].rid THEN s[p].content
          ELSE Merge3(s[p].rid, disk[p], s[p].content)
    IN  [todo |-> [p \in DOMAIN s |-> Write(p, result(p), TRUE)],
         db |-> [d EXCEPT !.vf =
                   [p \in DOMAIN @ \cup added |->
                      IF p \notin DOMAIN @ THEN VFileRow(Absent)
                      ELSE IF p \in added THEN [@[p] EXCEPT !.deleted = FALSE]
                      ELSE @[p]]]]

(* merge_cmd(): p(ivot), v (current) and m(erged) of each file.            *)
Pivot(d, m) == IF m \in d.mg \cup {d.co, Root} THEN m ELSE Root

RidP(d, m, p) ==
    IF Pivot(d, m) # d.co THEN Text(Pivot(d, m), p)
    ELSE IF p \in DOMAIN d.vf /\ d.vf[p].merged # "added" THEN d.vf[p].rid ELSE Absent

MergeHow(d, m, p) ==
    LET row == d.vf[p]
        ridp == RidP(d, m, p)
        ridm == Text(m, p)
    IN  IF p \notin DOMAIN d.vf
        THEN IF ridp = Absent /\ ridm # Absent THEN "add" ELSE "keep"
        ELSE IF ridm = Absent THEN IF ridp # Absent THEN "remove" ELSE "keep"
        ELSE IF ridm = ridp THEN "keep"
        ELSE IF row.rid = ridp /\ ~Changed(row, disk[p]) THEN "copy" ELSE "merge"

MergeOne(d, m, p) ==
    LET how == MergeHow(d, m, p)
    IN  CASE how = "copy" -> {Write(p, Text(m, p), TRUE)}
          [] how = "merge" -> {Write(p, Merge3(RidP(d, m, p), disk[p], Text(m, p)), TRUE)}
          [] how = "remove" -> {Write(p, Absent, TRUE)}
          [] how = "add" -> {[Write(p, Text(m, p), TRUE) EXCEPT !.copy = disk[p] # Absent]}
          [] how = "keep" -> {}

MergedRow(d, m, p) ==
    LET how == MergeHow(d, m, p)
    IN  CASE how = "add" -> [VFileRow(Text(m, p)) EXCEPT !.merged = "added"]
          [] how = "copy" -> [d.vf[p] EXCEPT !.mrid = Text(m, p), !.merged = "merged"]
          [] how = "remove" -> [d.vf[p] EXCEPT !.deleted = TRUE]
          [] OTHER -> d.vf[p]

MergeInto(d, m) ==
    [todo |-> Todo([p \in Path |-> MergeOne(d, m, p)]),
     db |-> [d EXCEPT !.mg = @ \cup {m},
               !.vf = [p \in DOMAIN @ \cup {q \in Path : MergeHow(d, m, q) = "add"} |->
                         MergedRow(d, m, p)]],
     conflict |-> \E p \in DOMAIN d.vf :
                    MergeHow(d, m, p) = "remove" /\ Changed(d.vf[p], disk[p])]

-----------------------------------------------------------------------------
(* The steps of a command.                                                 *)

(* A command begins: d is its database so far, plan its writes.            *)
StartCommand(name, d, plan, then, arg) ==
    /\ cmd.name = "none" /\ name \in Commands
    /\ IF name \in {"undo", "redo"} THEN UNCHANGED turns
       ELSE turns < MaxTurns /\ turns' = turns + 1
    /\ vdb' = d
    /\ cmd' = [name |-> name, todo |-> plan.todo, db |-> plan.db, then |-> then, arg |-> arg]
    /\ before' = Tree(vdb)
    /\ UNCHANGED <<disk, backup, committed, last, marks, edits, faults>>

Simple(name, plan) == StartCommand(name, UndoBegin(vdb), plan, "none", 0)

(* An update that overwrites unmanaged files leaves copies of them.        *)
Update(t) ==
    LET plan == UpdateTo(UndoBegin(vdb), t, TRUE)
        copies == \E p \in DOMAIN plan.todo : plan.todo[p].copy
    IN  Simple(IF copies THEN "overwrite" ELSE "update", plan)

RevertAll ==
    LET d == [UndoBegin(vdb) EXCEPT !.mg = {}]
    IN  Simple("revert", Reverted(d, {p \in DOMAIN d.vf : Changed(d.vf[p], disk[p])}, TRUE))
RevertFile(p) == Simple("revert", Reverted(UndoBegin(vdb), {p}, TRUE))

Merge(m) ==
    /\ Pivot(vdb, m) # m
    /\ Simple("merge", MergeInto(UndoBegin(vdb), m))

(* "merge m n": the second merge is not tried after a conflict.            *)
Merge2(m, n) ==
    LET plan == MergeInto(UndoBegin(vdb), m)
    IN  /\ Pivot(vdb, m) # m /\ ~plan.conflict
        /\ StartCommand("merge2", UndoBegin(vdb), plan, "merge", n)

StashApply(id) ==
    /\ id \in DOMAIN vdb.stash
    /\ Simple("apply", Applied(UndoBegin(vdb), id))

(* The entry that is popped, or dropped, goes into the undo log.           *)
Popped(d, id) == [d EXCEPT !.log.stash = With(@, id, d.stash[id]), !.stash = Drop(@, {id})]

StashPop(id) ==
    /\ id \in DOMAIN vdb.stash /\ \A i \in DOMAIN vdb.stash : i <= id
    /\ LET plan == Applied(UndoBegin(vdb), id)
       IN  Simple("pop", [plan EXCEPT !.db = Popped(@, id)])

StashDrop(id) ==
    /\ id \in DOMAIN vdb.stash
    /\ Simple("drop", [todo |-> <<>>, db |-> Popped(UndoBegin(vdb), id)])

(* The entry is committed before the files are reverted, without undo.     *)
StashSave ==
    LET entry == StashEntry(vdb)
        d == [vdb EXCEPT !.stash = With(@, vdb.next, [co |-> vdb.co, files |-> entry]),
                      !.next = @ + 1]
        hidden == {p \in DOMAIN entry : entry[p].op = "remove" /\ disk[p].edits # {}}
    IN  /\ vdb.next <= MaxStash /\ DOMAIN entry # {}
        /\ hidden = {} \/ StashRemoved
        /\ StartCommand("save", vdb, [todo |-> <<>>, db |-> d], "revert", 0)

StashGoto(id) ==
    /\ id \in DOMAIN vdb.stash
    /\ LET d == UndoBegin(vdb)
       IN  StartCommand("goto", d, UpdateTo(d, vdb.stash[id].co, FALSE), "apply", id)

(* "checkout v" without --force; an unmanaged file is not overwritten.     *)
Checkout(v) ==
    /\ v # vdb.co /\ \A p \in DOMAIN vdb.vf : ~Changed(vdb.vf[p], disk[p])
    /\ StartCommand("checkout", vdb,
             [todo |-> Todo([p \in Path |->
                  IF p \notin DOMAIN vdb.vf /\ (disk[p] # Absent \/ File[v][p] = "absent")
                  THEN {} ELSE {Write(p, Text(v, p), FALSE)}]),
              db |-> UndoReset([vdb EXCEPT !.co = v, !.mg = {}, !.vf = VFile(v)])],
             "none", 0)

(* undo_all(): the files, then the tables.                                 *)
Swapped(redo, P) ==
    [p \in {q \in P \cap DOMAIN vdb.log.rows : vdb.log.rows[q].redo = redo} |->
       Write(p, vdb.log.rows[p].content, TRUE)]

Undo ==
    LET lg == vdb.log
    IN  /\ vdb.avail = 1
        /\ StartCommand("undo", vdb,
                 [todo |-> Swapped(FALSE, Path),
                  db |-> [vdb EXCEPT !.avail = 2,
                            !.vf = lg.vf, !.mg = lg.mg, !.co = lg.co,
                            !.log.vf = vdb.vf, !.log.mg = vdb.mg, !.log.co = vdb.co,
                            !.stash = [i \in DOMAIN @ \cup DOMAIN lg.stash |->
                                         IF i \in DOMAIN @ THEN @[i] ELSE lg.stash[i]]]],
                 "none", 0)

Redo ==
    LET lg == vdb.log
    IN  /\ vdb.avail = 2
        /\ StartCommand("redo", vdb,
                 [todo |-> Swapped(TRUE, Path),
                  db |-> [vdb EXCEPT !.avail = 1,
                            !.vf = lg.vf, !.mg = lg.mg, !.co = lg.co,
                            !.log.vf = vdb.vf, !.log.mg = vdb.mg, !.log.co = vdb.co,
                            !.stash = Drop(@, DOMAIN lg.stash)]],
                 "none", 0)

(* "undo FILE" and "redo FILE".                                            *)
UndoFile(p, redo) ==
    /\ vdb.avail # 0
    /\ StartCommand("undofile", vdb, [todo |-> Swapped(redo, {p}), db |-> vdb], "none", 0)

Swapping == cmd.name \in {"undo", "redo", "undofile"}

(* undo_save() and the write of one file; undo_one() for undo and redo.    *)
(* Broken variant: undo_one() does not flip the redo flag.                 *)
Logged_NoFlip(rows, p) ==
    LET w == cmd.todo[p]
    IN  IF ~w.log THEN rows
        ELSE IF Swapping THEN [rows EXCEPT ![p].content = w.saved]
        ELSE IF p \in DOMAIN rows THEN rows
        ELSE With(rows, p, [redo |-> FALSE, content |-> w.saved])
Logged(rows, p) ==
    LET w == cmd.todo[p]
    IN  IF ~w.log THEN rows
        ELSE IF Swapping
        THEN [rows EXCEPT ![p] = [redo |-> ~@.redo, content |-> w.saved]]
        ELSE IF p \in DOMAIN rows THEN rows
        ELSE With(rows, p, [redo |-> FALSE, content |-> w.saved])

Step(p) ==
    /\ p \in DOMAIN cmd.todo
    /\ disk' = [disk EXCEPT ![p] = cmd.todo[p].to]
    /\ backup' = IF cmd.todo[p].copy THEN backup \cup disk[p].edits ELSE backup
    /\ vdb' = [vdb EXCEPT !.log.rows = Logged(@, p)]
    /\ cmd' = [cmd EXCEPT !.todo = Drop(@, {p})]
    /\ UNCHANGED <<committed, last, before, marks, edits, faults, turns>>

(* All files of this part of the command are written.                      *)
(* Broken variant: the undo log survives undo_reset().                     *)
Finished(then) == cmd.name # "none" /\ DOMAIN cmd.todo = {} /\ cmd.then = then
Result_KeepLog == [cmd.db EXCEPT !.log.rows = vdb.log.rows]
Result == IF cmd.db.avail = 0 THEN cmd.db ELSE [cmd.db EXCEPT !.log.rows = vdb.log.rows]

Undoable == {"update", "overwrite", "revert", "merge", "merge2", "apply", "pop", "drop", "goto"}

Finish ==
    /\ Finished("none")
    /\ vdb' = Result /\ committed' = Result /\ cmd' = Idle
    /\ last' = [name |-> cmd.name, how |-> "done"]
    /\ marks' = IF cmd.name \in Undoable \ Excused THEN <<before, Tree(Result)>>
                ELSE IF cmd.name \in {"undo", "redo"} THEN marks
                ELSE <<>>
    /\ UNCHANGED <<disk, backup, before, edits, faults, turns>>

Continue(plan) == cmd' = [cmd EXCEPT !.todo = plan.todo, !.db = plan.db, !.then = "none"]
Unfinished == UNCHANGED <<disk, backup, last, before, marks, edits, faults, turns>>

(* The second part of "stash goto", "stash save" and "merge m n".          *)
ThenApply ==
    /\ Finished("apply")
    /\ vdb' = Result
    /\ Continue(Applied(Result, cmd.arg))
    /\ UNCHANGED committed /\ Unfinished

(* Broken variant: "stash save" is one transaction.                        *)
ThenRevert_OneCommit ==
    /\ Finished("revert")
    /\ vdb' = Result
    /\ Continue(Reverted(Result, DOMAIN Result.stash[Result.next - 1].files, FALSE))
    /\ UNCHANGED committed /\ Unfinished
ThenRevert ==
    /\ Finished("revert")
    /\ vdb' = Result /\ committed' = Result
    /\ Continue(Reverted(Result, DOMAIN Result.stash[Result.next - 1].files, FALSE))
    /\ Unfinished

ThenMerge ==
    /\ Finished("merge") /\ Pivot(Result, cmd.arg) # cmd.arg
    /\ vdb' = UndoBegin(Result)
    /\ Continue(MergeInto(UndoBegin(Result), cmd.arg))
    /\ UNCHANGED committed /\ Unfinished

(* The command ends early, and the transaction is rolled back.             *)
EndEarly(how) ==
    /\ cmd.name # "none"
    /\ vdb' = committed /\ cmd' = Idle
    /\ last' = [name |-> cmd.name, how |-> how]
    /\ marks' = IF how = "failed" /\ cmd.name \in Undoable \ Excused THEN marks ELSE <<>>
    /\ UNCHANGED <<committed, before, edits, turns>>

(* A second merge that is a no-op returns from the command.                *)
Skip ==
    /\ Finished("merge") /\ Pivot(Result, cmd.arg) = cmd.arg
    /\ EndEarly("skipped")
    /\ UNCHANGED <<disk, backup, faults>>

(* fossil_fatal() restores the files in the log, except in undo_cmd().     *)
(* Broken variant: it does not.                                            *)
Restored_Not == disk
Restored == [p \in Path |-> IF p \in DOMAIN vdb.log.rows /\ ~vdb.log.rows[p].redo
                            THEN vdb.log.rows[p].content ELSE disk[p]]
NeedsRollback == ~Swapping /\ cmd.name \notin {"save", "checkout"}

Fail ==
    /\ faults < MaxFaults /\ faults' = faults + 1
    /\ disk' = IF NeedsRollback THEN Restored ELSE disk
    /\ EndEarly("failed")
    /\ UNCHANGED backup

KillCommand ==
    /\ faults < MaxFaults /\ faults' = faults + 1
    /\ EndEarly("killed")
    /\ UNCHANGED <<disk, backup>>

-----------------------------------------------------------------------------
(* The user, between commands.                                             *)

ByUser(d) ==
    /\ cmd.name = "none"
    /\ turns < MaxTurns /\ turns' = turns + 1
    /\ vdb' = d /\ committed' = d /\ before' = Tree(vdb) /\ marks' = <<>>
    /\ last' = [name |-> "user", how |-> "done"]
    /\ UNCHANGED <<backup, cmd, faults>>

Edit(p) ==
    /\ edits < MaxEdits /\ edits' = edits + 1
    /\ disk' = [disk EXCEPT ![p] = Edited(@, edits + 1)]
    /\ ByUser(vdb)

Erase(p) ==
    /\ disk[p].edits = {} /\ disk[p] # Absent
    /\ disk' = [disk EXCEPT ![p] = Absent]
    /\ ByUser(vdb) /\ UNCHANGED edits

Add(p) ==
    /\ disk[p] # Absent
    /\ p \in DOMAIN vdb.vf => vdb.vf[p].deleted
    /\ ByUser([vdb EXCEPT !.vf = IF p \in DOMAIN @ THEN [@ EXCEPT ![p].deleted = FALSE]
                                ELSE With(@, p, VFileRow(Absent))])
    /\ UNCHANGED <<disk, edits>>

RemoveFile(p) ==
    /\ p \in DOMAIN vdb.vf /\ ~vdb.vf[p].deleted
    /\ ByUser([vdb EXCEPT !.vf = IF Added(@[p]) THEN Drop(@, {p})
                                ELSE [@ EXCEPT ![p].deleted = TRUE]])
    /\ UNCHANGED <<disk, edits>>

UndoNext ==
    \/ \E t \in Version : Update(t) \/ Checkout(t) \/ Merge(t)
    \/ \E m, n \in Version : Merge2(m, n)
    \/ RevertAll \/ StashSave \/ Undo \/ Redo
    \/ \E id \in 1 .. MaxStash :
         StashApply(id) \/ StashPop(id) \/ StashDrop(id) \/ StashGoto(id)
    \/ \E p \in Path :
         \/ Step(p) \/ RevertFile(p) \/ Edit(p) \/ Erase(p) \/ Add(p) \/ RemoveFile(p)
         \/ \E redo \in BOOLEAN : UndoFile(p, redo)
    \/ Finish \/ ThenApply \/ ThenRevert \/ ThenMerge \/ Skip
    \/ Fail \/ KillCommand

UndoSpec == UndoInit /\ [][UndoNext]_undoVars

-----------------------------------------------------------------------------
(* As long as nothing else changes the check-out, "undo" brings back its   *)
(* files, tables, merges, check-in and stash as they were before the last  *)
(* undoable command, and "redo" as they were after it, however often.      *)
UndoRestores ==
    /\ UndoTypeOK
    /\ cmd.name = "none" /\ marks # <<>> =>
         /\ vdb.avail = 1 => Tree(vdb) = marks[2]
         /\ vdb.avail = 2 => Tree(vdb) = marks[1]

(* An undoable command that fails half way has changed nothing.            *)
FailureChangesNothing ==
    last.how = "failed" /\ last.name \in Undoable \ Excused /\ cmd.name = "none"
      => Tree(vdb) = before

(* No command loses an edit: what was in a file or in the stash when it    *)
(* began is afterwards in a file, a backup file, the stash or the undo     *)
(* log.  A command that is killed may, and an undo that fails; but the     *)
(* edits that "stash save" removes from the files are in the stash.  And   *)
(* "stash goto" may: it checks out without a log, and writes over a file   *)
(* that is removed from the check-out but still there, with edits.         *)
Hidden(t) == {p \in DOMAIN t.vf : t.vf[p].deleted /\ t.disk[p].edits # {}}
Unsafe == \/ last.how = "killed" /\ last.name # "save"
          \/ last.how = "failed" /\ last.name \in {"undo", "redo", "undofile"}
          \/ last.name = "goto" /\ Hidden(before) # {}
Kept == EditsOf(disk) \cup backup \cup StashEdits(vdb.stash) \cup StashEdits(vdb.log.stash)
          \cup EditsOf([p \in DOMAIN vdb.log.rows |-> vdb.log.rows[p].content])
EditsSurvive ==
    cmd.name = "none" /\ last.name # "user" /\ ~Unsafe =>
      EditsOf(before.disk) \cup StashEdits(before.stash) \subseteq Kept
=============================================================================
