----------------------------- MODULE UndoProofs -----------------------------
(***************************************************************************)
(* Theorems about module Undo: for any files, check-ins, edits, stash      *)
(* entries and faults, undo and redo bring back the check-out, a command   *)
(* that fails has changed nothing, and no command loses an edit.           *)
(***************************************************************************)
EXTENDS Undo, TLAPS

-----------------------------------------------------------------------------
(* Partial functions and records, the types of the state.                  *)
Partial(D, R) == UNION {[S -> R] : S \in SUBSET D}

Rows == Partial(Path, LogRow)
VFileTable == Partial(Path, FileRow)
Writes == Partial(Path, WriteOf)
Stashed == [co : Version, files : Partial(Path, Entry)]
StashTable == Partial(1 .. MaxStash, Stashed)
Log == [rows : Rows, vf : VFileTable, mg : SUBSET Version, co : Version, stash : StashTable]
Database == [vf : VFileTable, mg : SUBSET Version, co : Version, stash : StashTable,
             next : 1 .. MaxStash + 1, avail : 0 .. 2, log : Log]
State == [disk : [Path -> Content], vf : VFileTable, mg : SUBSET Version, co : Version,
          stash : StashTable]
Names == Undoable \cup {"save", "checkout", "undo", "redo", "undofile"}
Command == [name : Names \cap Commands, todo : Writes, db : Database,
            then : {"none", "apply", "revert", "merge"}, arg : Version \cup (0 .. MaxStash)]

LEMMA MapIntro == ASSUME NEW D, NEW R, NEW m, IsMap(m, D, R) PROVE m \in Partial(D, R)
BY DEF IsMap, Partial

LEMMA MapElim == ASSUME NEW D, NEW R, NEW m \in Partial(D, R)
                 PROVE  /\ IsMap(m, D, R) /\ m = [x \in DOMAIN m |-> m[x]]
                        /\ \A x \in DOMAIN m : x \in D /\ m[x] \in R
BY DEF IsMap, Partial

LEMMA EmptyMap == ASSUME NEW D, NEW R
                  PROVE  <<>> \in Partial(D, R) /\ DOMAIN <<>> = {}
<1>1. DOMAIN <<>> = {} /\ <<>> \in [{} -> R]
  OBVIOUS
<1> QED BY <1>1 DEF Partial

IsWith(n, m, k, x) ==
    /\ DOMAIN n = DOMAIN m \cup {k} /\ n[k] = x
    /\ \A j \in DOMAIN m : j # k => n[j] = m[j]

LEMMA WithMap ==
    ASSUME NEW D, NEW R, NEW m \in Partial(D, R), NEW k \in D, NEW x \in R
    PROVE  With(m, k, x) \in Partial(D, R) /\ IsWith(With(m, k, x), m, k, x)
<1>1. IsMap(m, D, R)
  BY MapElim
<1>2. IsMap(With(m, k, x), D, R)
  BY <1>1 DEF IsMap, With
<1>3. With(m, k, x) \in Partial(D, R)
  BY <1>2, MapIntro
<1> QED BY <1>3 DEF With, IsWith

LEMMA DropMap ==
    ASSUME NEW D, NEW R, NEW m \in Partial(D, R), NEW K
    PROVE  /\ Drop(m, K) \in Partial(D, R)
           /\ DOMAIN Drop(m, K) = DOMAIN m \ K
           /\ \A j \in DOMAIN m \ K : Drop(m, K)[j] = m[j]
<1>1. IsMap(m, D, R)
  BY MapElim
<1>2. IsMap(Drop(m, K), D, R)
  BY <1>1 DEF IsMap, Drop
<1>3. Drop(m, K) \in Partial(D, R)
  BY <1>2, MapIntro
<1> QED BY <1>3 DEF Drop

LEMMA SameMap ==
    ASSUME NEW D, NEW R, NEW m \in Partial(D, R), NEW n \in Partial(D, R),
           DOMAIN m = DOMAIN n, \A x \in DOMAIN m : m[x] = n[x]
    PROVE  m = n
<1>1. m = [x \in DOMAIN m |-> m[x]] /\ n = [x \in DOMAIN n |-> n[x]]
  BY MapElim
<1> QED BY <1>1

-----------------------------------------------------------------------------
(* The types of contents, rows and databases.                              *)
LEMMA ContentFacts ==
    /\ Absent \in Clean /\ Clean \subseteq Content
    /\ \A v \in Version, p \in Path : Text(v, p) \in Clean
    /\ \A c \in Clean : c.edits = {}
    /\ \A c \in Content : c.edits \subseteq 1 .. MaxEdits
<1>1. "absent" \in Texts /\ {} \subseteq 1 .. MaxEdits
  BY DEF Texts
<1>2. \A v \in Version, p \in Path : File[v][p] \in Texts
  BY DEF Texts
<1> QED BY <1>1, <1>2 DEF Absent, Clean, Content, Text

LEMMA RowFacts ==
    ASSUME NEW c \in Clean
    PROVE  /\ VFileRow(c) \in FileRow
           /\ VFileRow(c).rid = c /\ VFileRow(c).mrid = c
           /\ VFileRow(c).merged = "no" /\ ~VFileRow(c).deleted
BY DEF VFileRow, FileRow

LEMMA MergeFacts ==
    ASSUME NEW pivot \in Content, NEW local \in Content, NEW other \in Content
    PROVE  /\ Merge3(pivot, local, other) \in Content
           /\ local.edits \subseteq Merge3(pivot, local, other).edits
<1>1. local.edits \cup (other.edits \ pivot.edits) \in SUBSET (1 .. MaxEdits)
  BY DEF Content
<1>2. (IF local.text = pivot.text THEN other.text ELSE local.text) \in Texts
  BY DEF Content
<1> QED BY <1>1, <1>2 DEF Merge3, Content

LEMMA VFileTyped ==
    ASSUME NEW v \in Version
    PROVE  /\ VFile(v) \in VFileTable
           /\ \A p \in DOMAIN VFile(v) : p \in Path /\ VFile(v)[p] = VFileRow(Text(v, p))
<1>1. \A p \in Path : VFileRow(Text(v, p)) \in FileRow
  BY ContentFacts, RowFacts
<1>2. IsMap(VFile(v), Path, FileRow)
  BY <1>1 DEF IsMap, VFile
<1>3. VFile(v) \in VFileTable
  BY <1>2, MapIntro DEF VFileTable
<1> QED BY <1>3 DEF VFile

LEMMA StashFacts ==
    ASSUME NEW s \in StashTable
    PROVE  \A i \in DOMAIN s : i \in 1 .. MaxStash /\ s[i] \in Stashed
<1> DEFINE D == 1 .. MaxStash
<1>1. s \in Partial(D, Stashed)
  BY DEF StashTable
<1> HIDE DEF D
<1>2. \A i \in DOMAIN s : i \in D /\ s[i] \in Stashed
  BY <1>1, MapElim
<1> QED BY <1>2 DEF D

LEMMA StashWith ==
    ASSUME NEW s \in StashTable, NEW i \in 1 .. MaxStash, NEW x \in Stashed
    PROVE  With(s, i, x) \in StashTable /\ IsWith(With(s, i, x), s, i, x)
<1> DEFINE D == 1 .. MaxStash
<1>1. s \in Partial(D, Stashed) /\ i \in D
  BY DEF StashTable
<1> HIDE DEF D
<1>2. With(s, i, x) \in Partial(D, Stashed) /\ IsWith(With(s, i, x), s, i, x)
  BY <1>1, WithMap
<1> QED BY <1>2 DEF StashTable, D

LEMMA StashDropped ==
    ASSUME NEW s \in StashTable, NEW K
    PROVE  /\ Drop(s, K) \in StashTable
           /\ DOMAIN Drop(s, K) = DOMAIN s \ K
           /\ \A j \in DOMAIN s \ K : Drop(s, K)[j] = s[j]
<1> DEFINE D == 1 .. MaxStash
<1>1. s \in Partial(D, Stashed)
  BY DEF StashTable
<1> HIDE DEF D
<1>2. /\ Drop(s, K) \in Partial(D, Stashed)
      /\ DOMAIN Drop(s, K) = DOMAIN s \ K
      /\ \A j \in DOMAIN s \ K : Drop(s, K)[j] = s[j]
  BY <1>1, DropMap
<1> QED BY <1>2 DEF StashTable, D

(* UndoBegin, UndoReset.                                                   *)
LEMMA BeginFacts ==
    ASSUME NEW d \in Database
    PROVE  /\ UndoBegin(d) \in Database
           /\ UndoBegin(d).vf = d.vf /\ UndoBegin(d).mg = d.mg /\ UndoBegin(d).co = d.co
           /\ UndoBegin(d).stash = d.stash /\ UndoBegin(d).next = d.next
           /\ UndoBegin(d).avail = 1 /\ UndoBegin(d).log.rows = <<>>
           /\ UndoBegin(d).log.vf = d.vf /\ UndoBegin(d).log.mg = d.mg
           /\ UndoBegin(d).log.co = d.co /\ UndoBegin(d).log.stash = <<>>
<1>1. /\ <<>> \in Rows /\ <<>> \in StashTable
  BY EmptyMap DEF Rows, StashTable
<1>2. NoLog(d) \in Log
  BY <1>1 DEF NoLog, Log, Database
<1> DEFINE lg == NoLog(d)
<1> HIDE DEF lg
<1>a. lg \in Log /\ 1 \in 0 .. 2
  BY <1>2 DEF lg
<1>b. [d EXCEPT !.avail = 1, !.log = lg] \in Database
  BY <1>a DEF Database
<1>3. [d EXCEPT !.avail = 1, !.log = NoLog(d)] \in Database
  BY <1>b DEF lg
<1>4. UndoBegin(d) \in Database
  BY <1>3 DEF UndoBegin
<1>5. /\ UndoBegin(d).vf = d.vf /\ UndoBegin(d).mg = d.mg /\ UndoBegin(d).co = d.co
      /\ UndoBegin(d).stash = d.stash /\ UndoBegin(d).next = d.next
      /\ UndoBegin(d).avail = 1 /\ UndoBegin(d).log = NoLog(d)
  BY DEF UndoBegin, Database
<1> QED BY <1>4, <1>5 DEF NoLog

LEMMA ResetFacts ==
    ASSUME NEW d \in Database
    PROVE  /\ UndoReset(d) \in Database
           /\ UndoReset(d).stash = d.stash /\ UndoReset(d).next = d.next
           /\ UndoReset(d).avail = 0
           /\ UndoReset(d).log.rows = <<>> /\ UndoReset(d).log.stash = <<>>
<1>1. /\ <<>> \in Rows /\ <<>> \in StashTable
  BY EmptyMap DEF Rows, StashTable
<1>2. NoLog(d) \in Log
  BY <1>1 DEF NoLog, Log, Database
<1> DEFINE lg == NoLog(d)
<1> HIDE DEF lg
<1>a. lg \in Log /\ 0 \in 0 .. 2
  BY <1>2 DEF lg
<1>b. [d EXCEPT !.avail = 0, !.log = lg] \in Database
  BY <1>a DEF Database
<1>3. [d EXCEPT !.avail = 0, !.log = NoLog(d)] \in Database
  BY <1>b DEF lg
<1>4. UndoReset(d) \in Database
  BY <1>3 DEF UndoReset
<1>5. /\ UndoReset(d).stash = d.stash /\ UndoReset(d).next = d.next
      /\ UndoReset(d).avail = 0 /\ UndoReset(d).log = NoLog(d)
  BY DEF UndoReset, Database
<1> QED BY <1>4, <1>5 DEF NoLog

-----------------------------------------------------------------------------
(* What the commands write.  A logged write has the content in its log, or *)
(* leaves a copy; the others keep the edits that are in the file.          *)
Safe(w, p) == w.copy \/ (IF w.log THEN w.saved = disk[p] ELSE disk[p].edits \subseteq w.to.edits)
Keeping(w, p) == w.copy \/ disk[p].edits \subseteq w.to.edits

Planned(plan, d) ==
    /\ plan.todo \in Writes /\ plan.db \in Database
    /\ plan.db.stash = d.stash /\ plan.db.next = d.next
    /\ plan.db.avail = d.avail /\ plan.db.log = d.log

LEMMA TodoMap ==
    ASSUME NEW W, \A p \in Path : W[p] \subseteq WriteOf
    PROVE  /\ Todo(W) \in Writes
           /\ \A p \in DOMAIN Todo(W) : p \in Path /\ Todo(W)[p] \in W[p]
<1> DEFINE S == {q \in Path : W[q] # {}}
<1>1. \A p \in S : (CHOOSE w \in W[p] : TRUE) \in W[p]
  OBVIOUS
<1>2. DOMAIN Todo(W) = S /\ \A p \in S : Todo(W)[p] = CHOOSE w \in W[p] : TRUE
  BY DEF Todo
<1>3. \A p \in DOMAIN Todo(W) : p \in Path /\ Todo(W)[p] \in W[p] /\ Todo(W)[p] \in WriteOf
  BY <1>1, <1>2
<1>4. IsMap(Todo(W), Path, WriteOf)
  BY <1>3 DEF IsMap, Todo
<1> QED BY <1>3, <1>4, MapIntro DEF Writes

LEMMA WriteFacts ==
    ASSUME disk \in [Path -> Content], NEW p \in Path, NEW to \in Content, NEW log \in BOOLEAN
    PROVE  /\ Write(p, to, log) \in WriteOf
           /\ Write(p, to, log).to = to /\ Write(p, to, log).log = log
           /\ Write(p, to, log).saved = disk[p] /\ ~Write(p, to, log).copy
BY DEF Write, WriteOf

LEMMA FileFacts ==
    ASSUME disk \in [Path -> Content], NEW p \in Path, NEW r \in FileRow
    PROVE  /\ disk[p] \in Content /\ r.rid \in Clean /\ r.mrid \in Clean
           /\ ~Changed(r, disk[p]) => disk[p].edits = {} /\ ~r.deleted
<1>1. disk[p] \in Content /\ r.rid \in Clean /\ r.mrid \in Clean
  BY DEF FileRow
<1>2. ~Changed(r, disk[p]) => disk[p] = r.mrid /\ ~r.deleted
  BY DEF Changed
<1> QED BY <1>1, <1>2, ContentFacts

LEMMA UpdateOneFacts ==
    ASSUME disk \in [Path -> Content],
           NEW d \in Database, NEW t \in Version, NEW p \in Path, NEW log \in BOOLEAN,
           NEW w \in UpdateOne(d, t, p, log)
    PROVE  /\ w \in WriteOf /\ w.log = log
           /\ w.saved = disk[p] \/ w.copy
           /\ ~(p \in DOMAIN d.vf /\ d.vf[p].deleted /\ disk[p].edits # {}) => Keeping(w, p)
<1> DEFINE row == d.vf[p]
           to == Text(t, p)
           new == [to |-> to, log |-> log, saved |-> Absent, copy |-> disk[p] # Absent]
<1>1. to \in Clean /\ to \in Content /\ Absent \in Content /\ disk[p] \in Content
  BY ContentFacts
<1>2. Absent.edits = {}
  BY DEF Absent
<1>3. CASE p \notin DOMAIN d.vf
  <2>1. w = new
    BY <1>3 DEF UpdateOne
  <2>2. new \in WriteOf /\ new.log = log /\ new.saved = Absent
        /\ new.copy = (disk[p] # Absent) /\ new.to = to
    BY <1>1 DEF WriteOf
  <2> HIDE DEF new
  <2> QED BY <1>2, <2>1, <2>2 DEF Keeping
<1>4. CASE p \in DOMAIN d.vf
  <2>1. row \in FileRow
    BY <1>4, MapElim DEF Database, VFileTable
  <2>2. row.rid \in Clean /\ row.rid \in Content
        /\ (~Changed(row, disk[p]) => disk[p].edits = {} /\ ~row.deleted)
    BY <2>1, FileFacts, ContentFacts
  <2> DEFINE merged == Merge3(row.rid, disk[p], to)
  <2>3. merged \in Content /\ disk[p].edits \subseteq merged.edits
    BY <1>1, <2>2, MergeFacts
  <2>4. \/ w = Write(p, Absent, log) /\ ~Changed(row, disk[p])
        \/ w = Write(p, to, log) /\ (~Changed(row, disk[p]) \/ row.deleted \/ disk[p] = Absent)
        \/ w = Write(p, merged, log)
    BY <1>4 DEF UpdateOne
  <2> HIDE DEF row, merged
  <2>5. CASE w = Write(p, Absent, log) /\ ~Changed(row, disk[p])
    BY <1>1, <2>2, <2>5, WriteFacts DEF Keeping
  <2>6. CASE /\ w = Write(p, to, log)
             /\ ~Changed(row, disk[p]) \/ row.deleted \/ disk[p] = Absent
    <3>1. w \in WriteOf /\ w.to = to /\ w.log = log /\ w.saved = disk[p]
      BY <1>1, <2>6, WriteFacts
    <3>2. ~(row.deleted /\ disk[p].edits # {}) => disk[p].edits = {}
      BY <1>2, <2>2, <2>6
    <3> QED BY <1>4, <3>1, <3>2 DEF Keeping, row
  <2>7. CASE w = Write(p, merged, log)
    BY <2>3, <2>7, WriteFacts DEF Keeping
  <2> QED BY <2>4, <2>5, <2>6, <2>7
<1> QED BY <1>3, <1>4

LEMMA SetTables ==
    ASSUME NEW d \in Database, NEW vf \in VFileTable, NEW mg \in SUBSET Version,
           NEW co \in Version
    PROVE  /\ [d EXCEPT !.co = co, !.vf = vf] \in Database
           /\ [d EXCEPT !.mg = mg, !.vf = vf] \in Database
           /\ [d EXCEPT !.vf = vf] \in Database
           /\ [d EXCEPT !.mg = mg] \in Database
           /\ [d EXCEPT !.co = co, !.mg = mg, !.vf = vf] \in Database
BY DEF Database

LEMMA UpdatePlanned ==
    ASSUME disk \in [Path -> Content],
           NEW d \in Database, NEW t \in Version, NEW log \in BOOLEAN
    PROVE  /\ Planned(UpdateTo(d, t, log), d)
           /\ \A p \in DOMAIN UpdateTo(d, t, log).todo :
                LET w == UpdateTo(d, t, log).todo[p]
                IN  /\ w.log = log /\ (w.saved = disk[p] \/ w.copy)
                    /\ ~(p \in DOMAIN d.vf /\ d.vf[p].deleted /\ disk[p].edits # {})
                          => Keeping(w, p)
<1> DEFINE W == [p \in Path |-> UpdateOne(d, t, p, log)]
           kept == {p \in DOMAIN d.vf : Added(d.vf[p]) /\ File[t][p] = "absent"}
           new == VFile(t)
           row(p) == IF p \in kept THEN d.vf[p]
                     ELSE [new[p] EXCEPT !.deleted = p \in DOMAIN d.vf /\ d.vf[p].deleted]
           vf == [p \in DOMAIN new \cup kept |-> row(p)]
<1>1. UpdateTo(d, t, log).todo = Todo(W) /\ UpdateTo(d, t, log).db = [d EXCEPT !.co = t, !.vf = vf]
  BY DEF UpdateTo
<1>2. \A p \in DOMAIN d.vf : p \in Path /\ d.vf[p] \in FileRow
  BY MapElim DEF Database, VFileTable
<1>3. \A p \in DOMAIN new : p \in Path /\ new[p] \in FileRow
  BY VFileTyped, RowFacts, ContentFacts
<1>4. vf \in VFileTable
  <2> HIDE DEF new
  <2>1. ASSUME NEW p \in DOMAIN new \cup kept PROVE p \in Path /\ row(p) \in FileRow
    <3>1. CASE p \in kept
      BY <1>2, <3>1
    <3>2. CASE p \notin kept
      <4>1. new[p] \in FileRow /\ p \in Path
        BY <1>3, <2>1, <3>2
      <4> DEFINE del == p \in DOMAIN d.vf /\ d.vf[p].deleted
      <4>2. del \in BOOLEAN
        OBVIOUS
      <4> HIDE DEF del, kept
      <4>3. [new[p] EXCEPT !.deleted = del] \in FileRow
        BY <4>1, <4>2 DEF FileRow
      <4> QED BY <3>2, <4>1, <4>3 DEF del
    <3> QED BY <3>1, <3>2
  <2> HIDE DEF row
  <2>2. IsMap(vf, Path, FileRow)
    BY <2>1 DEF IsMap
  <2> QED BY <2>2, MapIntro DEF VFileTable
<1> HIDE DEF vf
<1>5. [d EXCEPT !.co = t, !.vf = vf] \in Database
  BY <1>4, SetTables DEF Database
<1>6. \A p \in Path : W[p] \subseteq WriteOf
  BY UpdateOneFacts
<1>7. /\ Todo(W) \in Writes
      /\ \A p \in DOMAIN Todo(W) : p \in Path /\ Todo(W)[p] \in UpdateOne(d, t, p, log)
  <2> HIDE DEF W
  <2>1. /\ Todo(W) \in Writes
        /\ \A p \in DOMAIN Todo(W) : p \in Path /\ Todo(W)[p] \in W[p]
    BY <1>6, TodoMap
  <2> QED BY <2>1 DEF W
<1> HIDE DEF W
<1>8. Planned(UpdateTo(d, t, log), d)
  BY <1>1, <1>5, <1>7 DEF Planned, Database
<1>9. ASSUME NEW p \in DOMAIN Todo(W)
      PROVE  /\ Todo(W)[p].log = log /\ (Todo(W)[p].saved = disk[p] \/ Todo(W)[p].copy)
             /\ ~(p \in DOMAIN d.vf /\ d.vf[p].deleted /\ disk[p].edits # {})
                   => Keeping(Todo(W)[p], p)
  <2>1. p \in Path /\ Todo(W)[p] \in UpdateOne(d, t, p, log)
    BY <1>7
  <2> QED BY <2>1, UpdateOneFacts
<1> QED BY <1>1, <1>8, <1>9

LEMMA RevertPlanned ==
    ASSUME disk \in [Path -> Content],
           NEW d \in Database, NEW S \in SUBSET Path, NEW log \in BOOLEAN
    PROVE  /\ Planned(Reverted(d, S, log), d)
           /\ \A p \in DOMAIN Reverted(d, S, log).todo :
                LET w == Reverted(d, S, log).todo[p]
                IN  p \in S /\ w.log = log /\ w.saved = disk[p]
<1> DEFINE unmanaged(p) == p \notin DOMAIN d.vf \/ Added(d.vf[p])
           gone == {p \in S : File[d.co][p] = "absent"}
           W == [p \in Path |-> IF p \notin S \/ (p \in gone /\ unmanaged(p)) THEN {}
                                ELSE {Write(p, Text(d.co, p), log)}]
           vf == [p \in DOMAIN d.vf \ gone |->
                    IF p \in S THEN VFileRow(d.vf[p].rid) ELSE d.vf[p]]
<1>1. Reverted(d, S, log).todo = Todo(W) /\ Reverted(d, S, log).db = [d EXCEPT !.vf = vf]
  BY DEF Reverted, Database
<1>2. \A p \in DOMAIN d.vf : p \in Path /\ d.vf[p] \in FileRow /\ VFileRow(d.vf[p].rid) \in FileRow
  <2>1. \A p \in DOMAIN d.vf : p \in Path /\ d.vf[p] \in FileRow
    BY MapElim DEF Database, VFileTable
  <2>2. \A p \in DOMAIN d.vf : d.vf[p].rid \in Clean
    BY <2>1 DEF FileRow
  <2> QED BY <2>1, <2>2, RowFacts
<1>3. vf \in VFileTable
  <2>1. IsMap(vf, Path, FileRow)
    BY <1>2 DEF IsMap
  <2> QED BY <2>1, MapIntro DEF VFileTable
<1>4. d.co \in Version
  BY DEF Database
<1>5. \A p \in Path : /\ Write(p, Text(d.co, p), log) \in WriteOf
                       /\ Write(p, Text(d.co, p), log).log = log
                       /\ Write(p, Text(d.co, p), log).saved = disk[p]
  BY <1>4, ContentFacts, WriteFacts
<1>6. \A p \in Path : /\ W[p] \subseteq WriteOf
                       /\ \A w \in W[p] : p \in S /\ w.log = log /\ w.saved = disk[p]
  BY <1>5
<1> HIDE DEF vf, W
<1>7. /\ Todo(W) \in Writes
      /\ \A p \in DOMAIN Todo(W) : p \in Path /\ Todo(W)[p] \in W[p]
  BY <1>6, TodoMap
<1>8. [d EXCEPT !.vf = vf] \in Database
  BY <1>3, <1>4, SetTables DEF Database
<1>9. Planned(Reverted(d, S, log), d)
  BY <1>1, <1>7, <1>8 DEF Planned, Database
<1> QED BY <1>1, <1>6, <1>7, <1>9

LEMMA ApplyPlanned ==
    ASSUME disk \in [Path -> Content],
           NEW d \in Database, NEW id \in DOMAIN d.stash
    PROVE  /\ Planned(Applied(d, id), d)
           /\ \A p \in DOMAIN Applied(d, id).todo :
                LET w == Applied(d, id).todo[p]
                IN  w.log /\ w.saved = disk[p]
<1> DEFINE s == d.stash[id].files
           added == {p \in DOMAIN s : s[p].op = "add"}
           result(p) == IF s[p].op # "edit" \/ disk[p] = s[p].rid THEN s[p].content
                        ELSE Merge3(s[p].rid, disk[p], s[p].content)
           todo == [p \in DOMAIN s |-> Write(p, result(p), TRUE)]
           row(p) == IF p \notin DOMAIN d.vf THEN VFileRow(Absent)
                     ELSE IF p \in added THEN [d.vf[p] EXCEPT !.deleted = FALSE]
                     ELSE d.vf[p]
           vf == [p \in DOMAIN d.vf \cup added |-> row(p)]
<1>1. Applied(d, id).todo = todo /\ Applied(d, id).db = [d EXCEPT !.vf = vf]
  BY DEF Applied, Database
<1>2. \A p \in DOMAIN s : p \in Path /\ s[p] \in Entry
  <2>1. d.stash \in StashTable
    BY DEF Database
  <2>3. d.stash[id] \in Stashed
    BY <2>1, MapElim DEF StashTable
  <2>2. s \in Partial(Path, Entry)
    BY <2>3 DEF Stashed
  <2> HIDE DEF s
  <2> QED BY <2>2, MapElim
<1> HIDE DEF s
<1>3. \A p \in DOMAIN s : p \in Path /\ result(p) \in Content
  <2> SUFFICES ASSUME NEW p \in DOMAIN s PROVE p \in Path /\ result(p) \in Content
    OBVIOUS
  <2>1. p \in Path /\ s[p].rid \in Content /\ s[p].content \in Content /\ disk[p] \in Content
    BY <1>2, ContentFacts DEF Entry
  <2>2. Merge3(s[p].rid, disk[p], s[p].content) \in Content
    BY <2>1, MergeFacts
  <2> QED BY <2>1, <2>2
<1> HIDE DEF result
<1>4. \A p \in DOMAIN s : /\ p \in Path /\ Write(p, result(p), TRUE) \in WriteOf
                          /\ Write(p, result(p), TRUE).log
                          /\ Write(p, result(p), TRUE).saved = disk[p]
  <2> SUFFICES ASSUME NEW p \in DOMAIN s
               PROVE  /\ p \in Path /\ Write(p, result(p), TRUE) \in WriteOf
                      /\ Write(p, result(p), TRUE).log
                      /\ Write(p, result(p), TRUE).saved = disk[p]
    OBVIOUS
  <2>1. p \in Path /\ result(p) \in Content
    BY <1>3
  <2> QED BY <2>1 DEF Write, WriteOf
<1>5. todo \in Writes
  <2>1. IsMap(todo, Path, WriteOf)
    BY <1>4 DEF IsMap
  <2> QED BY <2>1, MapIntro DEF Writes
<1>6. \A p \in DOMAIN todo : todo[p].log /\ todo[p].saved = disk[p]
  BY <1>4
<1>7. vf \in VFileTable
  <2>1. ASSUME NEW p \in DOMAIN d.vf \cup added PROVE p \in Path /\ row(p) \in FileRow
    <3>1. CASE p \notin DOMAIN d.vf
      BY <1>2, <2>1, <3>1, RowFacts, ContentFacts
    <3>2. CASE p \in DOMAIN d.vf
      <4>1. p \in Path /\ d.vf[p] \in FileRow
        BY <3>2, MapElim DEF Database, VFileTable
      <4>2. [d.vf[p] EXCEPT !.deleted = FALSE] \in FileRow
        BY <4>1 DEF FileRow
      <4> QED BY <3>2, <4>1, <4>2
    <3> QED BY <3>1, <3>2
  <2> HIDE DEF row
  <2>2. IsMap(vf, Path, FileRow)
    BY <2>1 DEF IsMap
  <2> QED BY <2>2, MapIntro DEF VFileTable
<1> HIDE DEF vf, todo
<1>8. [d EXCEPT !.vf = vf] \in Database
  BY <1>7, SetTables DEF Database
<1>9. Planned(Applied(d, id), d)
  BY <1>1, <1>5, <1>8 DEF Planned, Database
<1> QED BY <1>1, <1>6, <1>9

LEMMA MergeOneFacts ==
    ASSUME disk \in [Path -> Content],
           NEW d \in Database, NEW m \in Version, NEW p \in Path, Root \in Version,
           NEW w \in MergeOne(d, m, p)
    PROVE  /\ w \in WriteOf /\ w.log /\ w.saved = disk[p]
           /\ \/ Keeping(w, p)
              \/ p \in DOMAIN d.vf /\ MergeHow(d, m, p) = "remove" /\ Changed(d.vf[p], disk[p])
<1> DEFINE how == MergeHow(d, m, p)
           base == RidP(d, m, p)
           to == Text(m, p)
           merged == Merge3(base, disk[p], to)
<1>1. to \in Content /\ Absent \in Content /\ disk[p] \in Content
  BY ContentFacts
<1>2. p \in DOMAIN d.vf =>
        d.vf[p] \in FileRow /\ (~Changed(d.vf[p], disk[p]) => disk[p].edits = {})
  <2>1. p \in DOMAIN d.vf => d.vf[p] \in FileRow
    BY MapElim DEF Database, VFileTable
  <2> QED BY <2>1, FileFacts
<1>3. base \in Content
  <2>1. Pivot(d, m) \in Version
    BY DEF Pivot
  <2>2. p \in DOMAIN d.vf => d.vf[p].rid \in Clean
    BY <1>2 DEF FileRow
  <2> QED BY <2>1, <2>2, ContentFacts DEF RidP
<1>4. merged \in Content /\ disk[p].edits \subseteq merged.edits
  BY <1>1, <1>3, MergeFacts
<1>5. /\ how = "copy" => p \in DOMAIN d.vf /\ ~Changed(d.vf[p], disk[p])
      /\ how = "remove" => p \in DOMAIN d.vf
  BY DEF MergeHow
<1>6. how \in {"copy", "merge", "remove", "add", "keep"}
  BY DEF MergeHow
<1>7. CASE how = "copy"
  <2>1. w = Write(p, to, TRUE) /\ disk[p].edits = {}
    BY <1>2, <1>5, <1>7 DEF MergeOne
  <2> QED BY <1>1, <2>1 DEF Write, WriteOf, Keeping
<1>8. CASE how = "merge"
  <2>1. w = Write(p, merged, TRUE)
    BY <1>8 DEF MergeOne
  <2> HIDE DEF merged
  <2> QED BY <1>1, <1>4, <2>1 DEF Write, WriteOf, Keeping
<1>9. CASE how = "remove"
  <2>1. w = Write(p, Absent, TRUE)
    BY <1>9 DEF MergeOne
  <2>2. \/ Changed(d.vf[p], disk[p])
        \/ disk[p].edits = {}
    BY <1>2, <1>5, <1>9
  <2> QED BY <1>1, <1>5, <1>9, <2>1, <2>2 DEF Write, WriteOf, Keeping
<1>10. CASE how = "add"
  <2>1. w = [Write(p, to, TRUE) EXCEPT !.copy = disk[p] # Absent]
    BY <1>10 DEF MergeOne
  <2>2. w = [to |-> to, log |-> TRUE, saved |-> disk[p], copy |-> disk[p] # Absent]
    BY <2>1 DEF Write
  <2>3. Absent.edits = {}
    BY DEF Absent
  <2> QED BY <1>1, <2>2, <2>3 DEF WriteOf, Keeping
<1>11. CASE how = "keep"
  BY <1>11 DEF MergeOne
<1> QED BY <1>6, <1>7, <1>8, <1>9, <1>10, <1>11

LEMMA MergePlanned ==
    ASSUME disk \in [Path -> Content], UndoAssumption,
           NEW d \in Database, NEW m \in Version
    PROVE  /\ Planned(MergeInto(d, m), d)
           /\ \A p \in DOMAIN MergeInto(d, m).todo :
                LET w == MergeInto(d, m).todo[p]
                IN  w.log /\ w.saved = disk[p] /\ (~MergeInto(d, m).conflict => Keeping(w, p))
<1> DEFINE W == [p \in Path |-> MergeOne(d, m, p)]
           vf == [p \in DOMAIN d.vf \cup {q \in Path : MergeHow(d, m, q) = "add"} |->
                    MergedRow(d, m, p)]
           mg == d.mg \cup {m}
<1>1. /\ MergeInto(d, m).todo = Todo(W) /\ MergeInto(d, m).db = [d EXCEPT !.mg = mg, !.vf = vf]
      /\ MergeInto(d, m).conflict <=>
           \E p \in DOMAIN d.vf : MergeHow(d, m, p) = "remove" /\ Changed(d.vf[p], disk[p])
  BY DEF MergeInto, Database
<1>2. Root \in Version
  BY DEF Version
<1>3. vf \in VFileTable
  <2>1. ASSUME NEW p \in DOMAIN d.vf \cup {q \in Path : MergeHow(d, m, q) = "add"}
        PROVE  p \in Path /\ MergedRow(d, m, p) \in FileRow
    <3> DEFINE how == MergeHow(d, m, p)
    <3>1. Text(m, p) \in Clean /\ p \in Path
      <4>1. p \in Path
        BY MapElim DEF Database, VFileTable
      <4> QED BY <4>1, ContentFacts
    <3>2. CASE how = "add"
      <4>1. VFileRow(Text(m, p)) \in FileRow
        BY <3>1, RowFacts
      <4>2. [VFileRow(Text(m, p)) EXCEPT !.merged = "added"] \in FileRow
        BY <4>1 DEF FileRow
      <4> QED BY <3>1, <3>2, <4>2 DEF MergedRow
    <3>3. CASE how # "add"
      <4>1. d.vf[p] \in FileRow
        BY <2>1, <3>3, MapElim DEF Database, VFileTable
      <4>2. [d.vf[p] EXCEPT !.mrid = Text(m, p), !.merged = "merged"] \in FileRow
        BY <3>1, <4>1 DEF FileRow
      <4>3. [d.vf[p] EXCEPT !.deleted = TRUE] \in FileRow
        BY <4>1 DEF FileRow
      <4> QED BY <3>1, <3>3, <4>1, <4>2, <4>3 DEF MergedRow
    <3> QED BY <3>2, <3>3
  <2>2. IsMap(vf, Path, FileRow)
    BY <2>1 DEF IsMap
  <2> QED BY <2>2, MapIntro DEF VFileTable
<1>4. \A p \in Path : W[p] \subseteq WriteOf
  BY <1>2, MergeOneFacts
<1>5. /\ Todo(W) \in Writes
      /\ \A p \in DOMAIN Todo(W) : p \in Path /\ Todo(W)[p] \in MergeOne(d, m, p)
  <2> HIDE DEF W
  <2>1. /\ Todo(W) \in Writes
        /\ \A p \in DOMAIN Todo(W) : p \in Path /\ Todo(W)[p] \in W[p]
    BY <1>4, TodoMap
  <2> QED BY <2>1 DEF W
<1> HIDE DEF W, vf
<1>6. mg \in SUBSET Version
  BY DEF Database
<1> HIDE DEF mg
<1>7. [d EXCEPT !.mg = mg, !.vf = vf] \in Database
  BY <1>3, <1>6, SetTables DEF Database
<1>8. Planned(MergeInto(d, m), d)
  BY <1>1, <1>5, <1>7 DEF Planned, Database
<1>9. ASSUME NEW p \in DOMAIN Todo(W)
      PROVE  /\ Todo(W)[p].log /\ Todo(W)[p].saved = disk[p]
             /\ \/ Keeping(Todo(W)[p], p)
                \/ p \in DOMAIN d.vf /\ MergeHow(d, m, p) = "remove"
                     /\ Changed(d.vf[p], disk[p])
  <2>1. p \in Path /\ Todo(W)[p] \in MergeOne(d, m, p)
    BY <1>5
  <2> QED BY <1>2, <2>1, MergeOneFacts
<1> QED BY <1>1, <1>8, <1>9

-----------------------------------------------------------------------------
(* The type invariant.  Entries of the stash have numbers below next, and  *)
(* an entry that is in the undo log too is the same there.                 *)
Sound(d) ==
    /\ d \in Database
    /\ \A i \in DOMAIN d.stash \cup DOMAIN d.log.stash : i < d.next
    /\ \A i \in DOMAIN d.stash \cap DOMAIN d.log.stash : d.stash[i] = d.log.stash[i]

Ready(c) ==
    /\ c.then = "apply" => c.name = "goto" /\ c.arg \in DOMAIN c.db.stash
    /\ c.then = "merge" => c.name = "merge2" /\ c.arg \in Version
    /\ c.then = "revert" => c.name = "save" /\ c.db.next - 1 \in DOMAIN c.db.stash

Running == cmd \in Command /\ Sound(cmd.db) /\ Ready(cmd)

TypeInv ==
    /\ disk \in [Path -> Content] /\ backup \in SUBSET (1 .. MaxEdits)
    /\ Sound(vdb) /\ Sound(committed)
    /\ IF cmd.name = "none" THEN cmd = Idle /\ vdb = committed ELSE Running
    /\ before \in State /\ marks \in {<<>>} \cup (State \X State)
    /\ edits \in 0 .. MaxEdits /\ faults \in 0 .. MaxFaults /\ turns \in 0 .. MaxTurns

LEMMA PlannedSound ==
    ASSUME NEW d, Sound(d), NEW plan, Planned(plan, d)
    PROVE  plan.todo \in Writes /\ Sound(plan.db)
BY DEF Sound, Planned

LEMMA BeginSound == ASSUME NEW d, Sound(d) PROVE Sound(UndoBegin(d))
<1>1. d \in Database
  BY DEF Sound
<1>2. DOMAIN UndoBegin(d).log.stash = {}
  BY <1>1, BeginFacts
<1> QED BY <1>1, <1>2, BeginFacts DEF Sound

LEMMA TreeFacts ==
    ASSUME disk \in [Path -> Content], NEW d \in Database
    PROVE  /\ Tree(d) \in State
           /\ Tree(d).disk = disk /\ Tree(d).vf = d.vf /\ Tree(d).mg = d.mg
           /\ Tree(d).co = d.co /\ Tree(d).stash = d.stash
BY DEF Tree, State, Database

(* How a command begins, with database d.                                  *)
Begins(d) ==
    /\ cmd.name = "none" /\ vdb' = d /\ before' = Tree(vdb)
    /\ turns' \in 0 .. MaxTurns
    /\ UNCHANGED <<disk, backup, committed, last, marks, edits, faults>>

CommandIs(name, plan, then, arg) ==
    /\ cmd' \in Command /\ cmd'.name = name /\ cmd'.todo = plan.todo
    /\ cmd'.db = plan.db /\ cmd'.then = then /\ cmd'.arg = arg

LEMMA StartForm ==
    ASSUME TypeInv, UndoAssumption, NEW name \in Names, NEW d, NEW plan,
           plan.todo \in Writes, Sound(plan.db),
           NEW then \in {"none", "apply", "revert", "merge"},
           NEW arg \in Version \cup (0 .. MaxStash),
           StartCommand(name, d, plan, then, arg)
    PROVE  Begins(d) /\ CommandIs(name, plan, then, arg)
<1> DEFINE c == [name |-> name, todo |-> plan.todo, db |-> plan.db, then |-> then, arg |-> arg]
<1>1. cmd' = c /\ name \in Commands
  BY DEF StartCommand
<1>2. plan.db \in Database
  BY DEF Sound
<1>3. c \in Command
  BY <1>1, <1>2 DEF Command
<1>4. turns' \in 0 .. MaxTurns
  BY DEF StartCommand, TypeInv, UndoAssumption
<1>5. Begins(d)
  BY <1>4 DEF Begins, StartCommand
<1> QED BY <1>1, <1>3, <1>5 DEF CommandIs

LEMMA BeginsTyped ==
    ASSUME TypeInv, UndoAssumption, NEW d, Sound(d), Begins(d), Running'
    PROVE  TypeInv'
<1>1. before' \in State
  BY TreeFacts DEF TypeInv, Sound, Begins
<1>2. cmd'.name # "none"
  BY DEF Running, Command, Names, Undoable
<1> QED BY <1>1, <1>2 DEF TypeInv, Begins

(* What holds when an undoable command begins.  Simple ones can be undone, *)
(* and log every write; all commands keep the edits, but for those in      *)
(* removed files that "stash goto" overwrites.                             *)
SimpleNames == Undoable \ {"goto", "merge2", "overwrite"}

Taken(d, s) ==
    /\ DOMAIN d.log.stash \subseteq DOMAIN s
    /\ \A i \in DOMAIN d.log.stash : d.log.stash[i] = s[i]
    /\ d.stash = Drop(s, DOMAIN d.log.stash)

GoodStart(c) ==
    /\ c \in Command /\ c.name \in Undoable /\ Sound(c.db) /\ Ready(c)
    /\ c.db.avail = 1 /\ c.db.log.vf = vdb.vf /\ c.db.log.mg = vdb.mg
    /\ c.db.log.co = vdb.co /\ Taken(c.db, vdb.stash)
    /\ c.name \in SimpleNames =>
         /\ c.then = "none"
         /\ \A p \in DOMAIN c.todo : c.todo[p].log /\ c.todo[p].saved = disk[p]
    /\ c.name # "goto" \/ Hidden(Tree(vdb)) = {} => \A p \in DOMAIN c.todo : Safe(c.todo[p], p)
    /\ c.then = "merge" => \A p \in DOMAIN c.todo : Keeping(c.todo[p], p)
    /\ c.then # "none" => c.then # "revert" /\ c.db.stash = vdb.stash

LEMMA NoneTaken ==
    ASSUME NEW d, Sound(d), NEW s \in StashTable, DOMAIN d.log.stash = {}, d.stash = s
    PROVE  Taken(d, s)
<1>1. Drop(s, {}) \in StashTable /\ DOMAIN Drop(s, {}) = DOMAIN s
      /\ \A i \in DOMAIN s : Drop(s, {})[i] = s[i]
  BY StashDropped
<1>2. Drop(s, {}) = s
  BY <1>1, SameMap DEF StashTable
<1> QED BY <1>2 DEF Taken

(* A plan for the whole command, made from database UndoBegin(vdb).        *)
LEMMA SimpleStart ==
    ASSUME TypeInv, UndoAssumption, NEW name \in Undoable, NEW plan,
           NEW d, d.stash = vdb.stash, d.next = vdb.next, d.avail = 1,
           d.log = UndoBegin(vdb).log, Sound(d),
           Planned(plan, d),
           NEW then \in {"none", "apply", "merge"},
           NEW arg \in Version \cup (0 .. MaxStash),
           then = "apply" => name = "goto" /\ arg \in DOMAIN vdb.stash,
           then = "merge" => name = "merge2" /\ arg \in Version,
           name \in SimpleNames => then = "none",
           name \in SimpleNames =>
             \A p \in DOMAIN plan.todo : plan.todo[p].log /\ plan.todo[p].saved = disk[p],
           name # "goto" \/ Hidden(Tree(vdb)) = {} =>
             \A p \in DOMAIN plan.todo : Safe(plan.todo[p], p),
           then = "merge" => \A p \in DOMAIN plan.todo : Keeping(plan.todo[p], p),
           StartCommand(name, UndoBegin(vdb), plan, then, arg)
    PROVE  Begins(UndoBegin(vdb)) /\ GoodStart(cmd')
<1>1. plan.todo \in Writes /\ Sound(plan.db)
  BY PlannedSound
<1>2. name \in Names /\ then \in {"none", "apply", "revert", "merge"}
  BY DEF Names
<1>3. Begins(UndoBegin(vdb)) /\ CommandIs(name, plan, then, arg)
  BY <1>1, <1>2, StartForm
<1>4. vdb \in Database /\ vdb.stash \in StashTable
  BY DEF TypeInv, Sound, Database
<1>5. /\ plan.db.stash = vdb.stash /\ plan.db.avail = 1 /\ plan.db.log.vf = vdb.vf
      /\ plan.db.log.mg = vdb.mg /\ plan.db.log.co = vdb.co /\ plan.db.log.stash = <<>>
  BY <1>4, BeginFacts DEF Planned
<1>6. DOMAIN plan.db.log.stash = {}
  BY <1>5
<1>7. Taken(plan.db, vdb.stash)
  BY <1>1, <1>4, <1>5, <1>6, NoneTaken
<1>8. Ready(cmd')
  BY <1>3, <1>5 DEF Ready, CommandIs
<1>9. then # "revert"
  OBVIOUS
<1> QED BY <1>1, <1>3, <1>5, <1>7, <1>8, <1>9 DEF GoodStart, CommandIs

LEMMA ResultFacts ==
    ASSUME Sound(vdb), Running
    PROVE  /\ Sound(Result)
           /\ Result.vf = cmd.db.vf /\ Result.mg = cmd.db.mg /\ Result.co = cmd.db.co
           /\ Result.stash = cmd.db.stash /\ Result.next = cmd.db.next
           /\ Result.avail = cmd.db.avail
           /\ Result.log.vf = cmd.db.log.vf /\ Result.log.mg = cmd.db.log.mg
           /\ Result.log.co = cmd.db.log.co /\ Result.log.stash = cmd.db.log.stash
           /\ Result.log.rows = IF cmd.db.avail = 0 THEN cmd.db.log.rows ELSE vdb.log.rows
<1> DEFINE e == cmd.db
           lg == [e.log EXCEPT !.rows = vdb.log.rows]
           r == [e EXCEPT !.log = lg]
<1>1. e \in Database /\ vdb \in Database
  BY DEF Running, Sound
<1>2. vdb.log.rows \in Rows /\ e.log \in Log
  BY <1>1 DEF Database, Log
<1>3. lg \in Log /\ lg.rows = vdb.log.rows /\ lg.vf = e.log.vf /\ lg.mg = e.log.mg
      /\ lg.co = e.log.co /\ lg.stash = e.log.stash
  BY <1>2 DEF Log
<1>4. [e EXCEPT !.log.rows = vdb.log.rows] = r
  BY <1>1, <1>2 DEF Database, Log
<1> HIDE DEF lg
<1>5. r \in Database /\ r.log = lg /\ r.vf = e.vf /\ r.mg = e.mg /\ r.co = e.co
      /\ r.stash = e.stash /\ r.next = e.next /\ r.avail = e.avail
  BY <1>1, <1>3 DEF Database
<1> HIDE DEF r
<1>6. Result = IF e.avail = 0 THEN e ELSE r
  BY <1>4 DEF Result
<1>7. Sound(r)
  BY <1>3, <1>5 DEF Sound, Running
<1> QED BY <1>3, <1>5, <1>6, <1>7 DEF Running

LEMMA LogFacts ==
    ASSUME NEW d, Sound(d), NEW rows \in Rows
    PROVE  /\ Sound([d EXCEPT !.log.rows = rows])
           /\ [d EXCEPT !.log.rows = rows] = [d EXCEPT !.log = [d.log EXCEPT !.rows = rows]]
           /\ [d EXCEPT !.log.rows = rows].log.rows = rows
           /\ [d EXCEPT !.log.rows = rows].log.stash = d.log.stash
           /\ [d EXCEPT !.log.rows = rows].log.vf = d.log.vf
           /\ [d EXCEPT !.log.rows = rows].log.mg = d.log.mg
           /\ [d EXCEPT !.log.rows = rows].log.co = d.log.co
           /\ [d EXCEPT !.log.rows = rows].vf = d.vf
           /\ [d EXCEPT !.log.rows = rows].mg = d.mg
           /\ [d EXCEPT !.log.rows = rows].co = d.co
           /\ [d EXCEPT !.log.rows = rows].stash = d.stash
           /\ [d EXCEPT !.log.rows = rows].next = d.next
           /\ [d EXCEPT !.log.rows = rows].avail = d.avail
<1> DEFINE lg == [d.log EXCEPT !.rows = rows]
           r == [d EXCEPT !.log = lg]
<1>1. d \in Database /\ d.log \in Log
  BY DEF Sound, Database
<1>3. lg \in Log /\ lg.rows = rows /\ lg.vf = d.log.vf /\ lg.mg = d.log.mg
      /\ lg.co = d.log.co /\ lg.stash = d.log.stash
  BY <1>1 DEF Log
<1>4. [d EXCEPT !.log.rows = rows] = r
  BY <1>1 DEF Database, Log
<1> HIDE DEF lg
<1>5. r \in Database /\ r.log = lg /\ r.vf = d.vf /\ r.mg = d.mg /\ r.co = d.co
      /\ r.stash = d.stash /\ r.next = d.next /\ r.avail = d.avail
  BY <1>1, <1>3 DEF Database
<1> HIDE DEF r
<1>7. Sound(r)
  BY <1>3, <1>5 DEF Sound
<1> QED BY <1>3, <1>4, <1>5, <1>7 DEF lg, r

LEMMA PoppedFacts ==
    ASSUME NEW d, Sound(d), NEW id \in DOMAIN d.stash
    PROVE  /\ Sound(Popped(d, id))
           /\ Popped(d, id).stash = Drop(d.stash, {id})
           /\ Popped(d, id).log.stash = With(d.log.stash, id, d.stash[id])
           /\ Popped(d, id).vf = d.vf /\ Popped(d, id).mg = d.mg /\ Popped(d, id).co = d.co
           /\ Popped(d, id).avail = d.avail /\ Popped(d, id).next = d.next
           /\ Popped(d, id).log.vf = d.log.vf /\ Popped(d, id).log.mg = d.log.mg
           /\ Popped(d, id).log.co = d.log.co /\ Popped(d, id).log.rows = d.log.rows
<1> DEFINE put == With(d.log.stash, id, d.stash[id])
           left == Drop(d.stash, {id})
           lg == [d.log EXCEPT !.stash = put]
           r == [d EXCEPT !.log = lg, !.stash = left]
<1>1. d \in Database /\ d.log \in Log /\ d.stash \in StashTable /\ d.log.stash \in StashTable
  BY DEF Sound, Database, Log
<1>2. d.stash[id] \in Stashed /\ id \in 1 .. MaxStash
  BY <1>1, StashFacts
<1>3. /\ put \in StashTable /\ DOMAIN put = DOMAIN d.log.stash \cup {id} /\ put[id] = d.stash[id]
      /\ \A i \in DOMAIN d.log.stash : i # id => put[i] = d.log.stash[i]
  BY <1>1, <1>2, StashWith DEF IsWith
<1>4. /\ left \in StashTable /\ DOMAIN left = DOMAIN d.stash \ {id}
      /\ \A i \in DOMAIN d.stash \ {id} : left[i] = d.stash[i]
  BY <1>1, StashDropped
<1>5. Popped(d, id) = r
  BY <1>1 DEF Popped, Database, Log
<1> HIDE DEF put, left
<1>6. lg \in Log /\ lg.rows = d.log.rows /\ lg.vf = d.log.vf /\ lg.mg = d.log.mg
      /\ lg.co = d.log.co /\ lg.stash = put
  BY <1>1, <1>3 DEF Log
<1> HIDE DEF lg
<1>7. r \in Database /\ r.log = lg /\ r.vf = d.vf /\ r.mg = d.mg /\ r.co = d.co
      /\ r.stash = left /\ r.next = d.next /\ r.avail = d.avail
  BY <1>1, <1>4, <1>6 DEF Database
<1> HIDE DEF r
<1>8. Sound(r)
  BY <1>3, <1>4, <1>6, <1>7 DEF Sound
<1> QED BY <1>5, <1>6, <1>7, <1>8 DEF put, left

LEMMA BegunFacts ==
    ASSUME TypeInv, UndoAssumption
    PROVE  /\ disk \in [Path -> Content] /\ vdb \in Database /\ Sound(vdb)
           /\ UndoBegin(vdb) \in Database /\ Sound(UndoBegin(vdb))
           /\ UndoBegin(vdb).stash = vdb.stash /\ UndoBegin(vdb).next = vdb.next
           /\ UndoBegin(vdb).avail = 1 /\ UndoBegin(vdb).vf = vdb.vf
           /\ 0 \in Version \cup (0 .. MaxStash)
           /\ \A i \in DOMAIN vdb.stash : i \in 1 .. MaxStash /\ i \in Version \cup (0 .. MaxStash)
<1>1. vdb \in Database /\ Sound(vdb) /\ disk \in [Path -> Content]
  BY DEF TypeInv, Sound
<1>2. \A i \in DOMAIN vdb.stash : i \in 1 .. MaxStash
  BY <1>1, StashFacts DEF Database
<1>3. MaxStash \in Nat
  BY DEF UndoAssumption
<1> QED BY <1>1, <1>2, <1>3, BeginFacts, BeginSound

LEMMA UpdateStart ==
    ASSUME TypeInv, UndoAssumption, NEW t \in Version, Update(t)
    PROVE  Begins(UndoBegin(vdb)) /\ GoodStart(cmd')
<1> DEFINE d == UndoBegin(vdb)
           plan == UpdateTo(d, t, TRUE)
           copies == \E p \in DOMAIN plan.todo : plan.todo[p].copy
           name == IF copies THEN "overwrite" ELSE "update"
<1>1. StartCommand(name, d, plan, "none", 0)
  BY DEF Update, Simple
<1> HIDE DEF d
<1>2. d \in Database /\ Sound(d) /\ d.stash = vdb.stash /\ d.next = vdb.next /\ d.avail = 1
      /\ d.log = UndoBegin(vdb).log /\ disk \in [Path -> Content]
      /\ 0 \in Version \cup (0 .. MaxStash)
  BY BegunFacts DEF d
<1> HIDE DEF plan
<1>3. /\ Planned(plan, d)
      /\ \A p \in DOMAIN plan.todo :
           plan.todo[p].log /\ (plan.todo[p].saved = disk[p] \/ plan.todo[p].copy)
  BY <1>2, UpdatePlanned DEF plan
<1>4. \A p \in DOMAIN plan.todo : Safe(plan.todo[p], p)
  BY <1>3 DEF Safe
<1>5. name \in SimpleNames =>
        \A p \in DOMAIN plan.todo : plan.todo[p].log /\ plan.todo[p].saved = disk[p]
  BY <1>3 DEF SimpleNames
<1>6. name \in Undoable
  BY DEF Undoable
<1> HIDE DEF name
<1> QED BY <1>1, <1>2, <1>3, <1>4, <1>5, <1>6, SimpleStart DEF d

(* The commands whose plan is logged, and made from d.                     *)
LEMMA LoggedStart ==
    ASSUME TypeInv, UndoAssumption, NEW name \in SimpleNames, NEW plan,
           NEW d, d.stash = vdb.stash, d.next = vdb.next, d.avail = 1,
           d.log = UndoBegin(vdb).log, Sound(d), Planned(plan, d),
           \A p \in DOMAIN plan.todo : plan.todo[p].log /\ plan.todo[p].saved = disk[p],
           Simple(name, plan)
    PROVE  Begins(UndoBegin(vdb)) /\ GoodStart(cmd')
<1>1. StartCommand(name, UndoBegin(vdb), plan, "none", 0)
  BY DEF Simple
<1>2. 0 \in Version \cup (0 .. MaxStash)
  BY BegunFacts
<1>3. \A p \in DOMAIN plan.todo : Safe(plan.todo[p], p)
  BY DEF Safe
<1>4. name \in Undoable
  BY DEF SimpleNames
<1> QED BY <1>1, <1>2, <1>3, <1>4, SimpleStart

LEMMA RevertAllStart ==
    ASSUME TypeInv, UndoAssumption, RevertAll
    PROVE  Begins(UndoBegin(vdb)) /\ GoodStart(cmd')
<1> DEFINE b == UndoBegin(vdb)
           d == [b EXCEPT !.mg = {}]
           S == {p \in DOMAIN d.vf : Changed(d.vf[p], disk[p])}
           plan == Reverted(d, S, TRUE)
<1>1. Simple("revert", plan)
  BY DEF RevertAll
<1>2. b \in Database /\ Sound(b) /\ b.stash = vdb.stash /\ b.next = vdb.next /\ b.avail = 1
      /\ disk \in [Path -> Content]
  BY BegunFacts
<1> HIDE DEF b
<1>3. d \in Database /\ d.stash = b.stash /\ d.next = b.next /\ d.avail = b.avail
      /\ d.log = b.log /\ d.vf = b.vf
  BY <1>2 DEF Database
<1>4. Sound(d)
  BY <1>2, <1>3 DEF Sound
<1> HIDE DEF d
<1>5. S \in SUBSET Path
  BY <1>3, MapElim DEF Database, VFileTable
<1> HIDE DEF S, plan
<1>6. /\ Planned(plan, d)
      /\ \A p \in DOMAIN plan.todo : plan.todo[p].log /\ plan.todo[p].saved = disk[p]
  <2> DEFINE log == TRUE
  <2>1. /\ log \in BOOLEAN /\ plan = Reverted(d, S, log)
        /\ disk \in [Path -> Content] /\ d \in Database /\ S \in SUBSET Path
    BY <1>2, <1>3, <1>5 DEF plan
  <2> HIDE DEF log
  <2>2. /\ Planned(Reverted(d, S, log), d)
        /\ \A p \in DOMAIN Reverted(d, S, log).todo :
             LET w == Reverted(d, S, log).todo[p]
             IN  p \in S /\ w.log = log /\ w.saved = disk[p]
    BY <2>1, RevertPlanned
  <2> QED BY <2>1, <2>2 DEF log
<1>7. "revert" \in SimpleNames
  BY DEF SimpleNames, Undoable
<1> QED BY <1>1, <1>2, <1>3, <1>4, <1>6, <1>7, LoggedStart DEF b

LEMMA RevertFileStart ==
    ASSUME TypeInv, UndoAssumption, NEW f \in Path, RevertFile(f)
    PROVE  Begins(UndoBegin(vdb)) /\ GoodStart(cmd')
<1> DEFINE d == UndoBegin(vdb)
           plan == Reverted(d, {f}, TRUE)
<1>1. Simple("revert", plan)
  BY DEF RevertFile
<1>2. d \in Database /\ Sound(d) /\ d.stash = vdb.stash /\ d.next = vdb.next /\ d.avail = 1
      /\ d.log = UndoBegin(vdb).log /\ disk \in [Path -> Content]
  BY BegunFacts
<1> HIDE DEF d
<1>3. {f} \in SUBSET Path
  OBVIOUS
<1> HIDE DEF plan
<1>4. /\ Planned(plan, d)
      /\ \A p \in DOMAIN plan.todo : plan.todo[p].log /\ plan.todo[p].saved = disk[p]
  <2> DEFINE log == TRUE
             S == {f}
  <2>1. log \in BOOLEAN /\ plan = Reverted(d, S, log)
    BY DEF plan
  <2> HIDE DEF log, S
  <2>2. /\ Planned(Reverted(d, S, log), d)
        /\ \A p \in DOMAIN Reverted(d, S, log).todo :
             LET w == Reverted(d, S, log).todo[p]
             IN  p \in S /\ w.log = log /\ w.saved = disk[p]
    BY <1>2, <1>3, <2>1, RevertPlanned DEF S
  <2> QED BY <2>1, <2>2 DEF log
<1>5. "revert" \in SimpleNames
  BY DEF SimpleNames, Undoable
<1> QED BY <1>1, <1>2, <1>4, <1>5, LoggedStart

LEMMA MergeStart ==
    ASSUME TypeInv, UndoAssumption, NEW m \in Version, Merge(m)
    PROVE  Begins(UndoBegin(vdb)) /\ GoodStart(cmd')
<1> DEFINE d == UndoBegin(vdb)
           plan == MergeInto(d, m)
<1>1. Simple("merge", plan)
  BY DEF Merge
<1>2. d \in Database /\ Sound(d) /\ d.stash = vdb.stash /\ d.next = vdb.next /\ d.avail = 1
      /\ d.log = UndoBegin(vdb).log /\ disk \in [Path -> Content]
  BY BegunFacts
<1> HIDE DEF d, plan
<1>3. /\ Planned(plan, d)
      /\ \A p \in DOMAIN plan.todo : plan.todo[p].log /\ plan.todo[p].saved = disk[p]
  BY <1>2, MergePlanned DEF plan
<1>4. "merge" \in SimpleNames
  BY DEF SimpleNames, Undoable
<1> QED BY <1>1, <1>2, <1>3, <1>4, LoggedStart

LEMMA Merge2Start ==
    ASSUME TypeInv, UndoAssumption, NEW m \in Version, NEW n \in Version, Merge2(m, n)
    PROVE  Begins(UndoBegin(vdb)) /\ GoodStart(cmd')
<1> DEFINE d == UndoBegin(vdb)
           plan == MergeInto(d, m)
<1>1. StartCommand("merge2", d, plan, "merge", n) /\ ~plan.conflict
  BY DEF Merge2
<1>2. d \in Database /\ Sound(d) /\ d.stash = vdb.stash /\ d.next = vdb.next /\ d.avail = 1
      /\ d.log = UndoBegin(vdb).log /\ disk \in [Path -> Content]
      /\ n \in Version \cup (0 .. MaxStash)
  BY BegunFacts
<1> HIDE DEF d, plan
<1>3. /\ Planned(plan, d)
      /\ \A p \in DOMAIN plan.todo :
           plan.todo[p].log /\ plan.todo[p].saved = disk[p] /\ Keeping(plan.todo[p], p)
  BY <1>1, <1>2, MergePlanned DEF plan
<1>4. \A p \in DOMAIN plan.todo : Safe(plan.todo[p], p)
  BY <1>3 DEF Safe
<1>5. "merge2" \in Undoable /\ "merge2" \notin SimpleNames
  BY DEF SimpleNames, Undoable
<1> QED BY <1>1, <1>2, <1>3, <1>4, <1>5, SimpleStart DEF d

LEMMA StashApplyStart ==
    ASSUME TypeInv, UndoAssumption, NEW id, StashApply(id)
    PROVE  Begins(UndoBegin(vdb)) /\ GoodStart(cmd')
<1> DEFINE d == UndoBegin(vdb)
           plan == Applied(d, id)
<1>1. Simple("apply", plan) /\ id \in DOMAIN vdb.stash
  BY DEF StashApply
<1>2. d \in Database /\ Sound(d) /\ d.stash = vdb.stash /\ d.next = vdb.next /\ d.avail = 1
      /\ d.log = UndoBegin(vdb).log /\ disk \in [Path -> Content]
  BY BegunFacts
<1> HIDE DEF d, plan
<1>3. /\ Planned(plan, d)
      /\ \A p \in DOMAIN plan.todo : plan.todo[p].log /\ plan.todo[p].saved = disk[p]
  BY <1>1, <1>2, ApplyPlanned DEF plan
<1>4. "apply" \in SimpleNames
  BY DEF SimpleNames, Undoable
<1> QED BY <1>1, <1>2, <1>3, <1>4, LoggedStart

LEMMA StashGotoStart ==
    ASSUME TypeInv, UndoAssumption, NEW id, StashGoto(id)
    PROVE  Begins(UndoBegin(vdb)) /\ GoodStart(cmd')
<1> DEFINE d == UndoBegin(vdb)
           t == vdb.stash[id].co
           plan == UpdateTo(d, t, FALSE)
<1>1. StartCommand("goto", d, plan, "apply", id) /\ id \in DOMAIN vdb.stash
  BY DEF StashGoto
<1>2. d \in Database /\ Sound(d) /\ d.stash = vdb.stash /\ d.next = vdb.next /\ d.avail = 1
      /\ d.log = UndoBegin(vdb).log /\ d.vf = vdb.vf /\ disk \in [Path -> Content]
      /\ vdb \in Database
  BY BegunFacts
<1>3. id \in Version \cup (0 .. MaxStash) /\ t \in Version
  <2>1. vdb.stash[id] \in Stashed
    BY <1>1, <1>2, StashFacts DEF Database
  <2> QED BY <1>1, <2>1, BegunFacts DEF Stashed
<1> HIDE DEF d, plan, t
<1>4. /\ Planned(plan, d)
      /\ \A p \in DOMAIN plan.todo :
           /\ ~plan.todo[p].log
           /\ ~(p \in DOMAIN d.vf /\ d.vf[p].deleted /\ disk[p].edits # {})
                => Keeping(plan.todo[p], p)
  <2> DEFINE log == FALSE
  <2>1. log \in BOOLEAN /\ plan = UpdateTo(d, t, log)
    BY DEF plan
  <2> HIDE DEF log
  <2>2. /\ Planned(UpdateTo(d, t, log), d)
        /\ \A p \in DOMAIN UpdateTo(d, t, log).todo :
             LET w == UpdateTo(d, t, log).todo[p]
             IN  /\ w.log = log /\ (w.saved = disk[p] \/ w.copy)
                 /\ ~(p \in DOMAIN d.vf /\ d.vf[p].deleted /\ disk[p].edits # {})
                       => Keeping(w, p)
    BY <1>2, <1>3, <2>1, UpdatePlanned
  <2> QED BY <2>1, <2>2 DEF log
<1>5. Hidden(Tree(vdb)) = {} =>
        ~\E p \in DOMAIN d.vf : d.vf[p].deleted /\ disk[p].edits # {}
  <2>1. Tree(vdb).vf = vdb.vf /\ Tree(vdb).disk = disk
    BY <1>2, TreeFacts
  <2> QED BY <1>2, <2>1 DEF Hidden
<1>6. Hidden(Tree(vdb)) = {} => \A p \in DOMAIN plan.todo : Safe(plan.todo[p], p)
  BY <1>4, <1>5 DEF Safe, Keeping
<1>7. "goto" \in Undoable /\ "goto" \notin SimpleNames
  BY DEF SimpleNames, Undoable
<1> QED BY <1>1, <1>2, <1>3, <1>4, <1>6, <1>7, SimpleStart DEF d

(* "stash pop" and "stash drop" put the entry in the undo log.             *)
LEMMA PoppingStart ==
    ASSUME TypeInv, UndoAssumption, NEW name \in SimpleNames, NEW todo \in Writes,
           \A p \in DOMAIN todo : todo[p].log /\ todo[p].saved = disk[p],
           NEW e, Sound(e), e.stash = vdb.stash, e.avail = 1,
           e.log.stash = <<>>, e.log.vf = vdb.vf, e.log.mg = vdb.mg, e.log.co = vdb.co,
           NEW id \in DOMAIN vdb.stash,
           StartCommand(name, UndoBegin(vdb), [todo |-> todo, db |-> Popped(e, id)], "none", 0)
    PROVE  Begins(UndoBegin(vdb)) /\ GoodStart(cmd')
<1> DEFINE db == Popped(e, id)
           plan == [todo |-> todo, db |-> db]
<1>1. /\ Sound(db) /\ db.stash = Drop(vdb.stash, {id})
      /\ db.log.stash = With(<<>>, id, vdb.stash[id])
      /\ db.avail = 1 /\ db.log.vf = vdb.vf /\ db.log.mg = vdb.mg /\ db.log.co = vdb.co
  <2>1. Sound(e) /\ id \in DOMAIN e.stash
    OBVIOUS
  <2> HIDE DEF db
  <2>2. /\ Sound(Popped(e, id)) /\ Popped(e, id).stash = Drop(e.stash, {id})
        /\ Popped(e, id).log.stash = With(e.log.stash, id, e.stash[id])
        /\ Popped(e, id).avail = e.avail
        /\ Popped(e, id).log.vf = e.log.vf /\ Popped(e, id).log.mg = e.log.mg
        /\ Popped(e, id).log.co = e.log.co
    BY ONLY <2>1, PoppedFacts
  <2> QED BY <2>2 DEF db
<1>2. DOMAIN db.log.stash = {id} /\ db.log.stash[id] = vdb.stash[id]
  <2>1. id \in 1 .. MaxStash /\ vdb.stash[id] \in Stashed
    BY StashFacts DEF TypeInv, Sound, Database
  <2>2. <<>> \in StashTable /\ DOMAIN <<>> = {}
    BY EmptyMap DEF StashTable
  <2>3. IsWith(With(<<>>, id, vdb.stash[id]), <<>>, id, vdb.stash[id])
    BY <2>1, <2>2, StashWith
  <2> QED BY <1>1, <2>2, <2>3 DEF IsWith
<1>3. Taken(db, vdb.stash)
  BY <1>1, <1>2 DEF Taken
<1> HIDE DEF db
<1>4. plan.todo = todo /\ plan.db = db
  OBVIOUS
<1>5. StartCommand(name, UndoBegin(vdb), plan, "none", 0)
  BY DEF db
<1>6. name \in Names /\ name \in Undoable /\ name # "goto"
  BY DEF Names, SimpleNames
<1>7. 0 \in Version \cup (0 .. MaxStash)
  BY BegunFacts
<1> HIDE DEF plan
<1>8. Begins(UndoBegin(vdb)) /\ CommandIs(name, plan, "none", 0)
  BY <1>1, <1>4, <1>5, <1>6, <1>7, StartForm
<1>9. \A p \in DOMAIN todo : Safe(todo[p], p)
  BY DEF Safe
<1>10. Ready(cmd')
  BY <1>8 DEF Ready, CommandIs
<1> QED BY <1>1, <1>3, <1>4, <1>6, <1>8, <1>9, <1>10 DEF GoodStart, CommandIs

LEMMA StashPopStart ==
    ASSUME TypeInv, UndoAssumption, NEW id, StashPop(id)
    PROVE  Begins(UndoBegin(vdb)) /\ GoodStart(cmd')
<1> DEFINE d == UndoBegin(vdb)
           plan == Applied(d, id)
<1>1. Simple("pop", [plan EXCEPT !.db = Popped(@, id)]) /\ id \in DOMAIN vdb.stash
  BY DEF StashPop
<1>2. d \in Database /\ Sound(d) /\ d.stash = vdb.stash /\ d.next = vdb.next /\ d.avail = 1
      /\ d.log.stash = <<>> /\ d.log.vf = vdb.vf /\ d.log.mg = vdb.mg /\ d.log.co = vdb.co
      /\ disk \in [Path -> Content] /\ vdb \in Database
  BY BegunFacts, BeginFacts
<1>3. plan = [todo |-> plan.todo, db |-> plan.db]
  BY DEF Applied
<1> HIDE DEF d, plan
<1>4. /\ Planned(plan, d)
      /\ \A p \in DOMAIN plan.todo : plan.todo[p].log /\ plan.todo[p].saved = disk[p]
  BY <1>1, <1>2, ApplyPlanned DEF plan
<1>5. plan.todo \in Writes /\ Sound(plan.db)
  BY <1>2, <1>4, PlannedSound
<1>6. [plan EXCEPT !.db = Popped(@, id)] = [todo |-> plan.todo, db |-> Popped(plan.db, id)]
  BY <1>3
<1>7. StartCommand("pop", d, [todo |-> plan.todo, db |-> Popped(plan.db, id)], "none", 0)
  BY <1>1, <1>6 DEF Simple, d
<1>8. plan.db.stash = vdb.stash /\ plan.db.avail = 1 /\ plan.db.log.stash = <<>>
      /\ plan.db.log.vf = vdb.vf /\ plan.db.log.mg = vdb.mg /\ plan.db.log.co = vdb.co
  BY <1>2, <1>4 DEF Planned
<1>9. "pop" \in SimpleNames
  BY DEF SimpleNames, Undoable
<1> QED BY <1>1, <1>4, <1>5, <1>7, <1>8, <1>9, PoppingStart DEF d

LEMMA StashDropStart ==
    ASSUME TypeInv, UndoAssumption, NEW id, StashDrop(id)
    PROVE  Begins(UndoBegin(vdb)) /\ GoodStart(cmd')
<1> DEFINE d == UndoBegin(vdb)
<1>1. Simple("drop", [todo |-> <<>>, db |-> Popped(d, id)]) /\ id \in DOMAIN vdb.stash
  BY DEF StashDrop
<1>2. Sound(d) /\ d.stash = vdb.stash /\ d.avail = 1
      /\ d.log.stash = <<>> /\ d.log.vf = vdb.vf /\ d.log.mg = vdb.mg /\ d.log.co = vdb.co
  BY BegunFacts, BeginFacts
<1>3. <<>> \in Writes /\ DOMAIN <<>> = {}
  BY EmptyMap DEF Writes
<1>4. StartCommand("drop", d, [todo |-> <<>>, db |-> Popped(d, id)], "none", 0)
  BY <1>1 DEF Simple
<1>5. "drop" \in SimpleNames
  BY DEF SimpleNames, Undoable
<1> QED BY <1>1, <1>2, <1>3, <1>4, <1>5, PoppingStart

-----------------------------------------------------------------------------
(* undo, redo and "undo FILE".                                             *)
Joined(s, t) == [i \in DOMAIN s \cup DOMAIN t |-> IF i \in DOMAIN s THEN s[i] ELSE t[i]]

TablesSwapped(d, e) ==
    /\ e.vf = d.log.vf /\ e.mg = d.log.mg /\ e.co = d.log.co
    /\ e.log.vf = d.vf /\ e.log.mg = d.mg /\ e.log.co = d.co
    /\ e.log.stash = d.log.stash

GoodSwap(c) ==
    /\ c \in Command /\ c.name \in {"undo", "redo", "undofile"} /\ Sound(c.db) /\ Ready(c)
    /\ c.then = "none" /\ vdb.avail # 0
    /\ \A p \in DOMAIN c.todo :
         /\ p \in DOMAIN vdb.log.rows /\ c.todo[p].to = vdb.log.rows[p].content
         /\ c.todo[p].log /\ c.todo[p].saved = disk[p]
    /\ c.name = "undo" =>
         /\ vdb.avail = 1 /\ c.db.avail = 2 /\ TablesSwapped(vdb, c.db)
         /\ c.db.stash = Joined(vdb.stash, vdb.log.stash)
         /\ DOMAIN c.todo = {p \in DOMAIN vdb.log.rows : ~vdb.log.rows[p].redo}
    /\ c.name = "redo" =>
         /\ vdb.avail = 2 /\ c.db.avail = 1 /\ TablesSwapped(vdb, c.db)
         /\ c.db.stash = Drop(vdb.stash, DOMAIN vdb.log.stash)
         /\ DOMAIN c.todo = {p \in DOMAIN vdb.log.rows : vdb.log.rows[p].redo}
    /\ c.name = "undofile" => c.db = vdb

LEMMA JoinedFacts ==
    ASSUME NEW s \in StashTable, NEW t \in StashTable
    PROVE  /\ Joined(s, t) \in StashTable /\ DOMAIN Joined(s, t) = DOMAIN s \cup DOMAIN t
           /\ \A i \in DOMAIN s : Joined(s, t)[i] = s[i]
           /\ \A i \in DOMAIN t \ DOMAIN s : Joined(s, t)[i] = t[i]
<1>1. /\ \A i \in DOMAIN s : i \in 1 .. MaxStash /\ s[i] \in Stashed
      /\ \A i \in DOMAIN t : i \in 1 .. MaxStash /\ t[i] \in Stashed
  BY StashFacts
<1> DEFINE D == 1 .. MaxStash
           j == Joined(s, t)
<1>2. IsMap(j, D, Stashed)
  BY <1>1 DEF IsMap, Joined
<1> HIDE DEF D
<1>3. j \in Partial(D, Stashed)
  BY <1>2, MapIntro
<1> QED BY <1>3 DEF StashTable, D, Joined

IsSwapped(todo, redo, P) ==
    /\ todo \in Writes
    /\ DOMAIN todo = {p \in P \cap DOMAIN vdb.log.rows : vdb.log.rows[p].redo = redo}
    /\ \A p \in DOMAIN todo :
         todo[p].to = vdb.log.rows[p].content /\ todo[p].log /\ todo[p].saved = disk[p]

LEMMA SwappedFacts ==
    ASSUME disk \in [Path -> Content], vdb \in Database,
           NEW redo \in BOOLEAN, NEW P \in SUBSET Path
    PROVE  IsSwapped(Swapped(redo, P), redo, P)
<1> DEFINE rows == vdb.log.rows
           S == {q \in P \cap DOMAIN rows : rows[q].redo = redo}
<1>1. rows \in Rows
  BY DEF Database, Log
<1>2. \A p \in DOMAIN rows : p \in Path /\ rows[p] \in LogRow
  BY <1>1, MapElim DEF Rows
<1>3. \A p \in S : p \in Path /\ disk[p] \in Content /\ rows[p].content \in Content
  BY <1>2 DEF LogRow
<1> HIDE DEF rows
<1>4. DOMAIN Swapped(redo, P) = S
      /\ \A p \in S : Swapped(redo, P)[p] = Write(p, rows[p].content, TRUE)
  BY DEF Swapped, rows
<1>5. \A p \in S : Swapped(redo, P)[p] =
                      [to |-> rows[p].content, log |-> TRUE, saved |-> disk[p], copy |-> FALSE]
  BY <1>4 DEF Write
<1>6. \A p \in S : Swapped(redo, P)[p] \in WriteOf
  <2> SUFFICES ASSUME NEW p \in S PROVE Swapped(redo, P)[p] \in WriteOf
    OBVIOUS
  <2>1. rows[p].content \in Content /\ disk[p] \in Content
    BY <1>3
  <2>2. [to |-> rows[p].content, log |-> TRUE, saved |-> disk[p], copy |-> FALSE] \in WriteOf
    BY <2>1 DEF WriteOf
  <2> QED BY <1>5, <2>2
<1>7. IsMap(Swapped(redo, P), Path, WriteOf)
  <2>1. Swapped(redo, P) \in [S -> WriteOf]
    BY <1>4, <1>6 DEF Swapped, rows
  <2> QED BY <1>3, <1>4, <2>1 DEF IsMap
<1>8. Swapped(redo, P) \in Writes
  BY <1>7, MapIntro DEF Writes
<1>9. \A p \in S : /\ Swapped(redo, P)[p].to = rows[p].content
                    /\ Swapped(redo, P)[p].log /\ Swapped(redo, P)[p].saved = disk[p]
  <2> SUFFICES ASSUME NEW p \in S
               PROVE  /\ Swapped(redo, P)[p].to = rows[p].content
                      /\ Swapped(redo, P)[p].log /\ Swapped(redo, P)[p].saved = disk[p]
    OBVIOUS
  <2> DEFINE w == Swapped(redo, P)[p]
  <2>1. w = [to |-> rows[p].content, log |-> TRUE, saved |-> disk[p], copy |-> FALSE]
    BY <1>5, Zenon
  <2> HIDE DEF S, w
  <2>2. w.to = rows[p].content /\ w.log /\ w.saved = disk[p]
    BY <2>1
  <2> QED BY <2>2, Zenon DEF w
<1> QED BY <1>4, <1>8, <1>9, Zenon DEF rows, IsSwapped

SwapArgs(name, redo, P, db) ==
    /\ name # "undofile" => TablesSwapped(vdb, db) /\ P = Path
    /\ name = "undo" => /\ vdb.avail = 1 /\ db.avail = 2 /\ ~redo
                        /\ db.stash = Joined(vdb.stash, vdb.log.stash)
    /\ name = "redo" => /\ vdb.avail = 2 /\ db.avail = 1 /\ redo
                        /\ db.stash = Drop(vdb.stash, DOMAIN vdb.log.stash)
    /\ name = "undofile" => db = vdb

LEMMA SwapStart ==
    ASSUME TypeInv, UndoAssumption, NEW name \in {"undo", "redo", "undofile"},
           NEW redo \in BOOLEAN, NEW P \in SUBSET Path, NEW db, Sound(db), vdb.avail # 0,
           StartCommand(name, vdb, [todo |-> Swapped(redo, P), db |-> db], "none", 0),
           SwapArgs(name, redo, P, db)
    PROVE  Begins(vdb) /\ GoodSwap(cmd')
<1> DEFINE todo == Swapped(redo, P)
           plan == [todo |-> todo, db |-> db]
<1>1. disk \in [Path -> Content] /\ vdb \in Database /\ 0 \in Version \cup (0 .. MaxStash)
  BY BegunFacts
<1>2. IsSwapped(todo, redo, P)
  BY <1>1, SwappedFacts
<1>3. DOMAIN vdb.log.rows \subseteq Path /\ \A p \in DOMAIN vdb.log.rows : vdb.log.rows[p].redo \in BOOLEAN
  <2>1. \A p \in DOMAIN vdb.log.rows : p \in Path /\ vdb.log.rows[p] \in LogRow
    BY <1>1, MapElim DEF Database, Log, Rows
  <2> QED BY <2>1 DEF LogRow
<1> HIDE DEF todo
<1>4. plan.todo = todo /\ plan.db = db /\ StartCommand(name, vdb, plan, "none", 0)
  BY DEF todo
<1> HIDE DEF plan
<1>5. name \in Names
  BY DEF Names
<1>6. Begins(vdb) /\ CommandIs(name, plan, "none", 0)
  BY <1>1, <1>2, <1>4, <1>5, StartForm DEF IsSwapped
<1>7. Ready(cmd')
  BY <1>6 DEF Ready, CommandIs
<1>8. name = "undo" => DOMAIN todo = {p \in DOMAIN vdb.log.rows : ~vdb.log.rows[p].redo}
  <2> HAVE name = "undo"
  <2>1. DOMAIN todo = {p \in P \cap DOMAIN vdb.log.rows : vdb.log.rows[p].redo = redo}
        /\ P = Path /\ ~redo
    BY <1>2, Zenon DEF IsSwapped, SwapArgs
  <2> QED BY <1>3, <2>1
<1>9. name = "redo" => DOMAIN todo = {p \in DOMAIN vdb.log.rows : vdb.log.rows[p].redo}
  <2> HAVE name = "redo"
  <2>1. DOMAIN todo = {p \in P \cap DOMAIN vdb.log.rows : vdb.log.rows[p].redo = redo}
        /\ P = Path /\ redo
    BY <1>2, Zenon DEF IsSwapped, SwapArgs
  <2> QED BY <1>3, <2>1
<1>10. /\ \A p \in DOMAIN todo : /\ p \in DOMAIN vdb.log.rows
                                /\ todo[p].to = vdb.log.rows[p].content
                                /\ todo[p].log /\ todo[p].saved = disk[p]
  BY <1>2, Zenon DEF IsSwapped
<1> QED BY <1>4, <1>6, <1>7, <1>8, <1>9, <1>10 DEF GoodSwap, CommandIs, SwapArgs

SwapOf(d, avail, stash) ==
    [d EXCEPT !.avail = avail, !.vf = d.log.vf, !.mg = d.log.mg, !.co = d.log.co,
              !.log.vf = d.vf, !.log.mg = d.mg, !.log.co = d.co, !.stash = stash]

LEMMA SwapTables ==
    ASSUME NEW d, Sound(d), NEW avail \in 0 .. 2, NEW stash \in StashTable,
           \A i \in DOMAIN stash : i < d.next,
           \A i \in DOMAIN stash \cap DOMAIN d.log.stash : stash[i] = d.log.stash[i]
    PROVE  /\ Sound(SwapOf(d, avail, stash)) /\ SwapOf(d, avail, stash).avail = avail
           /\ SwapOf(d, avail, stash).stash = stash
           /\ TablesSwapped(d, SwapOf(d, avail, stash))
<1> DEFINE lg == [d.log EXCEPT !.vf = d.vf, !.mg = d.mg, !.co = d.co]
           r == [d EXCEPT !.avail = avail, !.vf = d.log.vf, !.mg = d.log.mg, !.co = d.log.co,
                          !.log = lg, !.stash = stash]
<1>1. d \in Database /\ d.log \in Log
  BY DEF Sound, Database
<1>2. /\ d.vf \in VFileTable /\ d.mg \in SUBSET Version /\ d.co \in Version
      /\ d.log.vf \in VFileTable /\ d.log.mg \in SUBSET Version /\ d.log.co \in Version
  BY <1>1 DEF Database, Log
<1>3. SwapOf(d, avail, stash) = r
  BY <1>1 DEF Database, Log, SwapOf
<1>4. lg \in Log /\ lg.vf = d.vf /\ lg.mg = d.mg /\ lg.co = d.co /\ lg.rows = d.log.rows
      /\ lg.stash = d.log.stash
  BY <1>1, <1>2 DEF Log
<1> HIDE DEF lg
<1>5. r \in Database /\ r.log = lg /\ r.vf = d.log.vf /\ r.mg = d.log.mg /\ r.co = d.log.co
      /\ r.stash = stash /\ r.next = d.next /\ r.avail = avail
  BY <1>1, <1>2, <1>4 DEF Database
<1> HIDE DEF r
<1>6. Sound(r)
  BY <1>4, <1>5 DEF Sound
<1> QED BY <1>3, <1>4, <1>5, <1>6 DEF TablesSwapped

LEMMA UndoStart ==
    ASSUME TypeInv, UndoAssumption, Undo
    PROVE  Begins(vdb) /\ GoodSwap(cmd')
<1> DEFINE stash == Joined(vdb.stash, vdb.log.stash)
           avail == 2
           db == SwapOf(vdb, avail, stash)
<1>1. vdb \in Database /\ Sound(vdb) /\ vdb.stash \in StashTable /\ vdb.log.stash \in StashTable
  BY DEF TypeInv, Sound, Database, Log
<1>2. vdb.avail = 1 /\ StartCommand("undo", vdb, [todo |-> Swapped(FALSE, Path), db |-> db], "none", 0)
  BY <1>1 DEF Undo, Joined, Database, SwapOf
<1>3. /\ stash \in StashTable /\ DOMAIN stash = DOMAIN vdb.stash \cup DOMAIN vdb.log.stash
      /\ \A i \in DOMAIN vdb.stash : stash[i] = vdb.stash[i]
      /\ \A i \in DOMAIN vdb.log.stash \ DOMAIN vdb.stash : stash[i] = vdb.log.stash[i]
  BY <1>1, JoinedFacts
<1> HIDE DEF stash
<1>4. \A i \in DOMAIN stash : i < vdb.next
  BY <1>1, <1>3 DEF Sound
<1>5. \A i \in DOMAIN stash \cap DOMAIN vdb.log.stash : stash[i] = vdb.log.stash[i]
  <2>1. \A i \in DOMAIN vdb.stash \cap DOMAIN vdb.log.stash : vdb.stash[i] = vdb.log.stash[i]
    BY <1>1 DEF Sound
  <2>2. ASSUME NEW i \in DOMAIN stash \cap DOMAIN vdb.log.stash
        PROVE  stash[i] = vdb.log.stash[i]
    <3>1. CASE i \in DOMAIN vdb.stash
      BY <1>3, <2>1, <2>2, <3>1
    <3>2. CASE i \notin DOMAIN vdb.stash
      <4>1. i \in DOMAIN vdb.log.stash \ DOMAIN vdb.stash
        BY <2>2, <3>2
      <4> QED BY <1>3, <4>1
    <3> QED BY <3>1, <3>2
  <2> QED BY <2>2
<1>a. avail \in 0 .. 2
  OBVIOUS
<1> HIDE DEF avail
<1>6. Sound(db) /\ db.avail = avail /\ db.stash = stash /\ TablesSwapped(vdb, db)
  BY <1>1, <1>3, <1>4, <1>5, <1>a, SwapTables
<1> HIDE DEF db
<1> DEFINE redo == FALSE
<1>b. SwapArgs("undo", redo, Path, db)
  BY <1>2, <1>6 DEF SwapArgs, avail, stash
<1>7. redo \in BOOLEAN /\ Path \in SUBSET Path
      /\ StartCommand("undo", vdb, [todo |-> Swapped(redo, Path), db |-> db], "none", 0)
  BY <1>2
<1> HIDE DEF redo
<1>8. vdb.avail # 0
  BY <1>2
<1> QED BY <1>6, <1>7, <1>8, <1>b, SwapStart

LEMMA RedoStart ==
    ASSUME TypeInv, UndoAssumption, Redo
    PROVE  Begins(vdb) /\ GoodSwap(cmd')
<1> DEFINE stash == Drop(vdb.stash, DOMAIN vdb.log.stash)
           avail == 1
           db == SwapOf(vdb, avail, stash)
<1>1. vdb \in Database /\ Sound(vdb) /\ vdb.stash \in StashTable
  BY DEF TypeInv, Sound, Database
<1>2. vdb.avail = 2 /\ StartCommand("redo", vdb, [todo |-> Swapped(TRUE, Path), db |-> db], "none", 0)
  BY <1>1 DEF Redo, Database, SwapOf
<1>3. stash \in StashTable /\ DOMAIN stash = DOMAIN vdb.stash \ DOMAIN vdb.log.stash
  BY <1>1, StashDropped
<1> HIDE DEF stash
<1>4. \A i \in DOMAIN stash : i < vdb.next
  BY <1>1, <1>3 DEF Sound
<1>5. \A i \in DOMAIN stash \cap DOMAIN vdb.log.stash : stash[i] = vdb.log.stash[i]
  BY <1>3
<1>a. avail \in 0 .. 2
  OBVIOUS
<1> HIDE DEF avail
<1>6. Sound(db) /\ db.avail = avail /\ db.stash = stash /\ TablesSwapped(vdb, db)
  BY <1>1, <1>3, <1>4, <1>5, <1>a, SwapTables
<1> HIDE DEF db
<1> DEFINE redo == TRUE
<1>b. SwapArgs("redo", redo, Path, db)
  BY <1>2, <1>6 DEF SwapArgs, avail, stash
<1>7. redo \in BOOLEAN /\ Path \in SUBSET Path
      /\ StartCommand("redo", vdb, [todo |-> Swapped(redo, Path), db |-> db], "none", 0)
  BY <1>2
<1> HIDE DEF redo
<1>8. vdb.avail # 0
  BY <1>2
<1> QED BY <1>6, <1>7, <1>8, <1>b, SwapStart

LEMMA UndoFileStart ==
    ASSUME TypeInv, UndoAssumption, NEW f \in Path, NEW redo \in BOOLEAN, UndoFile(f, redo)
    PROVE  Begins(vdb) /\ GoodSwap(cmd')
<1>1. Sound(vdb) /\ vdb.avail # 0
      /\ StartCommand("undofile", vdb, [todo |-> Swapped(redo, {f}), db |-> vdb], "none", 0)
  BY DEF UndoFile, TypeInv
<1>2. {f} \in SUBSET Path /\ SwapArgs("undofile", redo, {f}, vdb)
  BY DEF SwapArgs
<1> QED BY <1>1, <1>2, SwapStart

-----------------------------------------------------------------------------
(* "stash save" and "checkout".                                            *)
GoodSave(c) ==
    /\ c \in Command /\ c.name = "save" /\ c.then = "revert" /\ DOMAIN c.todo = {}
    /\ Sound(c.db) /\ Ready(c)
    /\ DOMAIN c.db.stash = DOMAIN vdb.stash \cup {vdb.next} /\ c.db.next = vdb.next + 1
    /\ \A i \in DOMAIN vdb.stash : c.db.stash[i] = vdb.stash[i]
    /\ ~StashRemoved => \A p \in DOMAIN c.db.stash[vdb.next].files :
                          disk[p].edits \subseteq c.db.stash[vdb.next].files[p].content.edits

LEMMA EntryFacts ==
    ASSUME disk \in [Path -> Content], NEW d \in Database
    PROVE  /\ StashEntry(d) \in Partial(Path, Entry)
           /\ \A p \in DOMAIN StashEntry(d) :
                StashEntry(d)[p].content = disk[p] \/ StashEntry(d)[p].op = "remove"
<1> DEFINE S == {q \in DOMAIN d.vf : Changed(d.vf[q], disk[q])}
           item(p) == IF Added(d.vf[p]) THEN [op |-> "add", rid |-> Absent, content |-> disk[p]]
                      ELSE IF d.vf[p].deleted
                      THEN [op |-> "remove", rid |-> d.vf[p].mrid, content |-> Absent]
                      ELSE [op |-> "edit", rid |-> d.vf[p].mrid, content |-> disk[p]]
<1>1. StashEntry(d) = [p \in S |-> item(p)]
  BY DEF StashEntry
<1>2. ASSUME NEW p \in S
      PROVE  p \in Path /\ item(p) \in Entry /\ (item(p).content = disk[p] \/ item(p).op = "remove")
  <2>1. p \in Path /\ d.vf[p] \in FileRow
    BY MapElim DEF Database, VFileTable
  <2>2. d.vf[p].mrid \in Clean /\ disk[p] \in Content /\ Absent \in Clean /\ Absent \in Content
    BY <2>1, ContentFacts DEF FileRow
  <2> QED BY <2>1, <2>2 DEF Entry
<1> HIDE DEF item, S
<1>3. IsMap(StashEntry(d), Path, Entry)
  BY <1>1, <1>2 DEF IsMap
<1>4. StashEntry(d) \in Partial(Path, Entry)
  BY <1>3, MapIntro
<1> QED BY <1>1, <1>2, <1>4

LEMMA SaveStart ==
    ASSUME TypeInv, UndoAssumption, StashSave
    PROVE  Begins(vdb) /\ GoodSave(cmd')
<1> DEFINE entry == StashEntry(vdb)
           id == vdb.next
           item == [co |-> vdb.co, files |-> entry]
           stash == With(vdb.stash, id, item)
           next == id + 1
           d == [vdb EXCEPT !.stash = stash, !.next = next]
           plan == [todo |-> <<>>, db |-> d]
<1>1. vdb \in Database /\ Sound(vdb) /\ disk \in [Path -> Content]
      /\ 0 \in Version \cup (0 .. MaxStash)
  BY BegunFacts
<1>2. /\ id <= MaxStash /\ StartCommand("save", vdb, plan, "revert", 0)
      /\ {p \in DOMAIN entry : entry[p].op = "remove" /\ disk[p].edits # {}} = {} \/ StashRemoved
  BY <1>1 DEF StashSave, Database
<1>3. /\ entry \in Partial(Path, Entry)
      /\ \A p \in DOMAIN entry : entry[p].content = disk[p] \/ entry[p].op = "remove"
  BY <1>1, EntryFacts
<1> HIDE DEF entry
<1>4. id \in 1 .. MaxStash /\ next \in 1 .. MaxStash + 1 /\ vdb.co \in Version
      /\ vdb.stash \in StashTable /\ MaxStash \in Nat
  BY <1>1, <1>2 DEF Database, UndoAssumption
<1>5. item \in Stashed /\ item.files = entry
  BY <1>3, <1>4 DEF Stashed
<1> HIDE DEF item
<1>6. stash \in StashTable /\ IsWith(stash, vdb.stash, id, item)
  BY <1>4, <1>5, StashWith
<1> HIDE DEF stash
<1>7. d \in Database /\ d.stash = stash /\ d.next = next /\ d.log = vdb.log
  <2> HIDE DEF next
  <2> QED BY <1>1, <1>4, <1>6 DEF Database
<1> HIDE DEF d
<1>8. /\ DOMAIN stash = DOMAIN vdb.stash \cup {id} /\ stash[id] = item
      /\ \A i \in DOMAIN vdb.stash : i < id
  BY <1>1, <1>6 DEF IsWith, Sound
<1>9. \A i \in DOMAIN vdb.stash : i \in Nat /\ i # id /\ stash[i] = vdb.stash[i]
  <2>1. \A i \in DOMAIN vdb.stash : i \in 1 .. MaxStash
    BY <1>4, StashFacts
  <2> QED BY <1>4, <1>6, <1>8, <2>1 DEF IsWith
<1>10. Sound(d)
  <2>1. \A i \in DOMAIN vdb.log.stash : i < id /\ i \in Nat
    <3>1. vdb.log.stash \in StashTable
      BY <1>1 DEF Database, Log
    <3>2. \A i \in DOMAIN vdb.log.stash : i \in 1 .. MaxStash
      BY <3>1, StashFacts
    <3> QED BY <1>1, <3>2 DEF Sound
  <2>2. \A i \in DOMAIN stash \cup DOMAIN vdb.log.stash : i < next
    BY <1>4, <1>8, <1>9, <2>1
  <2>3. ASSUME NEW i \in DOMAIN stash \cap DOMAIN vdb.log.stash
        PROVE  stash[i] = vdb.log.stash[i]
    <3>1. i # id
      BY <1>4, <2>1, <2>3
    <3>2. i \in DOMAIN vdb.stash \cap DOMAIN vdb.log.stash
      BY <1>8, <2>3, <3>1
    <3> QED BY <1>1, <1>9, <3>2 DEF Sound
  <2> QED BY <1>7, <2>2, <2>3 DEF Sound
<1>11. <<>> \in Writes /\ DOMAIN <<>> = {}
  BY EmptyMap DEF Writes
<1>12. plan.todo = <<>> /\ plan.db = d
  OBVIOUS
<1> HIDE DEF plan
<1>13. "save" \in Names
  BY DEF Names
<1>14. Begins(vdb) /\ CommandIs("save", plan, "revert", 0)
  BY <1>1, <1>2, <1>10, <1>11, <1>12, <1>13, StartForm
<1>15. next - 1 \in DOMAIN stash
  BY <1>4, <1>8
<1>16. Ready(cmd')
  BY <1>7, <1>12, <1>14, <1>15 DEF Ready, CommandIs
<1>17. ~StashRemoved => \A p \in DOMAIN entry : disk[p].edits \subseteq entry[p].content.edits
  BY <1>2, <1>3
<1> QED BY <1>5, <1>7, <1>8, <1>9, <1>10, <1>11, <1>12, <1>14, <1>16, <1>17 DEF GoodSave, CommandIs

GoodCheckout(c) ==
    /\ c \in Command /\ c.name = "checkout" /\ c.then = "none" /\ Sound(c.db) /\ Ready(c)
    /\ c.db.stash = vdb.stash /\ c.db.avail = 0
    /\ \A p \in DOMAIN c.todo : ~c.todo[p].log /\ disk[p].edits = {}

LEMMA CheckoutStart ==
    ASSUME TypeInv, UndoAssumption, NEW v \in Version, Checkout(v)
    PROVE  Begins(vdb) /\ GoodCheckout(cmd')
<1> DEFINE W == [p \in Path |->
                   IF p \notin DOMAIN vdb.vf /\ (disk[p] # Absent \/ File[v][p] = "absent")
                   THEN {} ELSE {Write(p, Text(v, p), FALSE)}]
           e == [vdb EXCEPT !.co = v, !.mg = {}, !.vf = VFile(v)]
           db == UndoReset(e)
           plan == [todo |-> Todo(W), db |-> db]
<1>1. vdb \in Database /\ Sound(vdb) /\ disk \in [Path -> Content]
      /\ 0 \in Version \cup (0 .. MaxStash)
  BY BegunFacts
<1>2. /\ StartCommand("checkout", vdb, plan, "none", 0)
      /\ \A p \in DOMAIN vdb.vf : ~Changed(vdb.vf[p], disk[p])
  BY DEF Checkout
<1>3. e \in Database /\ e.stash = vdb.stash /\ e.next = vdb.next
  <2> DEFINE vf == VFile(v)
             none == {}
  <2>1. vf \in VFileTable /\ none \in SUBSET Version
    BY VFileTyped
  <2> HIDE DEF vf, none
  <2>2. [vdb EXCEPT !.co = v, !.mg = none, !.vf = vf] \in Database
    BY <1>1, <2>1, SetTables
  <2> QED BY <1>1, <2>2 DEF none, vf, Database
<1> HIDE DEF e
<1>4. db \in Database /\ db.stash = vdb.stash /\ db.next = vdb.next /\ db.avail = 0
      /\ DOMAIN db.log.stash = {}
  BY <1>3, ResetFacts
<1> HIDE DEF db
<1>5. Sound(db)
  BY <1>1, <1>4 DEF Sound
<1>6. \A p \in Path : p \in DOMAIN vdb.vf \/ disk[p] = Absent => disk[p].edits = {}
  <2> SUFFICES ASSUME NEW p \in Path, p \in DOMAIN vdb.vf \/ disk[p] = Absent
               PROVE  disk[p].edits = {}
    OBVIOUS
  <2>1. CASE p \in DOMAIN vdb.vf
    <3>1. vdb.vf[p] \in FileRow
      BY <1>1, <2>1, MapElim DEF Database, VFileTable
    <3> QED BY <1>1, <1>2, <2>1, <3>1, FileFacts
  <2>2. CASE disk[p] = Absent
    BY <2>2 DEF Absent
  <2> QED BY <2>1, <2>2
<1>7. \A p \in Path : Write(p, Text(v, p), FALSE) \in WriteOf /\ ~Write(p, Text(v, p), FALSE).log
  <2> SUFFICES ASSUME NEW p \in Path
               PROVE  Write(p, Text(v, p), FALSE) \in WriteOf /\ ~Write(p, Text(v, p), FALSE).log
    OBVIOUS
  <2>1. Text(v, p) \in Content /\ disk[p] \in Content
    BY <1>1, ContentFacts
  <2> QED BY <2>1 DEF Write, WriteOf
<1>8. \A p \in Path : /\ W[p] \subseteq WriteOf
                       /\ \A w \in W[p] : ~w.log /\ disk[p].edits = {}
  BY <1>6, <1>7
<1> HIDE DEF W
<1>9. /\ Todo(W) \in Writes
      /\ \A p \in DOMAIN Todo(W) : p \in Path /\ Todo(W)[p] \in W[p]
  BY <1>8, TodoMap
<1>10. plan.todo = Todo(W) /\ plan.db = db
  OBVIOUS
<1> HIDE DEF plan
<1>11. "checkout" \in Names
  BY DEF Names
<1>12. Begins(vdb) /\ CommandIs("checkout", plan, "none", 0)
  BY <1>1, <1>2, <1>5, <1>9, <1>10, <1>11, StartForm
<1>13. Ready(cmd')
  BY <1>12 DEF Ready, CommandIs
<1> QED BY <1>4, <1>5, <1>8, <1>9, <1>10, <1>12, <1>13 DEF GoodCheckout, CommandIs

-----------------------------------------------------------------------------
(* Every action that begins a command.                                     *)
BeginUndoable == Begins(UndoBegin(vdb)) /\ GoodStart(cmd')
BeginSwap == Begins(vdb) /\ GoodSwap(cmd')
BeginSave == Begins(vdb) /\ GoodSave(cmd')
BeginCheckout == Begins(vdb) /\ GoodCheckout(cmd')

ByUserStep ==
    \E p \in Path : Edit(p) \/ Erase(p) \/ Add(p) \/ RemoveFile(p)

Kinds ==
    \/ BeginUndoable \/ BeginSwap \/ BeginSave \/ BeginCheckout
    \/ \E p \in Path : Step(p)
    \/ Finish \/ ThenApply \/ ThenRevert \/ ThenMerge \/ Skip \/ Fail \/ KillCommand
    \/ ByUserStep

LEMMA NextKinds ==
    ASSUME TypeInv, UndoAssumption, UndoNext
    PROVE  Kinds
<1>1. ASSUME NEW t \in Version, Update(t) PROVE Kinds
  BY <1>1, UpdateStart DEF Kinds, BeginUndoable
<1>2. ASSUME NEW t \in Version, Checkout(t) PROVE Kinds
  BY <1>2, CheckoutStart DEF Kinds, BeginCheckout
<1>3. ASSUME NEW t \in Version, Merge(t) PROVE Kinds
  BY <1>3, MergeStart DEF Kinds, BeginUndoable
<1>4. ASSUME NEW m \in Version, NEW n \in Version, Merge2(m, n) PROVE Kinds
  BY <1>4, Merge2Start DEF Kinds, BeginUndoable
<1>5. ASSUME RevertAll PROVE Kinds
  BY <1>5, RevertAllStart DEF Kinds, BeginUndoable
<1>6. ASSUME StashSave PROVE Kinds
  BY <1>6, SaveStart DEF Kinds, BeginSave
<1>7. ASSUME Undo PROVE Kinds
  BY <1>7, UndoStart DEF Kinds, BeginSwap
<1>8. ASSUME Redo PROVE Kinds
  BY <1>8, RedoStart DEF Kinds, BeginSwap
<1>9. ASSUME NEW id, StashApply(id) PROVE Kinds
  BY <1>9, StashApplyStart DEF Kinds, BeginUndoable
<1>10. ASSUME NEW id, StashPop(id) PROVE Kinds
  BY <1>10, StashPopStart DEF Kinds, BeginUndoable
<1>11. ASSUME NEW id, StashDrop(id) PROVE Kinds
  BY <1>11, StashDropStart DEF Kinds, BeginUndoable
<1>12. ASSUME NEW id, StashGoto(id) PROVE Kinds
  BY <1>12, StashGotoStart DEF Kinds, BeginUndoable
<1>13. ASSUME NEW p \in Path, RevertFile(p) PROVE Kinds
  BY <1>13, RevertFileStart DEF Kinds, BeginUndoable
<1>14. ASSUME NEW p \in Path, NEW redo \in BOOLEAN, UndoFile(p, redo) PROVE Kinds
  BY <1>14, UndoFileStart DEF Kinds, BeginSwap
<1>15. ASSUME \/ \E p \in Path : Step(p) \/ Edit(p) \/ Erase(p) \/ Add(p) \/ RemoveFile(p)
              \/ Finish \/ ThenApply \/ ThenRevert \/ ThenMerge \/ Skip \/ Fail \/ KillCommand
       PROVE  Kinds
  BY <1>15 DEF Kinds, ByUserStep
<1> QED BY <1>1, <1>2, <1>3, <1>4, <1>5, <1>6, <1>7, <1>8, <1>9, <1>10, <1>11, <1>12, <1>13,
           <1>14, <1>15 DEF UndoNext

LEMMA BeginTyped ==
    ASSUME TypeInv, UndoAssumption,
           BeginUndoable \/ BeginSwap \/ BeginSave \/ BeginCheckout
    PROVE  TypeInv'
<1>1. Sound(vdb) /\ Sound(UndoBegin(vdb))
  BY BegunFacts
<1>2. Running'
  BY DEF BeginUndoable, BeginSwap, BeginSave, BeginCheckout,
         GoodStart, GoodSwap, GoodSave, GoodCheckout, Running
<1>3. Begins(vdb) \/ Begins(UndoBegin(vdb))
  BY DEF BeginUndoable, BeginSwap, BeginSave, BeginCheckout
<1> QED BY <1>1, <1>2, <1>3, BeginsTyped

-----------------------------------------------------------------------------
(* The steps of a command, and of the user, keep the types.                *)
LEMMA IdleFacts == Idle.name = "none" /\ Idle.then = "none" /\ DOMAIN Idle.todo = {}
<1>1. DOMAIN <<>> = {}
  OBVIOUS
<1> QED BY <1>1 DEF Idle

LEMMA CommandRuns ==
    ASSUME TypeInv, cmd.name # "none"
    PROVE  /\ Running /\ cmd \in Command /\ cmd.todo \in Writes /\ Sound(vdb)
           /\ \A p \in DOMAIN cmd.todo : p \in Path /\ cmd.todo[p] \in WriteOf
BY MapElim DEF TypeInv, Running, Command, Writes

LEMMA RowsFacts ==
    ASSUME NEW d, Sound(d)
    PROVE  /\ d.log.rows \in Rows
           /\ \A p \in DOMAIN d.log.rows : /\ p \in Path /\ d.log.rows[p] \in LogRow
                                         /\ d.log.rows[p].content \in Content
                                         /\ d.log.rows[p].redo \in BOOLEAN
<1>1. d.log.rows \in Rows
  BY DEF Sound, Database, Log
<1>2. \A p \in DOMAIN d.log.rows : p \in Path /\ d.log.rows[p] \in LogRow
  BY <1>1, MapElim DEF Rows
<1> QED BY <1>1, <1>2 DEF LogRow

(* What Logged does to the rows of the log.                                *)
LEMMA LoggedFacts ==
    ASSUME TypeInv, NEW p \in Path, p \in DOMAIN cmd.todo, cmd.name # "none"
    PROVE  LET rows == vdb.log.rows
               new == Logged(rows, p)
               w == cmd.todo[p]
           IN  /\ new \in Rows
               /\ \A q \in DOMAIN rows : q \in DOMAIN new /\ (q # p => new[q] = rows[q])
               /\ \A q \in DOMAIN new : q \in DOMAIN rows \/ q = p
               /\ ~w.log => new = rows
               /\ w.log /\ Swapping /\ p \in DOMAIN rows =>
                    new[p].redo = ~rows[p].redo /\ new[p].content = w.saved
               /\ w.log /\ ~Swapping /\ p \notin DOMAIN rows =>
                    p \in DOMAIN new /\ ~new[p].redo /\ new[p].content = w.saved
               /\ w.log /\ ~Swapping /\ p \in DOMAIN rows => new = rows
<1> DEFINE rows == vdb.log.rows
           w == cmd.todo[p]
<1>1. rows \in Rows
      /\ \A q \in DOMAIN rows : q \in Path /\ rows[q] \in LogRow /\ rows[q].redo \in BOOLEAN
  BY RowsFacts DEF TypeInv
<1>2. w \in WriteOf /\ w.log \in BOOLEAN /\ w.saved \in Content
  BY CommandRuns DEF WriteOf
<1> DEFINE flip == [redo |-> ~rows[p].redo, content |-> w.saved]
           flipped == [rows EXCEPT ![p] = flip]
           row == [redo |-> FALSE, content |-> w.saved]
           put == With(rows, p, row)
<1>3. Logged(rows, p) = IF ~w.log THEN rows ELSE IF Swapping THEN flipped
                        ELSE IF p \in DOMAIN rows THEN rows ELSE put
  BY DEF Logged
<1>4. row \in LogRow /\ ~row.redo /\ row.content = w.saved
  BY <1>2 DEF LogRow
<1>5. p \in DOMAIN rows =>
        flip \in LogRow /\ flip.redo = ~rows[p].redo /\ flip.content = w.saved
  BY <1>1, <1>2 DEF LogRow
<1> HIDE DEF rows, w, flip, row
<1>6. put \in Rows /\ IsWith(put, rows, p, row)
  BY <1>1, <1>4, WithMap DEF Rows
<1>7. /\ flipped \in Rows /\ DOMAIN flipped = DOMAIN rows
      /\ p \in DOMAIN rows => flipped[p] = flip
      /\ \A q \in DOMAIN rows : q # p => flipped[q] = rows[q]
  <2>1. IsMap(rows, Path, LogRow)
    BY <1>1, MapElim DEF Rows
  <2>2. IsMap(flipped, Path, LogRow)
    BY <1>5, <2>1 DEF IsMap
  <2>3. flipped \in Rows
    BY <2>2, MapIntro DEF Rows
  <2> QED BY <2>1, <2>3 DEF IsMap
<1> HIDE DEF put, flipped
<1>8. CASE ~w.log
  BY <1>1, <1>2, <1>3, <1>8 DEF rows, w
<1>9. CASE w.log /\ Swapping
  <2>1. Logged(rows, p) = flipped
    BY <1>3, <1>9
  <2> QED BY <1>5, <1>7, <1>9, <2>1 DEF rows, w
<1>10. CASE w.log /\ ~Swapping /\ p \in DOMAIN rows
  <2>1. Logged(rows, p) = rows
    BY <1>3, <1>10
  <2> QED BY <1>1, <1>10, <2>1 DEF rows, w
<1>11. CASE w.log /\ ~Swapping /\ p \notin DOMAIN rows
  <2>1. Logged(rows, p) = put
    BY <1>3, <1>11
  <2> QED BY <1>4, <1>6, <1>11, <2>1 DEF rows, w, IsWith
<1> QED BY <1>2, <1>8, <1>9, <1>10, <1>11

SameBut(d, e) ==
    /\ e.vf = d.vf /\ e.mg = d.mg /\ e.co = d.co /\ e.stash = d.stash /\ e.next = d.next
    /\ e.avail = d.avail /\ e.log.vf = d.log.vf /\ e.log.mg = d.log.mg
    /\ e.log.co = d.log.co /\ e.log.stash = d.log.stash

LEMMA StepForm ==
    ASSUME TypeInv, NEW p \in Path, Step(p)
    PROVE  /\ cmd.name # "none" /\ p \in DOMAIN cmd.todo /\ TypeInv'
           /\ disk' \in [Path -> Content] /\ disk'[p] = cmd.todo[p].to
           /\ \A q \in Path : q # p => disk'[q] = disk[q]
           /\ SameBut(vdb, vdb') /\ vdb'.log.rows = Logged(vdb.log.rows, p)
           /\ cmd'.name = cmd.name /\ cmd'.db = cmd.db /\ cmd'.then = cmd.then
           /\ DOMAIN cmd'.todo = DOMAIN cmd.todo \ {p}
           /\ \A q \in DOMAIN cmd'.todo : cmd'.todo[q] = cmd.todo[q]
<1>1. p \in DOMAIN cmd.todo
  BY DEF Step
<1>2. cmd.name # "none"
  BY <1>1, IdleFacts DEF TypeInv
<1>3. /\ Running /\ cmd \in Command /\ cmd.todo \in Writes /\ Sound(vdb)
      /\ cmd.todo[p] \in WriteOf /\ disk \in [Path -> Content]
  BY <1>1, <1>2, CommandRuns DEF TypeInv
<1>4. cmd.todo[p].to \in Content
  BY <1>3 DEF WriteOf
<1>5. disk' = [disk EXCEPT ![p] = cmd.todo[p].to]
  BY DEF Step
<1>6. /\ disk' \in [Path -> Content] /\ disk'[p] = cmd.todo[p].to
      /\ \A q \in Path : q # p => disk'[q] = disk[q]
  BY <1>3, <1>4, <1>5
<1> DEFINE rows == Logged(vdb.log.rows, p)
           todo == Drop(cmd.todo, {p})
<1>7. rows \in Rows
  BY <1>1, <1>2, LoggedFacts
<1> HIDE DEF rows
<1>8. vdb' = [vdb EXCEPT !.log.rows = rows]
  BY <1>3 DEF Step, rows, Sound, Database, Log
<1>9. Sound(vdb') /\ SameBut(vdb, vdb') /\ vdb'.log.rows = rows
  <2> DEFINE e == [vdb EXCEPT !.log.rows = rows]
  <2>1. Sound(e) /\ SameBut(vdb, e) /\ e.log.rows = rows
    BY <1>3, <1>7, LogFacts DEF SameBut
  <2> QED BY <1>8, <2>1
<1>10. /\ todo \in Writes /\ DOMAIN todo = DOMAIN cmd.todo \ {p}
       /\ \A q \in DOMAIN todo : todo[q] = cmd.todo[q]
  <2> DEFINE old == cmd.todo
  <2>1. old \in Partial(Path, WriteOf)
    BY <1>3 DEF Writes
  <2> HIDE DEF old
  <2>2. /\ Drop(old, {p}) \in Partial(Path, WriteOf)
        /\ DOMAIN Drop(old, {p}) = DOMAIN old \ {p}
        /\ \A q \in DOMAIN old \ {p} : Drop(old, {p})[q] = old[q]
    BY <2>1, DropMap
  <2> QED BY <2>2 DEF old, Writes
<1> HIDE DEF todo
<1>11. cmd' = [cmd EXCEPT !.todo = todo]
  BY <1>3 DEF Step, todo, Command
<1>12. /\ cmd' \in Command /\ cmd'.todo = todo /\ cmd'.name = cmd.name /\ cmd'.db = cmd.db
       /\ cmd'.then = cmd.then /\ cmd'.arg = cmd.arg
  BY <1>3, <1>10, <1>11 DEF Command
<1>13. Running'
  BY <1>3, <1>12 DEF Running, Ready
<1>14. backup' \in SUBSET (1 .. MaxEdits)
  <2>1. disk[p].edits \subseteq 1 .. MaxEdits
    BY <1>3, ContentFacts
  <2> QED BY <2>1 DEF Step, TypeInv
<1>15. TypeInv'
  BY <1>2, <1>6, <1>9, <1>12, <1>13, <1>14 DEF TypeInv, Step
<1> QED BY <1>1, <1>2, <1>6, <1>9, <1>10, <1>12, <1>15 DEF rows

LEMMA FinishForm ==
    ASSUME TypeInv, Finish
    PROVE  /\ cmd.name # "none" /\ Running /\ Sound(vdb) /\ TypeInv' /\ cmd' = Idle
           /\ vdb' = Result /\ Sound(Result)
<1>1. cmd.name # "none" /\ vdb' = Result /\ committed' = Result /\ cmd' = Idle
  BY DEF Finish, Finished
<1>2. Running /\ Sound(vdb)
  BY <1>1, CommandRuns
<1>3. Sound(Result)
  BY <1>2, ResultFacts
<1>4. Tree(Result) \in State /\ before \in State
  BY <1>3, TreeFacts DEF Sound, TypeInv
<1>5. marks' \in {<<>>} \cup (State \X State)
  BY <1>4 DEF Finish, TypeInv
<1>6. TypeInv'
  BY <1>1, <1>3, <1>5, IdleFacts DEF TypeInv, Finish
<1> QED BY <1>1, <1>2, <1>3, <1>6

(* The second part of a command that has one.                              *)
LEMMA ContinueForm ==
    ASSUME TypeInv, NEW plan, plan.todo \in Writes, Sound(plan.db), Continue(plan),
           cmd.name # "none"
    PROVE  /\ Running' /\ cmd'.name = cmd.name /\ cmd'.todo = plan.todo /\ cmd'.db = plan.db
           /\ cmd'.then = "none"
<1>1. cmd \in Command
  BY CommandRuns
<1> DEFINE c == [cmd EXCEPT !.todo = plan.todo, !.db = plan.db, !.then = "none"]
<1>2. plan.db \in Database
  BY DEF Sound
<1>3. c \in Command /\ c.name = cmd.name /\ c.todo = plan.todo /\ c.db = plan.db /\ c.then = "none"
  BY <1>1, <1>2 DEF Command
<1>4. cmd' = c
  BY DEF Continue
<1> HIDE DEF c
<1>5. Ready(c)
  BY <1>3 DEF Ready
<1> QED BY <1>3, <1>4, <1>5 DEF Running

LEMMA ThenForm ==
    ASSUME TypeInv, UndoAssumption, NEW then \in {"apply", "revert", "merge"}, Finished(then)
    PROVE  /\ cmd.name # "none" /\ Running /\ Ready(cmd) /\ Sound(vdb) /\ cmd.then = then
           /\ Sound(Result) /\ Result.stash = cmd.db.stash /\ disk \in [Path -> Content]
           /\ Result.next = cmd.db.next
           /\ DOMAIN cmd.todo = {}
<1>1. cmd.name # "none" /\ cmd.then = then /\ DOMAIN cmd.todo = {}
  BY DEF Finished
<1>2. Running /\ Sound(vdb)
  BY <1>1, CommandRuns
<1>3. Sound(Result) /\ Result.stash = cmd.db.stash /\ Result.next = cmd.db.next
  BY <1>2, ResultFacts
<1> QED BY <1>1, <1>2, <1>3 DEF TypeInv, Running

LEMMA ThenApplyForm ==
    ASSUME TypeInv, UndoAssumption, ThenApply
    PROVE  /\ TypeInv' /\ cmd.name = "goto" /\ cmd.then = "apply" /\ cmd'.name = "goto"
           /\ cmd'.then = "none" /\ vdb' = Result /\ Running /\ Sound(vdb)
           /\ Planned(Applied(Result, cmd.arg), Result)
           /\ cmd'.todo = Applied(Result, cmd.arg).todo /\ cmd'.db = Applied(Result, cmd.arg).db
           /\ \A p \in DOMAIN cmd'.todo : cmd'.todo[p].log /\ cmd'.todo[p].saved = disk[p]
<1> DEFINE plan == Applied(Result, cmd.arg)
<1>1. Finished("apply") /\ vdb' = Result /\ Continue(plan) /\ UNCHANGED committed /\ Unfinished
  BY DEF ThenApply
<1>2. /\ cmd.name # "none" /\ Running /\ Ready(cmd) /\ Sound(vdb) /\ cmd.then = "apply"
      /\ Sound(Result) /\ Result.stash = cmd.db.stash /\ disk \in [Path -> Content]
  BY <1>1, ThenForm
<1>3. cmd.name = "goto" /\ cmd.arg \in DOMAIN Result.stash /\ Result \in Database
  BY <1>2 DEF Ready, Sound
<1>4. /\ Planned(plan, Result)
      /\ \A p \in DOMAIN plan.todo : plan.todo[p].log /\ plan.todo[p].saved = disk[p]
  BY <1>2, <1>3, ApplyPlanned
<1> HIDE DEF plan
<1>5. plan.todo \in Writes /\ Sound(plan.db)
  BY <1>2, <1>4, PlannedSound
<1>6. /\ Running' /\ cmd'.name = cmd.name /\ cmd'.todo = plan.todo /\ cmd'.db = plan.db
      /\ cmd'.then = "none"
  BY <1>1, <1>2, <1>5, ContinueForm
<1>7. TypeInv'
  BY <1>1, <1>2, <1>6 DEF TypeInv, Unfinished
<1> QED BY <1>1, <1>2, <1>3, <1>4, <1>6, <1>7 DEF plan

LEMMA ThenRevertForm ==
    ASSUME TypeInv, UndoAssumption, ThenRevert
    PROVE  /\ TypeInv' /\ cmd.name = "save" /\ cmd.then = "revert" /\ cmd'.name = "save"
           /\ cmd'.then = "none" /\ vdb' = Result /\ committed' = Result /\ Running
           /\ Sound(vdb) /\ cmd'.db.stash = Result.stash /\ Result.stash = cmd.db.stash
           /\ cmd.db.next - 1 \in DOMAIN cmd.db.stash /\ DOMAIN cmd.todo = {}
           /\ \A p \in DOMAIN cmd'.todo : /\ p \in DOMAIN cmd.db.stash[cmd.db.next - 1].files
                                         /\ ~cmd'.todo[p].log
<1> DEFINE id == Result.next - 1
           S == DOMAIN Result.stash[id].files
           plan == Reverted(Result, S, FALSE)
<1>1. Finished("revert") /\ vdb' = Result /\ committed' = Result /\ Continue(plan) /\ Unfinished
  BY DEF ThenRevert
<1>2. /\ cmd.name # "none" /\ Running /\ Ready(cmd) /\ Sound(vdb) /\ cmd.then = "revert"
      /\ Sound(Result) /\ Result.stash = cmd.db.stash /\ disk \in [Path -> Content]
      /\ Result.next = cmd.db.next /\ DOMAIN cmd.todo = {}
  BY <1>1, ThenForm
<1>3. cmd.name = "save" /\ id \in DOMAIN Result.stash /\ Result \in Database
  BY <1>2 DEF Ready, Sound
<1>4. S \in SUBSET Path
  <2>1. Result.stash[id] \in Stashed
    BY <1>3, StashFacts DEF Database
  <2>2. Result.stash[id].files \in Partial(Path, Entry)
    BY <2>1 DEF Stashed
  <2> QED BY <2>2, MapElim
<1> DEFINE log == FALSE
<1>5. log \in BOOLEAN /\ plan = Reverted(Result, S, log)
  OBVIOUS
<1> HIDE DEF plan, log, S
<1>6. /\ Planned(plan, Result)
      /\ \A p \in DOMAIN plan.todo : p \in S /\ plan.todo[p].log = log
  <2>1. /\ Planned(Reverted(Result, S, log), Result)
        /\ \A p \in DOMAIN Reverted(Result, S, log).todo :
             LET w == Reverted(Result, S, log).todo[p]
             IN  p \in S /\ w.log = log /\ w.saved = disk[p]
    BY <1>2, <1>3, <1>4, <1>5, RevertPlanned
  <2> QED BY <1>5, <2>1
<1>7. plan.todo \in Writes /\ Sound(plan.db) /\ plan.db.stash = Result.stash
  BY <1>2, <1>6, PlannedSound DEF Planned
<1>8. /\ Running' /\ cmd'.name = cmd.name /\ cmd'.todo = plan.todo /\ cmd'.db = plan.db
      /\ cmd'.then = "none"
  BY <1>1, <1>2, <1>7, ContinueForm
<1>9. TypeInv'
  BY <1>1, <1>2, <1>8 DEF TypeInv, Unfinished
<1>10. \A p \in DOMAIN plan.todo : ~plan.todo[p].log
  BY <1>6 DEF log
<1> QED BY <1>1, <1>2, <1>3, <1>6, <1>7, <1>8, <1>9, <1>10 DEF S

LEMMA ThenMergeForm ==
    ASSUME TypeInv, UndoAssumption, ThenMerge
    PROVE  /\ TypeInv' /\ cmd.name = "merge2" /\ cmd.then = "merge" /\ cmd'.name = "merge2"
           /\ cmd'.then = "none" /\ vdb' = UndoBegin(Result) /\ Running /\ Sound(vdb)
           /\ cmd'.db.stash = Result.stash /\ cmd'.db.avail = 1 /\ Result \in Database
           /\ DOMAIN cmd'.db.log.stash = {}
           /\ \A p \in DOMAIN cmd'.todo : cmd'.todo[p].log /\ cmd'.todo[p].saved = disk[p]
<1> DEFINE d == UndoBegin(Result)
           plan == MergeInto(d, cmd.arg)
<1>1. Finished("merge") /\ vdb' = d /\ Continue(plan) /\ UNCHANGED committed /\ Unfinished
  BY DEF ThenMerge
<1>2. /\ cmd.name # "none" /\ Running /\ Ready(cmd) /\ Sound(vdb) /\ cmd.then = "merge"
      /\ Sound(Result) /\ disk \in [Path -> Content]
  BY <1>1, ThenForm
<1>3. cmd.name = "merge2" /\ cmd.arg \in Version /\ Result \in Database
  BY <1>2 DEF Ready, Sound
<1>4. Sound(d) /\ d \in Database /\ d.stash = Result.stash /\ d.avail = 1 /\ d.log.stash = <<>>
  BY <1>2, <1>3, BeginSound, BeginFacts
<1> HIDE DEF d
<1>5. /\ Planned(plan, d)
      /\ \A p \in DOMAIN plan.todo : plan.todo[p].log /\ plan.todo[p].saved = disk[p]
  BY <1>2, <1>3, <1>4, MergePlanned
<1> HIDE DEF plan
<1>6. plan.todo \in Writes /\ Sound(plan.db) /\ plan.db.stash = Result.stash /\ plan.db.avail = 1
      /\ DOMAIN plan.db.log.stash = {}
  BY <1>4, <1>5, PlannedSound DEF Planned
<1>7. /\ Running' /\ cmd'.name = cmd.name /\ cmd'.todo = plan.todo /\ cmd'.db = plan.db
      /\ cmd'.then = "none"
  BY <1>1, <1>2, <1>6, ContinueForm
<1>8. TypeInv'
  BY <1>1, <1>2, <1>4, <1>7 DEF TypeInv, Unfinished
<1> QED BY <1>1, <1>2, <1>3, <1>5, <1>6, <1>7, <1>8 DEF d

LEMMA RestoredFacts ==
    ASSUME TypeInv
    PROVE  /\ Restored \in [Path -> Content]
           /\ \A p \in Path : Restored[p] = IF p \in DOMAIN vdb.log.rows /\ ~vdb.log.rows[p].redo
                                          THEN vdb.log.rows[p].content ELSE disk[p]
<1>1. \A p \in DOMAIN vdb.log.rows : vdb.log.rows[p].content \in Content
  BY RowsFacts DEF TypeInv
<1>2. disk \in [Path -> Content]
  BY DEF TypeInv
<1> QED BY <1>1, <1>2 DEF Restored

LEMMA EndTyped ==
    ASSUME TypeInv, UndoAssumption, Skip \/ Fail \/ KillCommand
    PROVE  /\ TypeInv' /\ cmd.name # "none" /\ cmd' = Idle /\ vdb' = committed
           /\ UNCHANGED <<committed, before, backup>>
<1>1. /\ cmd.name # "none" /\ cmd' = Idle /\ vdb' = committed
      /\ UNCHANGED <<committed, before, backup, edits, turns>>
      /\ marks' = marks \/ marks' = <<>>
  BY DEF Skip, Fail, KillCommand, EndEarly
<1>2. disk' \in [Path -> Content]
  BY RestoredFacts DEF TypeInv, Skip, Fail, KillCommand
<1>3. faults' \in 0 .. MaxFaults
  BY DEF Skip, Fail, KillCommand, TypeInv, UndoAssumption
<1>4. TypeInv'
  BY <1>1, <1>2, <1>3, IdleFacts DEF TypeInv
<1> QED BY <1>1, <1>4

(* The user.                                                               *)
LEMMA ByUserForm ==
    ASSUME TypeInv, UndoAssumption, NEW d, Sound(d), ByUser(d),
           disk' \in [Path -> Content], edits' \in 0 .. MaxEdits
    PROVE  /\ TypeInv' /\ cmd.name = "none" /\ cmd'.name = "none" /\ marks' = <<>>
           /\ last'.name = "user"
<1>1. /\ cmd.name = "none" /\ vdb' = d /\ committed' = d /\ before' = Tree(vdb) /\ marks' = <<>>
      /\ last' = [name |-> "user", how |-> "done"] /\ UNCHANGED <<backup, cmd, faults>>
  BY DEF ByUser
<1>2. before' \in State
  BY <1>1, TreeFacts DEF TypeInv, Sound
<1>3. turns' \in 0 .. MaxTurns
  BY DEF ByUser, TypeInv, UndoAssumption
<1>4. TypeInv'
  BY <1>1, <1>2, <1>3 DEF TypeInv
<1> QED BY <1>1, <1>4

LEMMA UserTyped ==
    ASSUME TypeInv, UndoAssumption, ByUserStep
    PROVE  /\ TypeInv' /\ cmd.name = "none" /\ cmd'.name = "none" /\ marks' = <<>>
           /\ last'.name = "user"
<1> DEFINE P == /\ TypeInv' /\ cmd.name = "none" /\ cmd'.name = "none" /\ marks' = <<>>
                /\ last'.name = "user"
<1>1. Sound(vdb) /\ vdb \in Database /\ disk \in [Path -> Content] /\ edits \in 0 .. MaxEdits
  BY DEF TypeInv, Sound
<1>2. ASSUME NEW p \in Path, Edit(p) PROVE P
  <2>1. /\ edits < MaxEdits /\ edits' = edits + 1 /\ ByUser(vdb)
        /\ disk' = [disk EXCEPT ![p] = Edited(@, edits + 1)]
    BY <1>2 DEF Edit
  <2>2. edits' \in 1 .. MaxEdits /\ edits' \in 0 .. MaxEdits
    BY <1>1, <2>1 DEF UndoAssumption
  <2>3. Edited(disk[p], edits') \in Content
    <3>1. disk[p] \in Content
      BY <1>1
    <3>2. disk[p].edits \cup {edits'} \in SUBSET (1 .. MaxEdits)
      BY <2>2, <3>1, ContentFacts
    <3>3. (IF disk[p] = Absent THEN "new" ELSE disk[p].text) \in Texts
      BY <3>1 DEF Content, Texts
    <3> QED BY <3>2, <3>3 DEF Edited, Content
  <2>4. disk' \in [Path -> Content]
    BY <1>1, <2>1, <2>3
  <2> QED BY <1>1, <2>1, <2>2, <2>4, ByUserForm
<1>3. ASSUME NEW p \in Path, Erase(p) PROVE P
  <2>1. ByUser(vdb) /\ edits' = edits /\ disk' = [disk EXCEPT ![p] = Absent]
    BY <1>3 DEF Erase
  <2>2. disk' \in [Path -> Content]
    BY <1>1, <2>1, ContentFacts
  <2> QED BY <1>1, <2>1, <2>2, ByUserForm
<1>4. ASSUME NEW vf \in VFileTable PROVE Sound([vdb EXCEPT !.vf = vf])
  <2>1. [vdb EXCEPT !.vf = vf] \in Database
    BY <1>1, SetTables DEF Database
  <2> QED BY <1>1, <2>1 DEF Sound, Database
<1>5. vdb.vf \in VFileTable /\ IsMap(vdb.vf, Path, FileRow)
  BY <1>1, MapElim DEF Database, VFileTable
<1>6. ASSUME NEW p \in Path, Add(p) PROVE P
  <2> DEFINE vf == IF p \in DOMAIN vdb.vf THEN [vdb.vf EXCEPT ![p].deleted = FALSE]
                   ELSE With(vdb.vf, p, VFileRow(Absent))
  <2>1. ByUser([vdb EXCEPT !.vf = vf]) /\ UNCHANGED <<disk, edits>>
    BY <1>1, <1>6 DEF Add, Database
  <2>2. vf \in VFileTable
    <3>1. CASE p \in DOMAIN vdb.vf
      <4>1. [vdb.vf[p] EXCEPT !.deleted = FALSE] \in FileRow
        BY <1>5, <3>1 DEF IsMap, FileRow
      <4>2. IsMap([vdb.vf EXCEPT ![p] = [vdb.vf[p] EXCEPT !.deleted = FALSE]], Path, FileRow)
        BY <1>5, <3>1, <4>1 DEF IsMap
      <4>3. vf = [vdb.vf EXCEPT ![p] = [vdb.vf[p] EXCEPT !.deleted = FALSE]]
        BY <3>1
      <4> QED BY <4>2, <4>3, MapIntro DEF VFileTable
    <3>2. CASE p \notin DOMAIN vdb.vf
      <4>1. VFileRow(Absent) \in FileRow
        BY ContentFacts, RowFacts
      <4>2. With(vdb.vf, p, VFileRow(Absent)) \in VFileTable
        BY <1>5, <4>1, WithMap DEF VFileTable
      <4> QED BY <3>2, <4>2
    <3> QED BY <3>1, <3>2
  <2> HIDE DEF vf
  <2> QED BY <1>1, <1>4, <2>1, <2>2, ByUserForm
<1>7. ASSUME NEW p \in Path, RemoveFile(p) PROVE P
  <2> DEFINE vf == IF Added(vdb.vf[p]) THEN Drop(vdb.vf, {p})
                   ELSE [vdb.vf EXCEPT ![p].deleted = TRUE]
  <2>1. ByUser([vdb EXCEPT !.vf = vf]) /\ UNCHANGED <<disk, edits>> /\ p \in DOMAIN vdb.vf
    BY <1>1, <1>7 DEF RemoveFile, Database
  <2>2. vf \in VFileTable
    <3>1. CASE ~Added(vdb.vf[p])
      <4>1. [vdb.vf[p] EXCEPT !.deleted = TRUE] \in FileRow
        BY <1>5, <2>1 DEF IsMap, FileRow
      <4>2. IsMap([vdb.vf EXCEPT ![p] = [vdb.vf[p] EXCEPT !.deleted = TRUE]], Path, FileRow)
        BY <1>5, <2>1, <4>1 DEF IsMap
      <4>3. vf = [vdb.vf EXCEPT ![p] = [vdb.vf[p] EXCEPT !.deleted = TRUE]]
        BY <3>1
      <4> QED BY <4>2, <4>3, MapIntro DEF VFileTable
    <3>2. CASE Added(vdb.vf[p])
      <4>1. Drop(vdb.vf, {p}) \in VFileTable
        BY <1>5, DropMap DEF VFileTable
      <4> QED BY <3>2, <4>1
    <3> QED BY <3>1, <3>2
  <2> HIDE DEF vf
  <2> QED BY <1>1, <1>4, <2>1, <2>2, ByUserForm
<1> QED BY <1>2, <1>3, <1>6, <1>7 DEF ByUserStep

LEMMA InitTyped == ASSUME UndoAssumption, UndoInit PROVE TypeInv
<1>1. /\ Root \in Version /\ <<>> \in StashTable /\ <<>> \in Rows
      /\ DOMAIN <<>> = {} /\ VFile(Root) \in VFileTable /\ MaxStash \in Nat /\ {} \in SUBSET Version
  BY EmptyMap, VFileTyped DEF Version, StashTable, Rows, UndoAssumption
<1> DEFINE vf == VFile(Root)
           none == <<>>
           lg == [rows |-> none, vf |-> vf, mg |-> {}, co |-> Root, stash |-> none]
<1>2. vdb = [vf |-> vf, mg |-> {}, co |-> Root, stash |-> none, next |-> 1, avail |-> 0, log |-> lg]
  BY DEF UndoInit
<1> HIDE DEF vf, none
<1>3. lg \in Log /\ lg.stash = none
  BY <1>1 DEF Log, vf, none
<1> HIDE DEF lg
<1>4. vdb \in Database /\ vdb.stash = none /\ vdb.log = lg
  BY <1>1, <1>2, <1>3 DEF Database, vf, none
<1>5. Sound(vdb)
  BY <1>1, <1>3, <1>4 DEF Sound, none
<1>6. \A q \in Path : Text(Root, q) \in Content
  BY <1>1, ContentFacts
<1>7. disk \in [Path -> Content] /\ edits = 1
  <2>1. PICK p \in Path : disk = [q \in Path |-> IF q # p THEN Text(Root, q)
                                               ELSE Edited(Text(Root, q), 1)]
    BY DEF UndoInit
  <2>2. Edited(Text(Root, p), 1) \in Content
    <3>1. Text(Root, p).edits \cup {1} \in SUBSET (1 .. MaxEdits)
      <4>1. 1 \in 1 .. MaxEdits
        BY DEF UndoAssumption
      <4> QED BY <1>6, <4>1, ContentFacts
    <3>2. (IF Text(Root, p) = Absent THEN "new" ELSE Text(Root, p).text) \in Texts
      BY <1>6 DEF Content, Texts
    <3> QED BY <3>1, <3>2 DEF Edited, Content
  <2>3. disk \in [Path -> Content]
    BY <1>6, <2>1, <2>2
  <2> QED BY <2>3 DEF UndoInit
<1>8. edits \in 0 .. MaxEdits /\ faults \in 0 .. MaxFaults /\ turns \in 0 .. MaxTurns
  BY DEF UndoInit, UndoAssumption
<1>9. before \in State
  BY <1>4, <1>7, TreeFacts DEF UndoInit
<1>10. backup \in SUBSET (1 .. MaxEdits) /\ committed = vdb /\ cmd = Idle /\ marks = <<>>
  BY DEF UndoInit
<1> QED BY <1>5, <1>7, <1>8, <1>9, <1>10, IdleFacts DEF TypeInv

(* The type invariant is inductive.                                        *)
LEMMA NextTyped ==
    ASSUME TypeInv, UndoAssumption, [UndoNext]_undoVars
    PROVE  TypeInv'
<1>1. CASE UndoNext
  <2>1. Kinds
    BY <1>1, NextKinds
  <2>2. CASE BeginUndoable \/ BeginSwap \/ BeginSave \/ BeginCheckout
    BY <2>2, BeginTyped
  <2>3. CASE \E p \in Path : Step(p)
    BY <2>3, StepForm
  <2>4. CASE Finish
    BY <2>4, FinishForm
  <2>5. CASE ThenApply
    BY <2>5, ThenApplyForm
  <2>6. CASE ThenRevert
    BY <2>6, ThenRevertForm
  <2>7. CASE ThenMerge
    BY <2>7, ThenMergeForm
  <2>8. CASE Skip \/ Fail \/ KillCommand
    BY <2>8, EndTyped
  <2>9. CASE ByUserStep
    BY <2>9, UserTyped
  <2> QED BY <2>1, <2>2, <2>3, <2>4, <2>5, <2>6, <2>7, <2>8, <2>9 DEF Kinds
<1>2. CASE UNCHANGED undoVars
  BY <1>2 DEF undoVars, TypeInv, Running
<1> QED BY <1>1, <1>2

LEMMA TablesTyped ==
    ASSUME NEW d, d.vf \in VFileTable, d.mg \in SUBSET Version, d.co \in Version,
           d.stash \in StashTable
    PROVE  TablesOK(d)
<1>1. IsMap(d.vf, Path, FileRow)
  BY MapElim DEF VFileTable
<1>2. \A i \in DOMAIN d.stash : i \in 1 .. MaxStash /\ d.stash[i] \in Stashed
  BY StashFacts
<1>3. \A i \in DOMAIN d.stash :
        d.stash[i].co \in Version /\ IsMap(d.stash[i].files, Path, Entry)
  BY <1>2, MapElim DEF Stashed
<1> QED BY <1>1, <1>2, <1>3 DEF TablesOK

LEMMA DatabaseTyped == ASSUME NEW d, Sound(d) PROVE DatabaseOK(d)
<1>1. d \in Database /\ d.log \in Log /\ d.log.rows \in Rows
  BY DEF Sound, Database, Log
<1>2. TablesOK(d)
  BY <1>1, TablesTyped DEF Database
<1>3. TablesOK(d.log)
  <2> DEFINE lg == d.log
  <2>1. /\ lg.vf \in VFileTable /\ lg.mg \in SUBSET Version /\ lg.co \in Version
        /\ lg.stash \in StashTable
    BY <1>1 DEF Log
  <2> HIDE DEF lg
  <2>2. TablesOK(lg)
    BY <2>1, TablesTyped
  <2> QED BY <2>2 DEF lg
<1>4. IsMap(d.log.rows, Path, LogRow)
  BY <1>1, MapElim DEF Rows
<1> QED BY <1>1, <1>2, <1>3, <1>4 DEF DatabaseOK, Database

LEMMA InvTyped == ASSUME TypeInv PROVE UndoTypeOK
<1>1. DatabaseOK(vdb) /\ DatabaseOK(committed)
  BY DatabaseTyped DEF TypeInv
<1>2. before.disk \in [Path -> Content] /\ TablesOK(before)
  <2>1. before \in State
    BY DEF TypeInv
  <2> QED BY <2>1, TablesTyped DEF State
<1>3. IF cmd.name = "none" THEN cmd = Idle
      ELSE cmd.name \in Commands /\ IsMap(cmd.todo, Path, WriteOf) /\ DatabaseOK(cmd.db)
  <2>1. CASE cmd.name = "none"
    BY <2>1 DEF TypeInv
  <2>2. CASE cmd.name # "none"
    <3>1. Running /\ cmd \in Command /\ cmd.todo \in Writes
      BY <2>2, CommandRuns
    <3>2. DatabaseOK(cmd.db)
      BY <3>1, DatabaseTyped DEF Running
    <3>3. IsMap(cmd.todo, Path, WriteOf)
      BY <3>1, MapElim DEF Writes
    <3>4. cmd.name \in Commands
      BY <3>1 DEF Command
    <3> QED BY <2>2, <3>2, <3>3, <3>4
  <2> QED BY <2>1, <2>2
<1> QED BY <1>1, <1>2, <1>3 DEF UndoTypeOK, TypeInv

(* Every database, undo log, plan and state of the check-out is well       *)
(* formed, and a command that runs has one to commit.                      *)
THEOREM UndoTyped == ASSUME UndoAssumption PROVE UndoSpec => []UndoTypeOK
<1>1. UndoInit => TypeInv
  BY InitTyped
<1>2. TypeInv /\ [UndoNext]_undoVars => TypeInv'
  BY NextTyped
<1>3. TypeInv => UndoTypeOK
  BY InvTyped
<1> QED BY <1>1, <1>2, <1>3, PTL DEF UndoSpec

-----------------------------------------------------------------------------
(* What undo and redo bring back.  m is a pair of states of the check-out; *)
(* it is the second one, and undo will bring back the first, or the other  *)
(* way round.  The rows of the log are what the files were in the other.   *)
CheckoutOf(t, d, files) ==
    t.disk = files /\ t.vf = d.vf /\ t.mg = d.mg /\ t.co = d.co /\ t.stash = d.stash

Logs(d, files, other) ==
    /\ d.log.vf = other.vf /\ d.log.mg = other.mg /\ d.log.co = other.co
    /\ \A p \in DOMAIN d.log.rows :
         (d.log.rows[p].redo <=> d.avail = 2) /\ d.log.rows[p].content = other.disk[p]
    /\ \A p \in Path \ DOMAIN d.log.rows : files[p] = other.disk[p]

(* Entries t were taken from stash s, and r is left.                       *)
Parted(s, t, r) ==
    /\ DOMAIN t \subseteq DOMAIN s /\ \A i \in DOMAIN t : t[i] = s[i]
    /\ r = Drop(s, DOMAIN t)

Shape(d, files, m) ==
    /\ Parted(m[1].stash, d.log.stash, m[2].stash)
    /\ \/ d.avail = 1 /\ CheckoutOf(m[2], d, files) /\ Logs(d, files, m[1])
       \/ d.avail = 2 /\ CheckoutOf(m[1], d, files) /\ Logs(d, files, m[2])

(* An undoable command while it runs: the files it has not logged are as   *)
(* they were.                                                              *)
Recording ==
    /\ cmd.then = "none" /\ cmd.db.avail = 1 /\ CheckoutOf(before, committed, before.disk)
    /\ cmd.db.log.vf = before.vf /\ cmd.db.log.mg = before.mg /\ cmd.db.log.co = before.co
    /\ Parted(before.stash, cmd.db.log.stash, cmd.db.stash)
    /\ \A p \in DOMAIN vdb.log.rows :
         ~vdb.log.rows[p].redo /\ vdb.log.rows[p].content = before.disk[p]
    /\ \A p \in Path \ DOMAIN vdb.log.rows : disk[p] = before.disk[p]
    /\ \A p \in DOMAIN cmd.todo : cmd.todo[p].log /\ cmd.todo[p].saved = disk[p]

(* undo and redo while they run: each row not yet swapped is as it was.    *)
Swaps ==
    /\ cmd.then = "none" /\ TablesSwapped(committed, cmd.db)
    /\ committed.avail = IF cmd.name = "undo" THEN 1 ELSE 2
    /\ cmd.db.avail = IF cmd.name = "undo" THEN 2 ELSE 1
    /\ cmd.db.stash = IF cmd.name = "undo" THEN Joined(committed.stash, committed.log.stash)
                      ELSE Drop(committed.stash, DOMAIN committed.log.stash)
    /\ DOMAIN vdb.log.rows = DOMAIN committed.log.rows
    /\ \A p \in DOMAIN cmd.todo :
         /\ cmd.todo[p].log /\ cmd.todo[p].saved = before.disk[p]
         /\ cmd.todo[p].to = committed.log.rows[p].content
         /\ p \in DOMAIN vdb.log.rows /\ vdb.log.rows[p] = committed.log.rows[p]
    /\ \A p \in Path \ (DOMAIN vdb.log.rows \ DOMAIN cmd.todo) : disk[p] = before.disk[p]
    /\ \A p \in DOMAIN vdb.log.rows \ DOMAIN cmd.todo :
         /\ vdb.log.rows[p].redo = ~committed.log.rows[p].redo
         /\ vdb.log.rows[p].content = before.disk[p]
         /\ disk[p] = committed.log.rows[p].content

Marked == marks # <<>>
RestoreInv ==
    /\ FailureChangesNothing
    /\ cmd.name = "none" /\ Marked => Shape(vdb, disk, marks)
    /\ cmd.name \in SimpleNames =>
         Recording /\ (Marked => Shape(committed, before.disk, marks))
    /\ cmd.name \in {"undo", "redo"} /\ Marked =>
         Swaps /\ Shape(committed, before.disk, marks)


LEMMA SimpleFacts ==
    ASSUME {"goto", "merge2", "overwrite"} \subseteq Excused
    PROVE  /\ SimpleNames \subseteq Undoable /\ Undoable \ Excused \subseteq SimpleNames
           /\ "none" \notin SimpleNames /\ "save" \notin SimpleNames
           /\ "goto" \notin SimpleNames /\ "merge2" \notin SimpleNames
           /\ "none" \notin Undoable /\ "save" \notin Undoable /\ "user" \notin Undoable
           /\ SimpleNames \cap {"undo", "redo", "undofile", "checkout"} = {}
BY DEF SimpleNames, Undoable

LEMMA TreeIs ==
    ASSUME NEW t \in State, disk \in [Path -> Content], NEW d \in Database, CheckoutOf(t, d, disk)
    PROVE  Tree(d) = t
BY DEF Tree, State, CheckoutOf

(* A command begins; the database that is committed is the one it was.     *)
LEMMA BeginRestores ==
    ASSUME TypeInv, UndoAssumption, RestoreInv, {"goto", "merge2", "overwrite"} \subseteq Excused,
           BeginUndoable \/ BeginSwap \/ BeginSave \/ BeginCheckout
    PROVE  RestoreInv'
<1>1. /\ cmd.name = "none" /\ before' = Tree(vdb) /\ committed = vdb
      /\ UNCHANGED <<disk, committed, last, marks>> /\ cmd'.name # "none"
      /\ vdb' = vdb \/ vdb' = UndoBegin(vdb)
  <2>1. cmd'.name # "none"
    BY DEF BeginUndoable, BeginSwap, BeginSave, BeginCheckout, GoodStart, GoodSwap, GoodSave,
           GoodCheckout, Undoable
  <2> QED BY <2>1 DEF BeginUndoable, BeginSwap, BeginSave, BeginCheckout, Begins, TypeInv
<1>2. vdb \in Database /\ disk \in [Path -> Content] /\ Sound(vdb)
  BY DEF TypeInv, Sound
<1>3. CheckoutOf(before', committed', disk) /\ before'.disk = disk
  BY <1>1, <1>2, TreeFacts DEF CheckoutOf
<1>4. Marked' => Shape(committed', before'.disk, marks')
  BY <1>1, <1>3 DEF RestoreInv, Marked
<1>5. FailureChangesNothing'
  BY <1>1 DEF FailureChangesNothing
<1>6. ASSUME cmd'.name \in SimpleNames PROVE Recording'
  <2>1. Begins(UndoBegin(vdb)) /\ GoodStart(cmd')
    BY <1>6, SimpleFacts DEF BeginUndoable, BeginSwap, BeginSave, BeginCheckout, GoodSwap,
                             GoodSave, GoodCheckout
  <2>2. vdb' = UndoBegin(vdb) /\ DOMAIN vdb'.log.rows = {}
    BY <1>2, <2>1, BeginFacts DEF Begins
  <2>3. /\ cmd'.then = "none" /\ cmd'.db.avail = 1 /\ cmd'.db.log.vf = before'.vf
        /\ cmd'.db.log.mg = before'.mg /\ cmd'.db.log.co = before'.co
        /\ Parted(before'.stash, cmd'.db.log.stash, cmd'.db.stash)
        /\ \A p \in DOMAIN cmd'.todo : cmd'.todo[p].log /\ cmd'.todo[p].saved = disk'[p]
    BY <1>1, <1>3, <1>6, <2>1 DEF GoodStart, Taken, Parted, CheckoutOf
  <2>4. \A p \in DOMAIN vdb'.log.rows :
          ~vdb'.log.rows[p].redo /\ vdb'.log.rows[p].content = before'.disk[p]
    BY <2>2
  <2>5. \A p \in Path : disk'[p] = before'.disk[p]
    BY <1>1, <1>3
  <2>6. CheckoutOf(before', committed', before'.disk)
    BY <1>3
  <2> QED BY <2>3, <2>4, <2>5, <2>6 DEF Recording
<1>7. ASSUME cmd'.name \in {"undo", "redo"}, Marked' PROVE Swaps'
  <2>1. Begins(vdb) /\ GoodSwap(cmd')
    BY <1>7 DEF BeginUndoable, BeginSwap, BeginSave, BeginCheckout, GoodStart,
                GoodSave, GoodCheckout, Undoable
  <2>2. vdb' = vdb /\ committed' = vdb'
    BY <1>1, <2>1 DEF Begins
  <2>3. /\ cmd'.then = "none" /\ TablesSwapped(committed', cmd'.db)
        /\ committed'.avail = IF cmd'.name = "undo" THEN 1 ELSE 2
        /\ cmd'.db.avail = IF cmd'.name = "undo" THEN 2 ELSE 1
        /\ cmd'.db.stash = IF cmd'.name = "undo"
                           THEN Joined(committed'.stash, committed'.log.stash)
                           ELSE Drop(committed'.stash, DOMAIN committed'.log.stash)
    BY <1>7, <2>1, <2>2 DEF GoodSwap
  <2>4. \A p \in DOMAIN cmd'.todo :
          /\ cmd'.todo[p].log /\ cmd'.todo[p].saved = before'.disk[p]
          /\ cmd'.todo[p].to = committed'.log.rows[p].content
          /\ p \in DOMAIN vdb'.log.rows /\ vdb'.log.rows[p] = committed'.log.rows[p]
    BY <1>3, <2>1, <2>2 DEF GoodSwap
  <2>5. \A p \in Path : disk'[p] = before'.disk[p]
    BY <1>1, <1>3
  <2>6. DOMAIN vdb'.log.rows = DOMAIN cmd'.todo
    <3>1. Shape(vdb, disk, marks)
      BY <1>1, <1>7 DEF RestoreInv, Marked
    <3>2. \A p \in DOMAIN vdb.log.rows : vdb.log.rows[p].redo <=> vdb.avail = 2
      BY <3>1 DEF Shape, Logs
    <3>3. cmd'.name = "undo" => vdb.avail = 1
             /\ DOMAIN cmd'.todo = {p \in DOMAIN vdb.log.rows : ~vdb.log.rows[p].redo}
      BY <2>1 DEF GoodSwap
    <3>4. cmd'.name = "redo" => vdb.avail = 2
             /\ DOMAIN cmd'.todo = {p \in DOMAIN vdb.log.rows : vdb.log.rows[p].redo}
      BY <2>1 DEF GoodSwap
    <3>5. cmd'.name = "undo" \/ cmd'.name = "redo"
      BY <1>7
    <3>6. DOMAIN vdb.log.rows = DOMAIN cmd'.todo
      <4>1. CASE cmd'.name = "undo"
        <5>1. \A p \in DOMAIN vdb.log.rows : ~vdb.log.rows[p].redo
          BY <3>2, <3>3, <4>1
        <5> QED BY <3>3, <4>1, <5>1
      <4>2. CASE cmd'.name = "redo"
        <5>1. \A p \in DOMAIN vdb.log.rows : vdb.log.rows[p].redo
          BY <3>2, <3>4, <4>2
        <5> QED BY <3>4, <4>2, <5>1
      <4> QED BY <3>5, <4>1, <4>2
    <3> QED BY <2>2, <3>6
  <2> QED BY <2>2, <2>3, <2>4, <2>5, <2>6 DEF Swaps
<1> QED BY <1>1, <1>4, <1>5, <1>6, <1>7 DEF RestoreInv

LEMMA StepRecords ==
    ASSUME TypeInv, NEW f \in Path, Step(f), Recording, cmd.name \in Undoable
    PROVE  Recording'
<1>1. /\ cmd.name # "none" /\ f \in DOMAIN cmd.todo /\ disk'[f] = cmd.todo[f].to
      /\ \A q \in Path : q # f => disk'[q] = disk[q]
      /\ vdb'.log.rows = Logged(vdb.log.rows, f)
      /\ cmd'.db = cmd.db /\ cmd'.then = cmd.then
      /\ DOMAIN cmd'.todo = DOMAIN cmd.todo \ {f}
      /\ \A q \in DOMAIN cmd'.todo : cmd'.todo[q] = cmd.todo[q]
  BY StepForm
<1>2. UNCHANGED <<committed, before>>
  BY DEF Step
<1>3. ~Swapping
  BY DEF Swapping, Undoable
<1> DEFINE rows == vdb.log.rows
           new == vdb'.log.rows
<1>4. /\ \A q \in DOMAIN rows : q \in DOMAIN new /\ (q # f => new[q] = rows[q])
      /\ \A q \in DOMAIN new : q \in DOMAIN rows \/ q = f
      /\ f \notin DOMAIN rows =>
           f \in DOMAIN new /\ ~new[f].redo /\ new[f].content = cmd.todo[f].saved
      /\ f \in DOMAIN rows => new = rows
  BY <1>1, <1>3, LoggedFacts DEF Recording
<1>5. /\ \A p \in DOMAIN rows : ~rows[p].redo /\ rows[p].content = before.disk[p]
      /\ \A p \in Path \ DOMAIN rows : disk[p] = before.disk[p]
      /\ cmd.todo[f].saved = disk[f]
      /\ \A p \in DOMAIN cmd.todo : p \in Path /\ cmd.todo[p].log /\ cmd.todo[p].saved = disk[p]
  BY <1>1, CommandRuns DEF Recording
<1> HIDE DEF rows, new
<1>6. \A p \in DOMAIN new : ~new[p].redo /\ new[p].content = before.disk[p]
  <2>1. CASE f \in DOMAIN rows
    BY <1>4, <1>5, <2>1
  <2>2. CASE f \notin DOMAIN rows
    <3>1. ~new[f].redo /\ new[f].content = before.disk[f]
      BY <1>4, <1>5, <2>2
    <3> QED BY <1>4, <1>5, <2>2, <3>1
  <2> QED BY <2>1, <2>2
<1>7. \A p \in Path \ DOMAIN new : disk'[p] = before.disk[p]
  BY <1>1, <1>4, <1>5
<1>8. \A p \in DOMAIN cmd'.todo : cmd'.todo[p].log /\ cmd'.todo[p].saved = disk'[p]
  BY <1>1, <1>5
<1> QED BY <1>1, <1>2, <1>6, <1>7, <1>8 DEF Recording, new

LEMMA StepSwaps ==
    ASSUME TypeInv, NEW f \in Path, Step(f), Swaps, cmd.name \in {"undo", "redo"}
    PROVE  Swaps'
<1>1. /\ cmd.name # "none" /\ f \in DOMAIN cmd.todo /\ disk'[f] = cmd.todo[f].to
      /\ \A q \in Path : q # f => disk'[q] = disk[q]
      /\ vdb'.log.rows = Logged(vdb.log.rows, f)
      /\ cmd'.db = cmd.db /\ cmd'.then = cmd.then /\ cmd'.name = cmd.name
      /\ DOMAIN cmd'.todo = DOMAIN cmd.todo \ {f}
      /\ \A q \in DOMAIN cmd'.todo : cmd'.todo[q] = cmd.todo[q]
  BY StepForm
<1>2. UNCHANGED <<committed, before>>
  BY DEF Step
<1>3. Swapping
  BY DEF Swapping
<1> DEFINE rows == vdb.log.rows
           new == vdb'.log.rows
           old == committed.log.rows
           todo == cmd.todo
<1>4. /\ \A p \in DOMAIN todo :
           /\ todo[p].log /\ todo[p].saved = before.disk[p] /\ todo[p].to = old[p].content
           /\ p \in DOMAIN rows /\ rows[p] = old[p]
      /\ \A p \in Path \ (DOMAIN rows \ DOMAIN todo) : disk[p] = before.disk[p]
      /\ \A p \in DOMAIN rows \ DOMAIN todo :
           /\ rows[p].redo = ~old[p].redo /\ rows[p].content = before.disk[p]
           /\ disk[p] = old[p].content
      /\ DOMAIN rows = DOMAIN old
  BY DEF Swaps
<1>5. /\ \A q \in DOMAIN rows : q \in DOMAIN new /\ (q # f => new[q] = rows[q])
      /\ \A q \in DOMAIN new : q \in DOMAIN rows \/ q = f
      /\ f \in DOMAIN rows
      /\ new[f].redo = ~rows[f].redo /\ new[f].content = todo[f].saved
  BY <1>1, <1>3, <1>4, LoggedFacts
<1>6. \A p \in DOMAIN rows : p \in Path
  BY RowsFacts DEF TypeInv
<1> HIDE DEF rows, new, old, todo
<1>7. DOMAIN new = DOMAIN old
  BY <1>4, <1>5
<1>8. /\ new[f].redo = ~old[f].redo /\ new[f].content = before.disk[f]
      /\ disk'[f] = old[f].content
  BY <1>1, <1>4, <1>5 DEF todo
<1>9. \A p \in DOMAIN cmd'.todo :
        /\ cmd'.todo[p].log /\ cmd'.todo[p].saved = before.disk[p]
        /\ cmd'.todo[p].to = old[p].content
        /\ p \in DOMAIN new /\ new[p] = old[p]
  <2> SUFFICES ASSUME NEW p \in DOMAIN cmd'.todo
               PROVE  /\ cmd'.todo[p].log /\ cmd'.todo[p].saved = before.disk[p]
                      /\ cmd'.todo[p].to = old[p].content
                      /\ p \in DOMAIN new /\ new[p] = old[p]
    OBVIOUS
  <2>1. p \in DOMAIN todo /\ p # f /\ cmd'.todo[p] = todo[p]
    BY <1>1 DEF todo
  <2> QED BY <1>4, <1>5, <2>1
<1>10. \A p \in Path \ (DOMAIN new \ DOMAIN cmd'.todo) : disk'[p] = before.disk[p]
  <2> SUFFICES ASSUME NEW p \in Path, p \notin DOMAIN new \/ p \in DOMAIN cmd'.todo
               PROVE  disk'[p] = before.disk[p]
    OBVIOUS
  <2>1. p # f /\ (p \notin DOMAIN rows \/ p \in DOMAIN todo)
    BY <1>1, <1>5 DEF todo
  <2> QED BY <1>1, <1>4, <2>1
<1>11. \A p \in DOMAIN new \ DOMAIN cmd'.todo :
         /\ new[p].redo = ~old[p].redo /\ new[p].content = before.disk[p]
         /\ disk'[p] = old[p].content
  <2> SUFFICES ASSUME NEW p \in DOMAIN new \ DOMAIN cmd'.todo, p # f
               PROVE  /\ new[p].redo = ~old[p].redo /\ new[p].content = before.disk[p]
                      /\ disk'[p] = old[p].content
    BY <1>8
  <2>1. p \in DOMAIN rows \ DOMAIN todo /\ new[p] = rows[p] /\ disk'[p] = disk[p]
    BY <1>1, <1>5, <1>6 DEF todo
  <2> QED BY <1>4, <2>1
<1> QED BY <1>1, <1>2, <1>7, <1>9, <1>10, <1>11 DEF Swaps, new, old

LEMMA StepRestores ==
    ASSUME TypeInv, RestoreInv, {"goto", "merge2", "overwrite"} \subseteq Excused,
           NEW f \in Path, Step(f)
    PROVE  RestoreInv'
<1>1. cmd.name # "none" /\ cmd'.name = cmd.name
  BY StepForm
<1>2. UNCHANGED <<committed, before, marks, last>>
  BY DEF Step
<1>3. FailureChangesNothing'
  BY <1>1 DEF FailureChangesNothing
<1>4. cmd.name \in SimpleNames => Recording'
  BY SimpleFacts, StepRecords DEF RestoreInv
<1>5. cmd.name \in {"undo", "redo"} /\ Marked => Swaps'
  BY StepSwaps DEF RestoreInv
<1> QED BY <1>1, <1>2, <1>3, <1>4, <1>5 DEF RestoreInv, Marked

LEMMA PartedJoined ==
    ASSUME NEW s \in StashTable, NEW t \in StashTable, NEW r \in StashTable, Parted(s, t, r)
    PROVE  Joined(r, t) = s
<1>1. DOMAIN r = DOMAIN s \ DOMAIN t /\ \A i \in DOMAIN r : r[i] = s[i]
  <2> DEFINE K == DOMAIN t
  <2>1. r = Drop(s, K)
    BY DEF Parted
  <2> HIDE DEF K
  <2>2. DOMAIN Drop(s, K) = DOMAIN s \ K /\ \A i \in DOMAIN s \ K : Drop(s, K)[i] = s[i]
    BY StashDropped
  <2> QED BY <2>1, <2>2 DEF K
<1>2. DOMAIN t \subseteq DOMAIN s /\ \A i \in DOMAIN t : t[i] = s[i]
  BY DEF Parted
<1>3. /\ Joined(r, t) \in StashTable /\ DOMAIN Joined(r, t) = DOMAIN r \cup DOMAIN t
      /\ \A i \in DOMAIN r : Joined(r, t)[i] = r[i]
      /\ \A i \in DOMAIN t \ DOMAIN r : Joined(r, t)[i] = t[i]
  BY JoinedFacts
<1> DEFINE j == Joined(r, t)
<1>4. j \in StashTable /\ DOMAIN j = DOMAIN s
  BY <1>1, <1>2, <1>3
<1>5. \A i \in DOMAIN j : j[i] = s[i]
  BY <1>1, <1>2, <1>3
<1> HIDE DEF j
<1>6. j = s
  BY <1>4, <1>5, SameMap DEF StashTable
<1> QED BY <1>6 DEF j

(* An undoable command has ended: undo brings back what it began with.     *)
LEMMA RecordingEnds ==
    ASSUME TypeInv, cmd.name # "none", Recording, DOMAIN cmd.todo = {}
    PROVE  Shape(Result, disk, <<before, Tree(Result)>>)
<1>1. /\ Sound(Result) /\ Result.avail = 1
      /\ Result.stash = cmd.db.stash /\ Result.log.vf = cmd.db.log.vf
      /\ Result.log.mg = cmd.db.log.mg /\ Result.log.co = cmd.db.log.co
      /\ Result.log.stash = cmd.db.log.stash /\ Result.log.rows = vdb.log.rows
  BY CommandRuns, ResultFacts DEF Recording
<1>2. Result \in Database /\ disk \in [Path -> Content]
  BY <1>1 DEF Sound, TypeInv
<1> DEFINE now == Tree(Result)
           m == <<before, now>>
<1>3. CheckoutOf(now, Result, disk) /\ now.stash = Result.stash
  BY <1>2, TreeFacts DEF CheckoutOf
<1>4. Logs(Result, disk, before)
  BY <1>1 DEF Recording, Logs
<1>5. Parted(before.stash, Result.log.stash, now.stash)
  BY <1>1, <1>3 DEF Recording
<1> HIDE DEF now
<1>6. m[1] = before /\ m[2] = now
  OBVIOUS
<1> HIDE DEF m
<1>7. Shape(Result, disk, m)
  BY <1>1, <1>3, <1>4, <1>5, <1>6 DEF Shape
<1> QED BY <1>7 DEF m, now

(* undo and redo have ended: each brings back what the other began with.   *)
LEMMA SwapsEnd ==
    ASSUME TypeInv, cmd.name \in {"undo", "redo"}, Swaps, DOMAIN cmd.todo = {}, Marked,
           Shape(committed, before.disk, marks)
    PROVE  Shape(Result, disk, marks)
<1> DEFINE old == committed.log.rows
           rows == vdb.log.rows
           new == IF cmd.name = "undo" THEN marks[1] ELSE marks[2]
           was == IF cmd.name = "undo" THEN marks[2] ELSE marks[1]
<1>1. /\ Sound(Result) /\ Sound(committed) /\ Result.avail = cmd.db.avail /\ Result.log.rows = rows
      /\ Result.vf = cmd.db.vf /\ Result.mg = cmd.db.mg /\ Result.co = cmd.db.co
      /\ Result.stash = cmd.db.stash /\ Result.log.vf = cmd.db.log.vf
      /\ Result.log.mg = cmd.db.log.mg /\ Result.log.co = cmd.db.log.co
      /\ Result.log.stash = cmd.db.log.stash
  BY CommandRuns, ResultFacts DEF Swaps, TypeInv
<1>2. disk \in [Path -> Content] /\ marks[1] \in State /\ marks[2] \in State
  BY DEF TypeInv, Marked
<1>3. /\ marks[1].disk \in [Path -> Content] /\ marks[2].disk \in [Path -> Content]
      /\ marks[1].stash \in StashTable /\ marks[2].stash \in StashTable
  BY <1>2 DEF State
<1>4. /\ CheckoutOf(was, committed, before.disk) /\ Logs(committed, before.disk, new)
      /\ Parted(marks[1].stash, committed.log.stash, marks[2].stash)
  BY DEF Shape, Swaps
<1>5. /\ DOMAIN rows = DOMAIN old
      /\ \A p \in DOMAIN rows : /\ rows[p].redo = ~old[p].redo
                                /\ rows[p].content = before.disk[p] /\ disk[p] = old[p].content
      /\ \A p \in Path \ DOMAIN rows : disk[p] = before.disk[p]
  BY DEF Swaps
<1>6. \A p \in Path : disk[p] = new.disk[p]
  BY <1>4, <1>5 DEF Logs
<1>7. disk = new.disk
  BY <1>2, <1>3, <1>6
<1>8. Result.stash = new.stash
  <2>1. CASE cmd.name = "undo"
    <3>1. Result.stash = Joined(committed.stash, committed.log.stash)
      BY <1>1, <2>1 DEF Swaps
    <3>2. committed.stash = marks[2].stash
      BY <1>4, <2>1 DEF CheckoutOf
    <3>3. committed.log.stash \in StashTable
      BY <1>1 DEF Sound, Database, Log
    <3>4. Joined(marks[2].stash, committed.log.stash) = marks[1].stash
      BY <1>3, <1>4, <3>3, PartedJoined
    <3> QED BY <2>1, <3>1, <3>2, <3>4
  <2>2. CASE cmd.name = "redo"
    <3>1. Result.stash = Drop(committed.stash, DOMAIN committed.log.stash)
      BY <1>1, <2>2 DEF Swaps
    <3>2. committed.stash = marks[1].stash
      BY <1>4, <2>2 DEF CheckoutOf
    <3> QED BY <1>4, <2>2, <3>1, <3>2 DEF Parted
  <2> QED BY <2>1, <2>2
<1>9. CheckoutOf(new, Result, disk)
  BY <1>1, <1>4, <1>7, <1>8 DEF CheckoutOf, Logs, Swaps, TablesSwapped
<1>10. was.disk = before.disk
  BY <1>4 DEF CheckoutOf
<1>11. /\ \A p \in DOMAIN rows : (rows[p].redo <=> cmd.db.avail = 2)
                              /\ rows[p].content = was.disk[p]
       /\ \A p \in Path \ DOMAIN rows : disk[p] = was.disk[p]
  <2> SUFFICES ASSUME NEW p \in DOMAIN rows PROVE rows[p].redo <=> cmd.db.avail = 2
    BY <1>5, <1>10
  <2>1. old[p].redo <=> committed.avail = 2
    BY <1>4, <1>5 DEF Logs
  <2>2. committed.avail = 2 <=> cmd.db.avail # 2
    BY DEF Swaps
  <2>3. rows[p].redo = ~old[p].redo
    BY <1>5
  <2> HIDE DEF rows, old
  <2> QED BY <2>1, <2>2, <2>3
<1>12. Logs(Result, disk, was)
  BY <1>1, <1>4, <1>11 DEF Logs, Swaps, TablesSwapped, CheckoutOf
<1>13. Parted(marks[1].stash, Result.log.stash, marks[2].stash)
  BY <1>1, <1>4 DEF Swaps, TablesSwapped
<1>14. Result.avail = IF cmd.name = "undo" THEN 2 ELSE 1
  BY <1>1 DEF Swaps
<1> QED BY <1>9, <1>12, <1>13, <1>14 DEF Shape

LEMMA FinishRestores ==
    ASSUME TypeInv, RestoreInv, {"goto", "merge2", "overwrite"} \subseteq Excused, Finish
    PROVE  RestoreInv'
<1>1. /\ cmd.name # "none" /\ Running /\ cmd' = Idle /\ vdb' = Result /\ disk' = disk
      /\ DOMAIN cmd.todo = {} /\ cmd'.name = "none"
  BY FinishForm, IdleFacts DEF Finish, Finished
<1>2. last'.how = "done"
  BY DEF Finish
<1>3. FailureChangesNothing'
  BY <1>2 DEF FailureChangesNothing
<1>4. ASSUME Marked' PROVE Shape(vdb', disk', marks')
  <2>1. marks' = IF cmd.name \in Undoable \ Excused THEN <<before, Tree(Result)>>
                 ELSE IF cmd.name \in {"undo", "redo"} THEN marks ELSE <<>>
    BY DEF Finish
  <2>2. CASE cmd.name \in Undoable \ Excused
    <3>1. Recording
      BY <2>2, SimpleFacts DEF RestoreInv
    <3> QED BY <1>1, <2>1, <2>2, <3>1, RecordingEnds
  <2>3. CASE cmd.name \in {"undo", "redo"}
    <3>1. marks' = marks /\ Marked
      BY <1>4, <2>1, <2>3 DEF Marked, Undoable
    <3>2. Swaps /\ Shape(committed, before.disk, marks)
      BY <2>3, <3>1 DEF RestoreInv
    <3> QED BY <1>1, <2>3, <3>1, <3>2, SwapsEnd
  <2> QED BY <1>4, <2>1, <2>2, <2>3 DEF Marked
<1> QED BY <1>1, <1>3, <1>4, SimpleFacts DEF RestoreInv

(* A command that fails restores the files it has logged; one that is      *)
(* killed, or an undo that fails, leaves nothing to undo.                  *)
LEMMA EndRestores ==
    ASSUME TypeInv, UndoAssumption, RestoreInv,
           {"goto", "merge2", "overwrite"} \subseteq Excused, Skip \/ Fail \/ KillCommand
    PROVE  RestoreInv'
<1>1. /\ cmd.name # "none" /\ cmd'.name = "none" /\ vdb' = committed
      /\ UNCHANGED <<committed, before, backup>>
  BY EndTyped, IdleFacts
<1>2. /\ ~Fail => last'.how # "failed" /\ ~Marked'
      /\ Fail => last'.name = cmd.name
      /\ Fail => marks' = IF cmd.name \in Undoable \ Excused THEN marks ELSE <<>>
  BY DEF Skip, KillCommand, Fail, EndEarly, Marked
<1>3. ASSUME Fail, cmd.name \in Undoable \ Excused
      PROVE  disk' = before.disk /\ Tree(vdb)' = before'
             /\ (Marked' => Shape(vdb', disk', marks'))
  <2>1. Recording /\ (Marked => Shape(committed, before.disk, marks))
    BY <1>3, SimpleFacts DEF RestoreInv
  <2>2. NeedsRollback
    BY <1>3 DEF NeedsRollback, Swapping, Undoable
  <2>3. disk' = Restored
    BY <1>3, <2>2 DEF Fail
  <2>4. before \in State /\ before.disk \in [Path -> Content]
    BY DEF TypeInv, State
  <2>5. \A p \in Path : Restored[p] = before.disk[p]
    BY <2>1, RestoredFacts DEF Recording
  <2>6. disk' = before.disk
    BY <2>3, <2>4, <2>5, RestoredFacts
  <2>7. CheckoutOf(before, committed, disk')
    BY <2>1, <2>6 DEF Recording
  <2>8. Tree(vdb)' = before
    <3>1. Tree(vdb)' = [disk |-> disk', vf |-> committed.vf, mg |-> committed.mg,
                        co |-> committed.co, stash |-> committed.stash]
      BY <1>1 DEF Tree
    <3> QED BY <2>4, <2>7, <3>1 DEF CheckoutOf, State
  <2> QED BY <1>1, <1>2, <1>3, <2>1, <2>6, <2>8 DEF Marked
<1>4. FailureChangesNothing'
  <2>1. CASE Fail /\ cmd.name \in Undoable \ Excused
    BY <1>3, <2>1 DEF FailureChangesNothing
  <2>2. CASE ~(Fail /\ cmd.name \in Undoable \ Excused)
    BY <1>2, <2>2 DEF FailureChangesNothing
  <2> QED BY <2>1, <2>2
<1>5. Marked' => Shape(vdb', disk', marks')
  <2>1. CASE Fail /\ cmd.name \in Undoable \ Excused
    BY <1>3, <2>1
  <2>2. CASE ~(Fail /\ cmd.name \in Undoable \ Excused)
    BY <1>2, <2>2 DEF Marked
  <2> QED BY <2>1, <2>2
<1> QED BY <1>1, <1>4, <1>5, SimpleFacts DEF RestoreInv

LEMMA NextRestores ==
    ASSUME TypeInv, UndoAssumption, RestoreInv,
           {"goto", "merge2", "overwrite"} \subseteq Excused, [UndoNext]_undoVars
    PROVE  RestoreInv'
<1>1. CASE UndoNext
  <2>1. Kinds
    BY <1>1, NextKinds
  <2>2. CASE BeginUndoable \/ BeginSwap \/ BeginSave \/ BeginCheckout
    BY <2>2, BeginRestores
  <2>3. CASE \E p \in Path : Step(p)
    BY <2>3, StepRestores
  <2>4. CASE Finish
    BY <2>4, FinishRestores
  <2>5. CASE ThenApply \/ ThenRevert \/ ThenMerge
    <3>1. cmd'.name \in {"goto", "save", "merge2"}
      BY <2>5, ThenApplyForm, ThenRevertForm, ThenMergeForm
    <3> QED BY <3>1, SimpleFacts DEF RestoreInv, FailureChangesNothing
  <2>6. CASE Skip \/ Fail \/ KillCommand
    BY <2>6, EndRestores
  <2>7. CASE ByUserStep
    <3>1. cmd'.name = "none" /\ marks' = <<>> /\ last'.name = "user"
      BY <2>7, UserTyped
    <3> QED BY <3>1, SimpleFacts DEF RestoreInv, FailureChangesNothing, Marked
  <2> QED BY <2>1, <2>2, <2>3, <2>4, <2>5, <2>6, <2>7 DEF Kinds
<1>2. CASE UNCHANGED undoVars
  <2>1. UNCHANGED <<disk, vdb, committed, cmd, last, before, marks>>
    BY <1>2 DEF undoVars
  <2>2. UNCHANGED <<FailureChangesNothing, Marked, Recording, Swaps>>
    BY <2>1 DEF FailureChangesNothing, Marked, Recording, Swaps, Tree
  <2> QED BY <2>1, <2>2 DEF RestoreInv
<1> QED BY <1>1, <1>2

LEMMA InitRestores ==
    ASSUME UndoInit, {"goto", "merge2", "overwrite"} \subseteq Excused
    PROVE  RestoreInv
BY IdleFacts, SimpleFacts DEF UndoInit, RestoreInv, FailureChangesNothing, Marked

LEMMA ShapeRestores == ASSUME TypeInv, RestoreInv PROVE UndoRestores
<1>1. ASSUME cmd.name = "none", marks # <<>>
      PROVE  (vdb.avail = 1 => Tree(vdb) = marks[2]) /\ (vdb.avail = 2 => Tree(vdb) = marks[1])
  <2>1. /\ vdb.avail = 1 => CheckoutOf(marks[2], vdb, disk)
        /\ vdb.avail = 2 => CheckoutOf(marks[1], vdb, disk)
    BY <1>1 DEF RestoreInv, Shape, Marked
  <2>2. marks[1] \in State /\ marks[2] \in State /\ vdb \in Database /\ disk \in [Path -> Content]
    BY <1>1 DEF TypeInv, Sound
  <2> QED BY <2>1, <2>2, TreeIs
<1> QED BY <1>1, InvTyped DEF UndoRestores

(* "undo" brings back the files, tables, merges, check-in and stash as     *)
(* they were before the last undoable command, and "redo" as they were     *)
(* after it, whatever the command wrote, and through every failure.        *)
THEOREM UndoBringsBack ==
    ASSUME UndoAssumption, {"goto", "merge2", "overwrite"} \subseteq Excused
    PROVE  UndoSpec => []UndoRestores
<1>1. UndoInit => TypeInv /\ RestoreInv
  BY InitTyped, InitRestores
<1>2. TypeInv /\ RestoreInv /\ [UndoNext]_undoVars => (TypeInv /\ RestoreInv)'
  BY NextTyped, NextRestores
<1>3. TypeInv /\ RestoreInv => UndoRestores
  BY ShapeRestores
<1> QED BY <1>1, <1>2, <1>3, PTL DEF UndoSpec

(* An undoable command that fails half way has changed nothing: neither    *)
(* the files it had already written nor the check-out database.            *)
THEOREM FailureIsClean ==
    ASSUME UndoAssumption, {"goto", "merge2", "overwrite"} \subseteq Excused
    PROVE  UndoSpec => []FailureChangesNothing
<1>1. UndoInit => TypeInv /\ RestoreInv
  BY InitTyped, InitRestores
<1>2. TypeInv /\ RestoreInv /\ [UndoNext]_undoVars => (TypeInv /\ RestoreInv)'
  BY NextTyped, NextRestores
<1>3. RestoreInv => FailureChangesNothing
  BY DEF RestoreInv
<1> QED BY <1>1, <1>2, <1>3, PTL DEF UndoSpec

-----------------------------------------------------------------------------
(* Where the edits are.                                                    *)
RowEdits(rows, p) == IF p \in DOMAIN rows THEN rows[p].content.edits ELSE {}

SavedEdits == StashEdits(cmd.db.stash) \cup StashEdits(cmd.db.log.stash)

Changing ==
    /\ before.stash = committed.stash /\ StashEdits(before.stash) \subseteq SavedEdits
    /\ cmd.db.avail = 1 /\ (cmd.then # "none" => cmd.db.stash = before.stash)
    /\ \A p \in DOMAIN cmd.todo : Safe(cmd.todo[p], p)
    /\ \A p \in DOMAIN vdb.log.rows :
         ~vdb.log.rows[p].redo /\ before.disk[p].edits \subseteq vdb.log.rows[p].content.edits \cup backup
    /\ \A p \in Path \ DOMAIN vdb.log.rows : before.disk[p].edits \subseteq disk[p].edits \cup backup
    /\ cmd.then = "merge" =>
         /\ \A p \in Path : before.disk[p].edits \subseteq disk[p].edits \cup backup
         /\ \A p \in DOMAIN cmd.todo : Keeping(cmd.todo[p], p)

CheckingOut ==
    /\ cmd.then = "none" /\ before.stash = committed.stash /\ cmd.db.stash = before.stash
    /\ \A p \in Path : before.disk[p].edits \subseteq disk[p].edits
    /\ \A p \in DOMAIN cmd.todo : disk[p].edits = {}

Saving ==
    IF cmd.then # "none"
    THEN /\ cmd.then = "revert" /\ DOMAIN cmd.todo = {}
         /\ before.stash = committed.stash /\ before.disk = disk
         /\ StashEdits(before.stash) \subseteq StashEdits(cmd.db.stash)
         /\ \A p \in DOMAIN cmd.db.stash[cmd.db.next - 1].files :
              before.disk[p].edits \subseteq StashEdits(cmd.db.stash)
    ELSE /\ cmd.db.stash = committed.stash
         /\ StashEdits(before.stash) \subseteq StashEdits(committed.stash)
         /\ \A p \in Path : before.disk[p].edits \subseteq disk[p].edits \cup StashEdits(committed.stash)
         /\ \A p \in DOMAIN cmd.todo : before.disk[p].edits \subseteq StashEdits(committed.stash)

Exchanging ==
    /\ cmd.then = "none" /\ cmd.db.avail # 0 /\ StashEdits(before.stash) \subseteq SavedEdits
    /\ \A p \in Path : before.disk[p].edits \subseteq disk[p].edits \cup RowEdits(vdb.log.rows, p)
    /\ \A p \in DOMAIN cmd.todo : /\ p \in DOMAIN vdb.log.rows /\ cmd.todo[p].log
                                  /\ cmd.todo[p].saved = disk[p]
                                  /\ before.disk[p].edits \subseteq disk[p].edits

EditsInv ==
    /\ EditsSurvive
    /\ cmd.name \in Undoable /\ (cmd.name = "goto" => Hidden(before) = {}) => Changing
    /\ cmd.name = "checkout" => CheckingOut
    /\ cmd.name = "save" => Saving
    /\ Swapping => Exchanging

EntryEdits(x) == EditsOf([p \in DOMAIN x.files |-> x.files[p].content])

LEMMA EditsHas ==
    ASSUME NEW f, NEW p \in DOMAIN f
    PROVE  f[p].edits \subseteq EditsOf(f)
BY DEF EditsOf

LEMMA StashHas ==
    ASSUME NEW s, NEW i \in DOMAIN s, NEW p \in DOMAIN s[i].files
    PROVE  s[i].files[p].content.edits \subseteq StashEdits(s)
<1> DEFINE f == [q \in DOMAIN s[i].files |-> s[i].files[q].content]
<1>1. p \in DOMAIN f /\ f[p] = s[i].files[p].content
  OBVIOUS
<1>2. EditsOf(f) \subseteq StashEdits(s)
  BY DEF StashEdits
<1> HIDE DEF f
<1>3. f[p].edits \subseteq EditsOf(f)
  BY <1>1, EditsHas
<1> QED BY <1>1, <1>2, <1>3

LEMMA StashSplit ==
    ASSUME NEW s, NEW a, NEW b,
           \A i \in DOMAIN s : \/ i \in DOMAIN a /\ a[i] = s[i]
                               \/ i \in DOMAIN b /\ b[i] = s[i]
    PROVE  StashEdits(s) \subseteq StashEdits(a) \cup StashEdits(b)
<1>1. /\ StashEdits(s) = UNION {EntryEdits(s[i]) : i \in DOMAIN s}
      /\ StashEdits(a) = UNION {EntryEdits(a[i]) : i \in DOMAIN a}
      /\ StashEdits(b) = UNION {EntryEdits(b[i]) : i \in DOMAIN b}
  BY DEF StashEdits, EntryEdits
<1> QED BY <1>1

KeptIn(files, b, d) ==
    EditsOf(files) \cup b \cup StashEdits(d.stash) \cup StashEdits(d.log.stash)
      \cup EditsOf([p \in DOMAIN d.log.rows |-> d.log.rows[p].content])

LEMMA KeptFacts ==
    ASSUME NEW files \in [Path -> Content], NEW b, NEW d
    PROVE  /\ b \subseteq KeptIn(files, b, d)
           /\ \A p \in Path : files[p].edits \subseteq KeptIn(files, b, d)
           /\ StashEdits(d.stash) \subseteq KeptIn(files, b, d)
           /\ StashEdits(d.log.stash) \subseteq KeptIn(files, b, d)
           /\ \A p \in DOMAIN d.log.rows :
                d.log.rows[p].content.edits \subseteq KeptIn(files, b, d)
<1> DEFINE f == [p \in DOMAIN d.log.rows |-> d.log.rows[p].content]
<1>1. DOMAIN files = Path /\ DOMAIN f = DOMAIN d.log.rows
      /\ \A p \in DOMAIN f : f[p] = d.log.rows[p].content
  OBVIOUS
<1>2. KeptIn(files, b, d) = EditsOf(files) \cup b \cup StashEdits(d.stash)
                              \cup StashEdits(d.log.stash) \cup EditsOf(f)
  BY DEF KeptIn
<1> HIDE DEF f
<1>3. /\ \A p \in Path : files[p].edits \subseteq EditsOf(files)
      /\ \A p \in DOMAIN f : f[p].edits \subseteq EditsOf(f)
  BY <1>1, EditsHas
<1> QED BY <1>1, <1>2, <1>3

LEMMA SurviveIf ==
    ASSUME TypeInv',
           \A p \in Path : before'.disk[p].edits \subseteq KeptIn(disk', backup', vdb'),
           StashEdits(before'.stash) \subseteq KeptIn(disk', backup', vdb')
    PROVE  EditsSurvive'
<1>1. Kept' = KeptIn(disk', backup', vdb')
  BY DEF Kept, KeptIn
<1>2. DOMAIN before'.disk = Path
  BY DEF TypeInv, State
<1>3. EditsOf(before'.disk) \subseteq KeptIn(disk', backup', vdb')
  BY <1>2 DEF EditsOf
<1> QED BY <1>1, <1>3 DEF EditsSurvive

LEMMA NameFacts ==
    /\ "none" \notin Undoable /\ "save" \notin Undoable /\ "checkout" \notin Undoable
    /\ "undo" \notin Undoable /\ "redo" \notin Undoable /\ "undofile" \notin Undoable
    /\ "goto" \in Undoable /\ "merge2" \in Undoable
BY DEF Undoable

(* A command begins.                                                       *)
LEMMA BeginChanging ==
    ASSUME TypeInv, UndoAssumption, BeginUndoable,
           cmd'.name = "goto" => Hidden(before') = {}
    PROVE  Changing'
<1>1. /\ Begins(UndoBegin(vdb)) /\ GoodStart(cmd') /\ before' = Tree(vdb)
      /\ committed' = committed /\ committed = vdb /\ vdb' = UndoBegin(vdb) /\ disk' = disk
  BY DEF BeginUndoable, Begins, TypeInv
<1>2. vdb \in Database /\ disk \in [Path -> Content]
  BY DEF TypeInv, Sound
<1>3. before'.disk = disk /\ before'.stash = vdb.stash
  BY <1>1, <1>2, TreeFacts
<1>4. DOMAIN vdb'.log.rows = {}
  BY <1>1, <1>2, BeginFacts
<1>5. StashEdits(before'.stash) \subseteq SavedEdits'
  <2> DEFINE s == vdb.stash
             r == cmd'.db.stash
             t == cmd'.db.log.stash
  <2>1. s \in StashTable /\ Taken(cmd'.db, s)
    BY <1>1, <1>2 DEF GoodStart, Database
  <2>2. /\ DOMAIN t \subseteq DOMAIN s /\ r = Drop(s, DOMAIN t)
        /\ \A i \in DOMAIN t : t[i] = s[i]
    BY <2>1 DEF Taken
  <2> HIDE DEF s, r, t
  <2> DEFINE K == DOMAIN t
  <2>3. DOMAIN Drop(s, K) = DOMAIN s \ K /\ \A i \in DOMAIN s \ K : Drop(s, K)[i] = s[i]
    <3> HIDE DEF K
    <3> QED BY <2>1, StashDropped
  <2>4. \A i \in DOMAIN s : (i \in DOMAIN r /\ r[i] = s[i]) \/ (i \in DOMAIN t /\ t[i] = s[i])
    BY <2>2, <2>3
  <2>5. StashEdits(s) \subseteq StashEdits(r) \cup StashEdits(t)
    BY <2>4, StashSplit
  <2> QED BY <1>3, <2>5 DEF s, r, t, SavedEdits
<1>6. \A p \in DOMAIN cmd'.todo : Safe(cmd'.todo[p], p)
  BY <1>1 DEF GoodStart
<1>7. \A p \in DOMAIN cmd'.todo : Safe(cmd.todo[p], p)'
  BY <1>1, <1>6 DEF Safe
<1>8. \A p \in Path : before'.disk[p].edits \subseteq disk'[p].edits
  BY <1>1, <1>3
<1>9. cmd'.then = "merge" => \A p \in DOMAIN cmd'.todo : Keeping(cmd.todo[p], p)'
  BY <1>1 DEF GoodStart, Keeping
<1>10. cmd'.db.avail = 1 /\ (cmd'.then # "none" => cmd'.db.stash = before'.stash)
       /\ before'.stash = committed'.stash
  BY <1>1, <1>3 DEF GoodStart
<1> QED BY <1>4, <1>5, <1>7, <1>8, <1>9, <1>10 DEF Changing

LEMMA BeginExchanging ==
    ASSUME TypeInv, UndoAssumption, BeginSwap
    PROVE  Exchanging'
<1>1. Begins(vdb) /\ GoodSwap(cmd') /\ before' = Tree(vdb) /\ vdb' = vdb /\ disk' = disk
  BY DEF BeginSwap, Begins
<1>2. vdb \in Database /\ disk \in [Path -> Content] /\ Sound(vdb)
  BY DEF TypeInv, Sound
<1>3. before'.disk = disk /\ before'.stash = vdb.stash
  BY <1>1, <1>2, TreeFacts
<1>4. cmd'.then = "none" /\ cmd'.db.avail # 0 /\ cmd'.name \in {"undo", "redo", "undofile"}
  BY <1>1 DEF GoodSwap
<1> DEFINE s == vdb.stash
           r == cmd'.db.stash
           t == cmd'.db.log.stash
<1>5. \A i \in DOMAIN s : (i \in DOMAIN r /\ r[i] = s[i]) \/ (i \in DOMAIN t /\ t[i] = s[i])
  <2>1. CASE cmd'.name = "undo"
    <3>1. r = Joined(s, vdb.log.stash)
      BY <1>1, <2>1 DEF GoodSwap
    <3> QED BY <3>1 DEF Joined
  <2>2. CASE cmd'.name = "redo"
    <3>1. r = Drop(s, DOMAIN t) /\ t = vdb.log.stash
      BY <1>1, <2>2 DEF GoodSwap, TablesSwapped
    <3>2. \A i \in DOMAIN s \cap DOMAIN t : t[i] = s[i]
      BY <1>2, <3>1 DEF Sound
    <3> QED BY <3>1, <3>2 DEF Drop
  <2>3. CASE cmd'.name = "undofile"
    BY <1>1, <2>3 DEF GoodSwap
  <2> QED BY <1>4, <2>1, <2>2, <2>3
<1> HIDE DEF s, r, t
<1>6. StashEdits(s) \subseteq StashEdits(r) \cup StashEdits(t)
  BY <1>5, StashSplit
<1>7. StashEdits(before'.stash) \subseteq SavedEdits'
  BY <1>3, <1>6 DEF s, r, t, SavedEdits
<1>8. \A p \in Path : before'.disk[p].edits \subseteq disk'[p].edits
  BY <1>1, <1>3
<1>9. \A p \in DOMAIN cmd'.todo : /\ p \in DOMAIN vdb'.log.rows /\ cmd'.todo[p].log
                                  /\ cmd'.todo[p].saved = disk'[p]
  BY <1>1 DEF GoodSwap
<1>10. \A p \in DOMAIN vdb.log.rows : p \in Path
  BY <1>2, RowsFacts
<1> QED BY <1>1, <1>4, <1>7, <1>8, <1>9, <1>10 DEF Exchanging

LEMMA BeginSaving ==
    ASSUME TypeInv, UndoAssumption, ~StashRemoved, BeginSave
    PROVE  Saving'
<1>1. /\ Begins(vdb) /\ GoodSave(cmd') /\ before' = Tree(vdb) /\ vdb' = vdb /\ disk' = disk
      /\ committed' = committed /\ committed = vdb
  BY DEF BeginSave, Begins, TypeInv
<1>2. vdb \in Database /\ disk \in [Path -> Content]
  BY DEF TypeInv, Sound
<1>3. before'.disk = disk /\ before'.stash = vdb.stash
  BY <1>1, <1>2, TreeFacts
<1> DEFINE s == vdb.stash
           r == cmd'.db.stash
           id == vdb.next
<1>4. /\ DOMAIN r = DOMAIN s \cup {id} /\ cmd'.db.next = id + 1
      /\ \A i \in DOMAIN s : r[i] = s[i]
      /\ \A p \in DOMAIN r[id].files : disk[p].edits \subseteq r[id].files[p].content.edits
  BY <1>1 DEF GoodSave
<1> HIDE DEF s, r
<1>5. \A i \in DOMAIN s : i \in DOMAIN r /\ r[i] = s[i]
  BY <1>4
<1>6. StashEdits(s) \subseteq StashEdits(r)
  <2>1. StashEdits(s) \subseteq StashEdits(r) \cup StashEdits(r)
    BY <1>5, StashSplit
  <2> QED BY <2>1
<1>7. \A p \in DOMAIN r[id].files : disk[p].edits \subseteq StashEdits(r)
  <2> HIDE DEF id
  <2>1. id \in DOMAIN r
    BY <1>4
  <2> QED BY <1>4, <2>1, StashHas
<1>8. cmd'.db.next - 1 = id
  BY <1>2, <1>4 DEF Database, UndoAssumption
<1> QED BY <1>1, <1>3, <1>6, <1>7, <1>8 DEF GoodSave, Saving, s, r

LEMMA BeginEdits ==
    ASSUME TypeInv, UndoAssumption, ~StashRemoved,
           BeginUndoable \/ BeginSwap \/ BeginSave \/ BeginCheckout
    PROVE  EditsInv'
<1>1. CASE BeginUndoable
  <2>1. cmd'.name \in Undoable
    BY <1>1 DEF BeginUndoable, GoodStart
  <2> QED BY <1>1, <2>1, BeginChanging, NameFacts DEF EditsInv, EditsSurvive, Swapping
<1>2. CASE BeginSwap
  <2>1. cmd'.name \in {"undo", "redo", "undofile"}
    BY <1>2 DEF BeginSwap, GoodSwap
  <2> QED BY <1>2, <2>1, BeginExchanging, NameFacts DEF EditsInv, EditsSurvive
<1>3. CASE BeginSave
  <2>1. cmd'.name = "save"
    BY <1>3 DEF BeginSave, GoodSave
  <2> QED BY <1>3, <2>1, BeginSaving, NameFacts DEF EditsInv, EditsSurvive, Swapping
<1>4. CASE BeginCheckout
  <2>1. /\ cmd'.name = "checkout" /\ cmd'.then = "none" /\ cmd'.db.stash = vdb.stash
        /\ \A p \in DOMAIN cmd'.todo : disk[p].edits = {}
    BY <1>4 DEF BeginCheckout, GoodCheckout
  <2>2. before' = Tree(vdb) /\ disk' = disk /\ committed' = committed /\ committed = vdb
    BY <1>4 DEF BeginCheckout, Begins, TypeInv
  <2>3. before'.disk = disk /\ before'.stash = vdb.stash
    BY <2>2, TreeFacts DEF TypeInv, Sound
  <2>4. CheckingOut'
    BY <2>1, <2>2, <2>3 DEF CheckingOut
  <2> QED BY <2>1, <2>4, NameFacts DEF EditsInv, EditsSurvive, Swapping
<1> QED BY <1>1, <1>2, <1>3, <1>4

(* One file is written.                                                    *)
LEMMA CopyFacts ==
    ASSUME TypeInv, NEW f \in Path, Step(f)
    PROVE  /\ cmd.name # "none" /\ f \in DOMAIN cmd.todo /\ disk'[f] = cmd.todo[f].to
           /\ \A q \in Path : q # f => disk'[q] = disk[q]
           /\ vdb'.log.rows = Logged(vdb.log.rows, f)
           /\ UNCHANGED <<committed, before, last>> /\ TypeInv'
           /\ cmd'.name = cmd.name /\ cmd'.db = cmd.db /\ cmd'.then = cmd.then
           /\ DOMAIN cmd'.todo = DOMAIN cmd.todo \ {f}
           /\ \A q \in DOMAIN cmd'.todo : /\ cmd'.todo[q] = cmd.todo[q] /\ q # f /\ q \in Path
                                          /\ disk'[q] = disk[q] /\ q \in DOMAIN cmd.todo
           /\ backup \subseteq backup' /\ (cmd.todo[f].copy => disk[f].edits \subseteq backup')
<1>1. /\ cmd.name # "none" /\ f \in DOMAIN cmd.todo /\ disk'[f] = cmd.todo[f].to
      /\ \A q \in Path : q # f => disk'[q] = disk[q]
      /\ vdb'.log.rows = Logged(vdb.log.rows, f) /\ TypeInv'
      /\ cmd'.name = cmd.name /\ cmd'.db = cmd.db /\ cmd'.then = cmd.then
      /\ DOMAIN cmd'.todo = DOMAIN cmd.todo \ {f}
      /\ \A q \in DOMAIN cmd'.todo : cmd'.todo[q] = cmd.todo[q]
  BY StepForm
<1>2. \A q \in DOMAIN cmd.todo : q \in Path
  BY <1>1, CommandRuns
<1>3. /\ UNCHANGED <<committed, before, last>>
      /\ backup' = IF cmd.todo[f].copy THEN backup \cup disk[f].edits ELSE backup
  BY DEF Step
<1> QED BY <1>1, <1>2, <1>3

LEMMA StepChanging ==
    ASSUME TypeInv, NEW f \in Path, Step(f), Changing, cmd.name \in Undoable
    PROVE  Changing'
<1> DEFINE rows == vdb.log.rows
           new == vdb'.log.rows
           w == cmd.todo[f]
<1>1. /\ cmd.name # "none" /\ f \in DOMAIN cmd.todo /\ disk'[f] = w.to
      /\ \A q \in Path : q # f => disk'[q] = disk[q]
      /\ new = Logged(rows, f) /\ UNCHANGED <<committed, before>>
      /\ cmd'.db = cmd.db /\ cmd'.then = cmd.then
      /\ \A q \in DOMAIN cmd'.todo : /\ cmd'.todo[q] = cmd.todo[q]
                                     /\ disk'[q] = disk[q] /\ q \in DOMAIN cmd.todo
      /\ backup \subseteq backup' /\ (w.copy => disk[f].edits \subseteq backup')
  BY CopyFacts
<1>2. ~Swapping
  BY DEF Swapping, Undoable
<1>3. /\ \A q \in DOMAIN rows : q \in DOMAIN new /\ (q # f => new[q] = rows[q])
      /\ \A q \in DOMAIN new : q \in DOMAIN rows \/ q = f
      /\ ~w.log => new = rows
      /\ w.log /\ f \notin DOMAIN rows =>
           f \in DOMAIN new /\ ~new[f].redo /\ new[f].content = w.saved
      /\ w.log /\ f \in DOMAIN rows => new = rows
  BY <1>1, <1>2, LoggedFacts
<1>4. w.log \in BOOLEAN /\ w.copy \in BOOLEAN
  BY <1>1, CommandRuns DEF WriteOf
<1>5. /\ \A p \in DOMAIN rows : /\ ~rows[p].redo
                                /\ before.disk[p].edits \subseteq rows[p].content.edits \cup backup
      /\ \A p \in Path \ DOMAIN rows : before.disk[p].edits \subseteq disk[p].edits \cup backup
      /\ \A p \in DOMAIN cmd.todo : Safe(cmd.todo[p], p)
  BY DEF Changing
<1>6. w.copy \/ (IF w.log THEN w.saved = disk[f] ELSE disk[f].edits \subseteq w.to.edits)
  BY <1>1, <1>5 DEF Safe
<1> HIDE DEF rows, new
<1>7. ASSUME f \notin DOMAIN rows
      PROVE  /\ f \in DOMAIN new => /\ ~new[f].redo
                                    /\ before.disk[f].edits \subseteq new[f].content.edits \cup backup'
             /\ f \notin DOMAIN new => before.disk[f].edits \subseteq disk'[f].edits \cup backup'
  <2>0. before.disk[f].edits \subseteq disk[f].edits \cup backup
    BY <1>5, <1>7
  <2> HIDE DEF w
  <2>1. CASE w.copy
    <3>1. before.disk[f].edits \subseteq backup'
      BY <1>1, <2>0, <2>1
    <3> QED BY <1>3, <1>4, <1>7, <3>1
  <2>2. CASE ~w.copy
    <3>1. CASE w.log
      BY <1>1, <1>3, <1>6, <1>7, <2>0, <2>2, <3>1
    <3>2. CASE ~w.log
      <4>1. f \notin DOMAIN new
        BY <1>3, <1>7, <3>2
      <4>2. disk[f].edits \subseteq disk'[f].edits
        BY <1>1, <1>6, <2>2, <3>2 DEF w
      <4> QED BY <1>1, <2>0, <4>1, <4>2
    <3> QED BY <1>4, <3>1, <3>2
  <2> QED BY <1>4, <2>1, <2>2
<1>8. f \in DOMAIN rows => new = rows
  BY <1>3, <1>4
<1>9. \A p \in DOMAIN new : /\ ~new[p].redo
                            /\ before.disk[p].edits \subseteq new[p].content.edits \cup backup'
  BY <1>1, <1>3, <1>5, <1>7, <1>8
<1>10. \A p \in Path \ DOMAIN new : before.disk[p].edits \subseteq disk'[p].edits \cup backup'
  <2> SUFFICES ASSUME NEW p \in Path \ DOMAIN new
               PROVE  before.disk[p].edits \subseteq disk'[p].edits \cup backup'
    OBVIOUS
  <2>1. p \notin DOMAIN rows
    BY <1>3
  <2>2. before.disk[p].edits \subseteq disk[p].edits \cup backup
    BY <1>5, <2>1
  <2>3. CASE p = f
    BY <1>7, <2>1, <2>3
  <2>4. CASE p # f
    BY <1>1, <2>2, <2>4
  <2> QED BY <2>3, <2>4
<1>11. \A p \in DOMAIN cmd'.todo : Safe(cmd.todo[p], p)'
  BY <1>1, <1>5 DEF Safe
<1>12. ASSUME cmd'.then = "merge"
       PROVE  /\ \A p \in Path : before.disk[p].edits \subseteq disk'[p].edits \cup backup'
              /\ \A p \in DOMAIN cmd'.todo : Keeping(cmd.todo[p], p)'
  <2>1. /\ \A p \in Path : before.disk[p].edits \subseteq disk[p].edits \cup backup
        /\ \A p \in DOMAIN cmd.todo : Keeping(cmd.todo[p], p)
    BY <1>1, <1>12 DEF Changing
  <2>2. before.disk[f].edits \subseteq disk'[f].edits \cup backup'
    <3>1. w.copy \/ disk[f].edits \subseteq w.to.edits
      BY <1>1, <2>1 DEF Keeping
    <3> HIDE DEF w
    <3>2. before.disk[f].edits \subseteq disk[f].edits \cup backup
      BY <2>1
    <3>3. disk[f].edits \subseteq disk'[f].edits \cup backup'
      BY <1>1, <3>1
    <3> QED BY <1>1, <3>2, <3>3
  <2>3. \A p \in Path : before.disk[p].edits \subseteq disk'[p].edits \cup backup'
    <3> SUFFICES ASSUME NEW p \in Path, p # f
                 PROVE  before.disk[p].edits \subseteq disk'[p].edits \cup backup'
      BY <2>2
    <3>1. before.disk[p].edits \subseteq disk[p].edits \cup backup /\ disk'[p] = disk[p]
      BY <1>1, <2>1
    <3> QED BY <1>1, <3>1
  <2>4. \A p \in DOMAIN cmd'.todo : Keeping(cmd.todo[p], p)'
    BY <1>1, <2>1 DEF Keeping
  <2> QED BY <2>3, <2>4
<1>13. SavedEdits' = SavedEdits
  BY <1>1 DEF SavedEdits
<1> QED BY <1>1, <1>9, <1>10, <1>11, <1>12, <1>13 DEF Changing, new

LEMMA StepExchanging ==
    ASSUME TypeInv, NEW f \in Path, Step(f), Exchanging, Swapping
    PROVE  Exchanging'
<1> DEFINE rows == vdb.log.rows
           new == vdb'.log.rows
           w == cmd.todo[f]
<1>1. /\ cmd.name # "none" /\ f \in DOMAIN cmd.todo /\ disk'[f] = w.to
      /\ \A q \in Path : q # f => disk'[q] = disk[q]
      /\ new = Logged(rows, f) /\ UNCHANGED <<committed, before>>
      /\ cmd'.db = cmd.db /\ cmd'.then = cmd.then
      /\ \A q \in DOMAIN cmd'.todo : /\ cmd'.todo[q] = cmd.todo[q] /\ q # f /\ q \in Path
                                     /\ disk'[q] = disk[q] /\ q \in DOMAIN cmd.todo
  BY CopyFacts
<1>2. /\ \A p \in Path : before.disk[p].edits \subseteq disk[p].edits \cup RowEdits(rows, p)
      /\ \A p \in DOMAIN cmd.todo : /\ p \in DOMAIN rows /\ cmd.todo[p].log
                                    /\ cmd.todo[p].saved = disk[p]
                                    /\ before.disk[p].edits \subseteq disk[p].edits
  BY DEF Exchanging
<1>3. /\ \A q \in DOMAIN rows : q \in DOMAIN new /\ (q # f => new[q] = rows[q])
      /\ \A q \in DOMAIN new : q \in DOMAIN rows \/ q = f
      /\ f \in DOMAIN new /\ new[f].content = w.saved
  BY <1>1, <1>2, LoggedFacts
<1> HIDE DEF rows, new
<1>4. \A p \in Path : before.disk[p].edits \subseteq disk'[p].edits \cup RowEdits(new, p)
  <2> SUFFICES ASSUME NEW p \in Path
               PROVE  before.disk[p].edits \subseteq disk'[p].edits \cup RowEdits(new, p)
    OBVIOUS
  <2>1. CASE p = f
    <3>1. RowEdits(new, f) = disk[f].edits
      BY <1>1, <1>2, <1>3 DEF RowEdits
    <3> QED BY <1>1, <1>2, <2>1, <3>1
  <2>2. CASE p # f
    <3>1. RowEdits(new, p) = RowEdits(rows, p) /\ disk'[p] = disk[p]
      BY <1>1, <1>3, <2>2 DEF RowEdits
    <3> QED BY <1>2, <3>1
  <2> QED BY <2>1, <2>2
<1>5. \A p \in DOMAIN cmd'.todo : /\ p \in DOMAIN new /\ cmd'.todo[p].log
                                  /\ cmd'.todo[p].saved = disk'[p]
                                  /\ before.disk[p].edits \subseteq disk'[p].edits
  BY <1>1, <1>2, <1>3
<1>6. SavedEdits' = SavedEdits
  BY <1>1 DEF SavedEdits
<1> QED BY <1>1, <1>4, <1>5, <1>6 DEF Exchanging, new

LEMMA StepEdits ==
    ASSUME TypeInv, EditsInv, NEW f \in Path, Step(f)
    PROVE  EditsInv'
<1>1. /\ cmd.name # "none" /\ f \in DOMAIN cmd.todo
      /\ \A q \in Path : q # f => disk'[q] = disk[q]
      /\ UNCHANGED <<committed, before>>
      /\ cmd'.name = cmd.name /\ cmd'.db = cmd.db /\ cmd'.then = cmd.then
      /\ DOMAIN cmd'.todo = DOMAIN cmd.todo \ {f}
      /\ \A q \in DOMAIN cmd'.todo : /\ cmd'.todo[q] = cmd.todo[q] /\ q # f /\ q \in Path
                                     /\ disk'[q] = disk[q] /\ q \in DOMAIN cmd.todo
  BY CopyFacts
<1>2. EditsSurvive'
  BY <1>1 DEF EditsSurvive
<1>3. ASSUME cmd.name \in Undoable, cmd.name = "goto" => Hidden(before) = {}
      PROVE  Changing'
  BY <1>3, StepChanging DEF EditsInv
<1>4. ASSUME cmd.name = "checkout" PROVE CheckingOut'
  <2>1. CheckingOut
    BY <1>4 DEF EditsInv
  <2>2. disk[f].edits = {} /\ before.disk[f].edits = {}
    BY <1>1, <2>1 DEF CheckingOut
  <2>3. \A p \in Path : before.disk[p].edits \subseteq disk'[p].edits
    BY <1>1, <2>1, <2>2 DEF CheckingOut
  <2> QED BY <1>1, <2>1, <2>3 DEF CheckingOut
<1>5. ASSUME cmd.name = "save" PROVE Saving'
  <2>1. Saving
    BY <1>5 DEF EditsInv
  <2>2. cmd.then = "none"
    BY <1>1, <2>1 DEF Saving
  <2>3. \A p \in Path : before.disk[p].edits \subseteq disk'[p].edits \cup StashEdits(committed.stash)
    BY <1>1, <2>1, <2>2 DEF Saving
  <2> QED BY <1>1, <2>1, <2>2, <2>3 DEF Saving
<1>6. Swapping => Exchanging'
  BY StepExchanging DEF EditsInv
<1>7. Swapping' = Swapping /\ Hidden(before)' = Hidden(before)
  BY <1>1 DEF Swapping, Hidden
<1> QED BY <1>1, <1>2, <1>3, <1>4, <1>5, <1>6, <1>7 DEF EditsInv

(* The second part of a command begins.                                    *)
LEMMA ThenApplyEdits ==
    ASSUME TypeInv, UndoAssumption, ThenApply, Changing
    PROVE  Changing'
<1>1. /\ cmd.then = "apply" /\ cmd'.then = "none" /\ vdb' = Result /\ Running /\ Sound(vdb)
      /\ Planned(Applied(Result, cmd.arg), Result) /\ cmd'.db = Applied(Result, cmd.arg).db
      /\ \A p \in DOMAIN cmd'.todo : cmd'.todo[p].log /\ cmd'.todo[p].saved = disk[p]
  BY ThenApplyForm
<1>2. UNCHANGED <<disk, backup, before, committed>>
  BY DEF ThenApply, Unfinished
<1>3. /\ Result.stash = cmd.db.stash /\ Result.avail = cmd.db.avail
      /\ Result.log.rows = IF cmd.db.avail = 0 THEN cmd.db.log.rows ELSE vdb.log.rows
  BY <1>1, ResultFacts
<1>4. cmd'.db.stash = before.stash /\ cmd'.db.avail = 1 /\ vdb'.log.rows = vdb.log.rows
  BY <1>1, <1>3 DEF Changing, Planned
<1>5. StashEdits(before'.stash) \subseteq SavedEdits'
  BY <1>2, <1>4 DEF SavedEdits
<1>6. \A p \in DOMAIN cmd'.todo : Safe(cmd.todo[p], p)'
  BY <1>1, <1>2 DEF Safe
<1> QED BY <1>1, <1>2, <1>4, <1>5, <1>6 DEF Changing

LEMMA ThenMergeEdits ==
    ASSUME TypeInv, UndoAssumption, ThenMerge, Changing
    PROVE  Changing'
<1>1. /\ cmd.then = "merge" /\ cmd'.then = "none" /\ vdb' = UndoBegin(Result) /\ Running
      /\ Sound(vdb) /\ cmd'.db.stash = Result.stash /\ cmd'.db.avail = 1 /\ Result \in Database
      /\ \A p \in DOMAIN cmd'.todo : cmd'.todo[p].log /\ cmd'.todo[p].saved = disk[p]
  BY ThenMergeForm
<1>2. UNCHANGED <<disk, backup, before, committed>>
  BY DEF ThenMerge, Unfinished
<1>3. Result.stash = cmd.db.stash
  BY <1>1, ResultFacts
<1>4. cmd'.db.stash = before.stash
  BY <1>1, <1>3 DEF Changing
<1>5. DOMAIN vdb'.log.rows = {}
  BY <1>1, BeginFacts
<1>6. StashEdits(before'.stash) \subseteq SavedEdits'
  BY <1>2, <1>4 DEF SavedEdits
<1>7. \A p \in DOMAIN cmd'.todo : Safe(cmd.todo[p], p)'
  BY <1>1, <1>2 DEF Safe
<1>8. \A p \in Path : before'.disk[p].edits \subseteq disk'[p].edits \cup backup'
  BY <1>1, <1>2 DEF Changing
<1> QED BY <1>1, <1>2, <1>4, <1>5, <1>6, <1>7, <1>8 DEF Changing

LEMMA ThenRevertEdits ==
    ASSUME TypeInv, UndoAssumption, ThenRevert, Saving
    PROVE  Saving'
<1>1. /\ cmd.then = "revert" /\ cmd'.then = "none" /\ committed' = Result
      /\ cmd'.db.stash = Result.stash /\ Result.stash = cmd.db.stash
      /\ \A p \in DOMAIN cmd'.todo : p \in DOMAIN cmd.db.stash[cmd.db.next - 1].files
  BY ThenRevertForm
<1>2. UNCHANGED <<disk, backup, before>>
  BY DEF ThenRevert, Unfinished
<1> QED BY <1>1, <1>2 DEF Saving

LEMMA ThenEdits ==
    ASSUME TypeInv, UndoAssumption, EditsInv, ThenApply \/ ThenRevert \/ ThenMerge
    PROVE  EditsInv'
<1>1. CASE ThenApply
  <2>1. cmd.name = "goto" /\ cmd'.name = "goto"
    BY <1>1, ThenApplyForm
  <2>2. Hidden(before)' = Hidden(before)
    BY <1>1 DEF ThenApply, Unfinished, Hidden
  <2> QED BY <1>1, <2>1, <2>2, ThenApplyEdits, NameFacts DEF EditsInv, EditsSurvive, Swapping
<1>2. CASE ThenMerge
  <2>1. cmd.name = "merge2" /\ cmd'.name = "merge2"
    BY <1>2, ThenMergeForm
  <2> QED BY <1>2, <2>1, ThenMergeEdits, NameFacts DEF EditsInv, EditsSurvive, Swapping
<1>3. CASE ThenRevert
  <2>1. cmd.name = "save" /\ cmd'.name = "save"
    BY <1>3, ThenRevertForm
  <2> QED BY <1>3, <2>1, ThenRevertEdits, NameFacts DEF EditsInv, EditsSurvive, Swapping
<1> QED BY <1>1, <1>2, <1>3

(* A command ends.                                                         *)
LEMMA IdleEdits == ASSUME cmd'.name = "none", EditsSurvive' PROVE EditsInv'
BY NameFacts DEF EditsInv, Swapping

LEMMA NamesAre ==
    ASSUME TypeInv, cmd.name # "none"
    PROVE  \/ cmd.name \in Undoable \/ cmd.name = "save" \/ cmd.name = "checkout"
           \/ Swapping
<1>1. cmd.name \in Names
  BY CommandRuns DEF Command
<1> QED BY <1>1 DEF Names, Swapping

LEMMA FinishEdits ==
    ASSUME TypeInv, UndoAssumption, EditsInv, Finish
    PROVE  EditsInv'
<1>1. /\ cmd.name # "none" /\ Running /\ Sound(vdb) /\ TypeInv' /\ cmd' = Idle /\ vdb' = Result
      /\ cmd'.name = "none"
  BY FinishForm, IdleFacts
<1> SUFFICES EditsSurvive'
  BY <1>1, IdleEdits
<1>2. /\ UNCHANGED <<disk, backup, before>> /\ last'.name = cmd.name
      /\ DOMAIN cmd.todo = {} /\ cmd.then = "none"
  BY DEF Finish, Finished
<1>3. /\ Result.stash = cmd.db.stash /\ Result.avail = cmd.db.avail
      /\ Result.log.stash = cmd.db.log.stash
      /\ Result.log.rows = IF cmd.db.avail = 0 THEN cmd.db.log.rows ELSE vdb.log.rows
  BY <1>1, ResultFacts
<1> DEFINE kept == KeptIn(disk', backup', vdb')
<1>4. /\ backup \subseteq kept
      /\ \A p \in Path : disk[p].edits \subseteq kept
      /\ StashEdits(cmd.db.stash) \subseteq kept /\ StashEdits(cmd.db.log.stash) \subseteq kept
      /\ \A p \in DOMAIN vdb'.log.rows : vdb'.log.rows[p].content.edits \subseteq kept
  <2>1. disk' \in [Path -> Content]
    BY <1>1 DEF TypeInv
  <2> QED BY <1>1, <1>2, <1>3, <2>1, KeptFacts
<1> HIDE DEF kept
<1>5. ASSUME \A p \in Path : before.disk[p].edits \subseteq kept,
             StashEdits(before.stash) \subseteq kept
      PROVE  EditsSurvive'
  BY <1>1, <1>2, <1>5, SurviveIf DEF kept
<1>6. CASE cmd.name \in Undoable
  <2>1. CASE cmd.name = "goto" /\ Hidden(before) # {}
    BY <1>2, <2>1 DEF EditsSurvive, Unsafe, Hidden
  <2>2. CASE ~(cmd.name = "goto" /\ Hidden(before) # {})
    <3>1. Changing
      BY <1>6, <2>2 DEF EditsInv
    <3>2. vdb'.log.rows = vdb.log.rows
      BY <1>1, <1>3, <3>1 DEF Changing
    <3>3. \A p \in Path : before.disk[p].edits \subseteq kept
      BY <1>4, <3>1, <3>2 DEF Changing
    <3>4. StashEdits(before.stash) \subseteq kept
      BY <1>4, <3>1 DEF Changing, SavedEdits
    <3> QED BY <1>5, <3>3, <3>4
  <2> QED BY <2>1, <2>2
<1>7. CASE cmd.name = "save"
  <2>1. Saving
    BY <1>7 DEF EditsInv
  <2>2. /\ \A p \in Path : before.disk[p].edits \subseteq kept
        /\ StashEdits(before.stash) \subseteq kept
    BY <1>2, <1>4, <2>1 DEF Saving
  <2> QED BY <1>5, <2>2
<1>8. CASE cmd.name = "checkout"
  <2>1. CheckingOut
    BY <1>8 DEF EditsInv
  <2>2. /\ \A p \in Path : before.disk[p].edits \subseteq kept
        /\ StashEdits(before.stash) \subseteq kept
    BY <1>4, <2>1 DEF CheckingOut
  <2> QED BY <1>5, <2>2
<1>9. CASE Swapping
  <2>1. Exchanging
    BY <1>9 DEF EditsInv
  <2>2. vdb'.log.rows = vdb.log.rows
    BY <1>1, <1>3, <2>1 DEF Exchanging
  <2>3. \A p \in Path : before.disk[p].edits \subseteq kept
    BY <1>4, <2>1, <2>2 DEF Exchanging, RowEdits
  <2>4. StashEdits(before.stash) \subseteq kept
    BY <1>4, <2>1 DEF Exchanging, SavedEdits
  <2> QED BY <1>5, <2>3, <2>4
<1> QED BY <1>1, <1>6, <1>7, <1>8, <1>9, NamesAre

LEMMA EndEdits ==
    ASSUME TypeInv, UndoAssumption, EditsInv, Skip \/ Fail \/ KillCommand
    PROVE  EditsInv'
<1>1. /\ TypeInv' /\ cmd.name # "none" /\ cmd'.name = "none" /\ vdb' = committed
      /\ UNCHANGED <<committed, before, backup>>
  BY EndTyped, IdleFacts
<1> SUFFICES EditsSurvive'
  BY <1>1, IdleEdits
<1>2. /\ last'.name = cmd.name
      /\ Fail => last'.how = "failed" /\ disk' = IF NeedsRollback THEN Restored ELSE disk
      /\ KillCommand => last'.how = "killed" /\ disk' = disk
      /\ Skip => disk' = disk /\ cmd.then = "merge"
  BY DEF Skip, Fail, KillCommand, EndEarly, Finished
<1>3. cmd.then = "merge" => cmd.name = "merge2"
  BY <1>1, CommandRuns DEF Running, Ready
<1> DEFINE kept == KeptIn(disk', backup', vdb')
<1>4. /\ backup \subseteq kept
      /\ \A p \in Path : disk'[p].edits \subseteq kept
      /\ StashEdits(committed.stash) \subseteq kept
  <2>1. disk' \in [Path -> Content]
    BY <1>1 DEF TypeInv
  <2> QED BY <1>1, <2>1, KeptFacts
<1> HIDE DEF kept
<1>5. ASSUME \A p \in Path : before.disk[p].edits \subseteq kept,
             StashEdits(before.stash) \subseteq kept
      PROVE  EditsSurvive'
  BY <1>1, <1>5, SurviveIf DEF kept
<1>6. CASE cmd.name \in Undoable
  <2>1. CASE (cmd.name = "goto" /\ Hidden(before) # {}) \/ KillCommand
    BY <1>1, <1>2, <1>6, <2>1, NameFacts DEF EditsSurvive, Unsafe, Hidden
  <2>2. CASE ~(cmd.name = "goto" /\ Hidden(before) # {}) /\ ~KillCommand
    <3>1. Changing
      BY <1>6, <2>2 DEF EditsInv
    <3>2. StashEdits(before.stash) \subseteq kept
      BY <1>4, <3>1 DEF Changing
    <3>3. CASE Skip
      BY <1>2, <1>4, <1>5, <3>1, <3>2, <3>3 DEF Changing
    <3>4. CASE Fail
      <4>1. NeedsRollback
        BY <1>6, NameFacts DEF NeedsRollback, Swapping
      <4>2. \A p \in Path : disk'[p] = IF p \in DOMAIN vdb.log.rows /\ ~vdb.log.rows[p].redo
                                       THEN vdb.log.rows[p].content ELSE disk[p]
        BY <1>2, <3>4, <4>1, RestoredFacts
      <4>3. \A p \in Path : before.disk[p].edits \subseteq disk'[p].edits \cup backup
        BY <3>1, <4>2 DEF Changing
      <4>4. \A p \in Path : before.disk[p].edits \subseteq kept
        BY <1>4, <4>3
      <4> QED BY <1>5, <3>2, <4>4
    <3> QED BY <2>2, <3>3, <3>4
  <2> QED BY <2>1, <2>2
<1>7. CASE cmd.name = "save"
  <2>1. Saving
    BY <1>7 DEF EditsInv
  <2>2. disk' = disk
    BY <1>2, <1>3, <1>7 DEF NeedsRollback
  <2>3. \A p \in Path : before.disk[p].edits \subseteq disk[p].edits \cup StashEdits(committed.stash)
    BY <2>1 DEF Saving
  <2>4. StashEdits(before.stash) \subseteq StashEdits(committed.stash)
    BY <2>1 DEF Saving
  <2> QED BY <1>4, <1>5, <2>2, <2>3, <2>4
<1>8. CASE cmd.name = "checkout"
  <2>1. CASE KillCommand
    BY <1>2, <1>8, <2>1 DEF EditsSurvive, Unsafe
  <2>2. CASE ~KillCommand
    <3>1. CheckingOut
      BY <1>8 DEF EditsInv
    <3>2. disk' = disk
      BY <1>2, <1>3, <1>8 DEF NeedsRollback
    <3> QED BY <1>4, <1>5, <3>1, <3>2 DEF CheckingOut
  <2> QED BY <2>1, <2>2
<1>9. CASE Swapping
  <2>1. ~Skip
    BY <1>2, <1>3, <1>9 DEF Swapping
  <2> QED BY <1>2, <1>9, <2>1 DEF EditsSurvive, Unsafe, Swapping
<1> QED BY <1>1, <1>6, <1>7, <1>8, <1>9, NamesAre

LEMMA NextEdits ==
    ASSUME TypeInv, UndoAssumption, ~StashRemoved, EditsInv, [UndoNext]_undoVars
    PROVE  EditsInv'
<1>1. CASE UndoNext
  <2>1. Kinds
    BY <1>1, NextKinds
  <2>2. CASE BeginUndoable \/ BeginSwap \/ BeginSave \/ BeginCheckout
    BY <2>2, BeginEdits
  <2>3. CASE \E p \in Path : Step(p)
    BY <2>3, StepEdits
  <2>4. CASE Finish
    BY <2>4, FinishEdits
  <2>5. CASE ThenApply \/ ThenRevert \/ ThenMerge
    BY <2>5, ThenEdits
  <2>6. CASE Skip \/ Fail \/ KillCommand
    BY <2>6, EndEdits
  <2>7. CASE ByUserStep
    <3>1. cmd'.name = "none" /\ last'.name = "user"
      BY <2>7, UserTyped
    <3>2. EditsSurvive'
      BY <3>1 DEF EditsSurvive
    <3> QED BY <3>1, <3>2, IdleEdits
  <2> QED BY <2>1, <2>2, <2>3, <2>4, <2>5, <2>6, <2>7 DEF Kinds
<1>2. CASE UNCHANGED undoVars
  <2>1. UNCHANGED <<disk, backup, vdb, committed, cmd, last, before>>
    BY <1>2 DEF undoVars
  <2>2. UNCHANGED <<EditsSurvive, Changing, CheckingOut, Saving, Exchanging>>
    <3>1. UNCHANGED <<EditsSurvive, CheckingOut, Saving>>
      BY <2>1 DEF EditsSurvive, Kept, Unsafe, Hidden, CheckingOut, Saving
    <3>2. UNCHANGED <<Changing, Exchanging>>
      BY <2>1 DEF Changing, Exchanging, SavedEdits, Safe, Keeping
    <3> QED BY <3>1, <3>2
  <2> QED BY <2>1, <2>2 DEF EditsInv, Hidden, Swapping
<1> QED BY <1>1, <1>2

LEMMA InitEdits == ASSUME UndoAssumption, UndoInit, TypeInv PROVE EditsInv
<1>1. cmd.name = "none"
  BY IdleFacts DEF UndoInit
<1>2. before = Tree(vdb) /\ before.disk = disk /\ before.stash = vdb.stash
  BY TreeFacts DEF UndoInit, TypeInv, Sound
<1>3. EditsSurvive
  BY <1>2 DEF EditsSurvive, Kept
<1> QED BY <1>1, <1>3, NameFacts DEF EditsInv, Swapping

(* No command loses an edit, but for those in removed files that "stash    *)
(* save" and "stash goto" overwrite: every edit that was in a file or in   *)
(* the stash when it began is afterwards in a file, a backup, the stash or *)
(* the undo log, also when the command fails between two writes.           *)
THEOREM NoEditIsLost ==
    ASSUME UndoAssumption, ~StashRemoved
    PROVE  UndoSpec => []EditsSurvive
<1>1. UndoInit => TypeInv /\ EditsInv
  BY InitTyped, InitEdits
<1>2. TypeInv /\ EditsInv /\ [UndoNext]_undoVars => (TypeInv /\ EditsInv)'
  BY NextTyped, NextEdits
<1>3. EditsInv => EditsSurvive
  BY DEF EditsInv
<1> QED BY <1>1, <1>2, <1>3, PTL DEF UndoSpec
=============================================================================
