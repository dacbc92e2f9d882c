------------------------------- MODULE Purge -------------------------------
(***************************************************************************)
(* What takes artifacts out of a repository, and back: "fossil purge" and  *)
(* its graveyard (src/src/purge.c), "bundle purge" (bundle.c), which       *)
(* buries nothing, and shunning (shun.c), which takes effect at the next   *)
(* rebuild.                                                                *)
(*                                                                         *)
(* Each command is one transaction: one that fails changes nothing.  The   *)
(* artifacts are files, whose crosslinking does nothing; they lie in rows  *)
(* of table blob, as text or as a delta of another row.  A rid, and the    *)
(* number of an item or an event of the graveyard, is one more than the    *)
(* largest in use, and so used again.                                      *)
(***************************************************************************)
EXTENDS Naturals, FiniteSets, SequencesExt

CONSTANTS
    Artifact,
    Announced,    \* what peers announce and do not send
    DeltaSource,  \* <<a, s>>: a peer may send a as a delta of s
    Similar,      \* <<a, s>>: a delta of s is small enough to store a as one
    Shunnable,    \* what may be shunned
    MaxRid, MaxItem

PurgeAssumption ==
    /\ Announced \subseteq Artifact /\ Shunnable \subseteq Artifact
    /\ DeltaSource \subseteq Artifact \X Artifact
    /\ Similar \subseteq Artifact \X Artifact
    /\ MaxRid \in Nat /\ MaxItem \in Nat
    /\ Artifact \cap {"none", "full", "wrong", "stray"} = {}

VARIABLES
    row,       \* tables blob and delta, by rid
    grave,     \* table purgeitem, by piid
    shun,      \* table shun
    owed,      \* artifacts the repository has had, and was not told to forget
    doubtful,  \* what is known to be lost by the code, see NothingIsLost
    stray      \* rids of deltas whose source rebuild took away

vars == <<row, grave, shun, owed, doubtful, stray>>

Rid == 1 .. MaxRid
Piid == 1 .. MaxItem

(* data is "none" for a phantom, "full" for the text of the artifact, or   *)
(* the artifact that the stored delta applies to.  src is delta.srcid.     *)
Data == {"none", "full", "wrong"} \cup Artifact
NoRow == [art |-> "none", data |-> "none", src |-> 0]
NoItem == [event |-> 0, orid |-> 0, art |-> "none", data |-> "none", srcid |-> 0]

TypeOK ==
    /\ row \in [Rid -> [art : Artifact \cup {"none"}, data : Data, src : {0} \cup Rid]]
    /\ grave \in [Piid -> [event : 0 .. MaxItem, orid : {0} \cup Rid,
                          art : Artifact \cup {"none"}, data : Data,
                          srcid : {0} \cup Piid]]
    /\ shun \in SUBSET Artifact
    /\ owed \in SUBSET Artifact /\ doubtful \in SUBSET Artifact
    /\ stray \in SUBSET Rid

Init ==
    /\ row = [r \in Rid |-> NoRow]
    /\ grave = [i \in Piid |-> NoItem]
    /\ shun = {} /\ owed = {} /\ doubtful = {} /\ stray = {}

-----------------------------------------------------------------------------
Rows == {r \in Rid : row[r] # NoRow}
Items(e) == {i \in Piid : grave[i].event = e /\ e # 0}
Events == {grave[i].event : i \in Piid} \ {0}

Largest(S) == CHOOSE n \in S \cup {0} : \A m \in S : m <= n
NextRid(rows) == 1 + Largest({r \in Rid : rows[r] # NoRow})

RowOf(rows, a) == {r \in Rid : rows[r].art = a}
IsPhantom(a) == \E r \in RowOf(row, a) : row[r].data = "none"
Absent(a) == RowOf(row, a) = {} \/ IsPhantom(a)

(* content_get(): what applying the deltas of row r down to a full text    *)
(* gives; "none" if it ends at a phantom or at no row.                     *)
Text(r) ==
    LET text[n \in 0 .. MaxRid, s \in {0} \cup Rid] ==
          IF n = 0 \/ s = 0 \/ row[s].data = "none" THEN "none"
          ELSE LET basis == text[n - 1, row[s].src]
                   got == CASE row[s].src # 0 /\ basis = "none" -> "none"
                            [] row[s].src # 0 /\ basis = row[s].data -> row[s].art
                            [] row[s].src = 0 /\ row[s].data = "full" -> row[s].art
                            [] OTHER -> "wrong"
               IN  IF s \in stray /\ got \notin {"none", row[s].art} THEN "stray" ELSE got
    IN  text[MaxRid, r]

HasText(r) == Text(r) # "none"
IsRight(r) == row[r] # NoRow /\ Text(r) = row[r].art
Right == {row[r].art : r \in {s \in Rid : IsRight(s)}}

(* delta_source_rid(), again and again.                                    *)
Ancestors(r) ==
    LET up[n \in 0 .. MaxRid, s \in {0} \cup Rid] ==
          IF n = 0 \/ s = 0 THEN {} ELSE {row[s].src} \cup up[n - 1, row[s].src]
    IN  up[MaxRid, r] \ {0}

(* content_undelta(): nothing happens to what cannot be read.              *)
TextData(r) == IF IsRight(r) THEN "full" ELSE IF HasText(r) THEN "wrong" ELSE row[r].data

(* The accounts: the action drops some artifacts on purpose, and others    *)
(* are in doubt until they can be read again.                              *)
Account(dropped, doubts) ==
    /\ owed' = (owed \ dropped) \cup Right'
    /\ doubtful' = (doubtful \cup doubts) \ Right'

-----------------------------------------------------------------------------
(* content_put_ex() of a that is absent: a phantom is filled.              *)
Put(rows, a, data, src) ==
    LET rid == IF RowOf(rows, a) = {} THEN NextRid(rows)
               ELSE CHOOSE r \in RowOf(rows, a) : TRUE
    IN  [rows EXCEPT ![rid] = [art |-> a, data |-> data, src |-> src]]

Phantomize(rows, a) ==
    IF RowOf(rows, a) = {} THEN Put(rows, a, "none", 0) ELSE rows

Fits(n) == NextRid(row) + n <= MaxRid + 1

(* A commit, or a "file" card whose text the receiver has.                 *)
Store(a) ==
    /\ Absent(a) /\ Fits(1)
    /\ row' = Put(row, a, "full", 0)
    /\ UNCHANGED <<grave, shun, stray>>
    /\ Account({}, {})

(* An "igot" card: content_new() makes no phantom of what is shunned.      *)
Announce(a) ==
    /\ a \in Announced \ shun
    /\ RowOf(row, a) = {} /\ Fits(1)
    /\ row' = Phantomize(row, a)
    /\ UNCHANGED <<grave, shun, stray>>
    /\ Account({}, {})

(* A "file" card with a delta of s, which cannot be read.                  *)
ReceiveDelta(a, s) ==
    LET rows == Phantomize(row, s)
        src == CHOOSE r \in RowOf(rows, s) : TRUE
    IN  /\ <<a, s>> \in DeltaSource
        /\ Absent(a) /\ Fits(2)
        /\ a \notin shun
        /\ IF RowOf(row, s) = {} THEN s \notin shun ELSE ~HasText(src)
        /\ row' = Put(rows, a, s, src)
        /\ UNCHANGED <<grave, shun, stray>>
        /\ Account({}, {a})

(* content_deltify(): the row r becomes a delta of s.  If s is a delta     *)
(* that depends on r, s becomes a full text instead.  A wrong text is no   *)
(* source here, and no target, since verification would fail.              *)
Deltify(r, s) ==
    /\ <<row[r].art, row[s].art>> \in Similar
    /\ row[r].src = 0 /\ IsRight(r) /\ IsRight(s)
    /\ row' = IF r \in Ancestors(s)
                THEN [row EXCEPT ![s].data = TextData(s), ![s].src = 0]
                ELSE [row EXCEPT ![r].data = row[s].art, ![r].src = s]
    /\ UNCHANGED <<grave, shun, stray>>
    /\ Account({}, {})

-----------------------------------------------------------------------------
(* purge_artifact_list().  What stays and is a delta of what goes becomes  *)
(* a full text, and is verified before the commit.                         *)
LeftBehind(S) == {r \in Rows \ S : row[r].src \in S}

(* Broken variant: what cannot be read is let through.                     *)
Verified_IfRead(S) == \A r \in LeftBehind(S) : HasText(r) => IsRight(r)
Verified(S) == \A r \in LeftBehind(S) : IsRight(r)

(* The delta row goes with its source, even when content_undelta() failed. *)
Remaining(S) ==
    [r \in Rid |->
       IF r \in S THEN NoRow
       ELSE IF r \in LeftBehind(S) THEN [row[r] EXCEPT !.data = TextData(r), !.src = 0]
       ELSE row[r]]

(* What goes and is a delta of what stays is made a full text, too.        *)
(* Broken variant: items keep a delta whose basis is not buried with them. *)
Detached_Never(r, S) == row[r].src = 0
Detached(r, S) == row[r].src \notin S /\ HasText(r)
BuriedData(r, S) == IF Detached(r, S) THEN TextData(r) ELSE row[r].data
BuriedSource(r, S) == IF Detached(r, S) THEN 0 ELSE row[r].src

(* The items in the order of their rids.  The basis of an item is the      *)
(* first item of the whole graveyard with the rid of its source.           *)
FirstItem == Largest({i \in Piid : grave[i] # NoItem}) + 1

WithItems(S) ==
    LET order == SetToSortSeq(S, <)
        e == Largest(Events) + 1
        Entry(r) == [event |-> e, orid |-> r, art |-> row[r].art,
                    data |-> BuriedData(r, S), srcid |-> 0]
        raw == [i \in Piid |->
                  IF i \in FirstItem .. FirstItem + Len(order) - 1
                    THEN Entry(order[i - FirstItem + 1]) ELSE grave[i]]
        Basis(src) == {i \in Piid : raw[i].orid = src /\ src # 0}
        srcid(i) == LET B == Basis(BuriedSource(raw[i].orid, S))
                    IN  IF B = {} THEN 0 ELSE CHOOSE b \in B : \A c \in B : b <= c
    IN  [i \in Piid |-> IF raw[i].event = e /\ i >= FirstItem
                        THEN [raw[i] EXCEPT !.srcid = srcid(i)] ELSE raw[i]]

(* purge_item_resurrect(): the items of an event below item i, in the      *)
(* order in which they are restored.                                       *)
Tree(items, e) ==
    LET below[n \in 0 .. MaxItem, i \in {0} \cup Piid] ==
          LET based == SetToSortSeq({j \in Piid : items[j].event = e /\ items[j].srcid = i}, <)
          IN  IF n = 0 THEN <<>>
              ELSE FlattenSeq([k \in DOMAIN based |-> <<based[k]>> \o below[n - 1, based[k]]])
    IN  below[MaxItem, 0]

Arts(items, I) == {items[i].art : i \in I}

(* Items of the latest event that a resurrection would not come to.        *)
Unreached(items) ==
    LET new == {i \in Piid : i >= FirstItem /\ items[i] # NoItem}
    IN  Arts(items, UNION {new \ ToSet(Tree(items, items[i].event)) : i \in new})

Purge(S) ==
    /\ S # {} /\ S \subseteq Rows
    /\ FirstItem + Cardinality(S) <= MaxItem + 1
    /\ Verified(S)
    /\ grave' = WithItems(S)
    /\ row' = Remaining(S)
    /\ stray' = stray \ S
    /\ UNCHANGED shun
    /\ Account({}, Unreached(WithItems(S)))

(* "bundle purge": nothing is buried.                                      *)
PurgeForGood(S) ==
    /\ S # {} /\ S \subseteq Rows
    /\ Verified(S)
    /\ row' = Remaining(S)
    /\ stray' = stray \ S
    /\ UNCHANGED <<grave, shun>>
    /\ Account({row[r].art : r \in S}, {})

-----------------------------------------------------------------------------
(* "purge undo": every item must give the text of its hash, or all fails.  *)
(* An artifact that has a row with content keeps it.                       *)
ItemIsRight(i) ==
    grave[i].data = IF grave[i].srcid = 0 THEN "full" ELSE grave[grave[i].srcid].art

Restored(order) ==
    FoldLeft(LAMBDA rows, i :
               IF \E r \in RowOf(rows, grave[i].art) : rows[r].data # "none"
                 THEN rows ELSE Put(rows, grave[i].art, "full", 0),
             row, order)

Emptied(e) == [i \in Piid |-> IF i \in Items(e) THEN NoItem ELSE grave[i]]

Undo(e) ==
    LET order == Tree(grave, e)
    IN  /\ e \in Events
        /\ \A i \in ToSet(order) : ItemIsRight(i)
        /\ Fits(Len(order))
        /\ row' = Restored(order)
        /\ grave' = Emptied(e)
        /\ shun' = shun \ Arts(grave, Items(e))
        /\ UNCHANGED stray
        /\ Account({}, {})

(* "purge obliterate".                                                     *)
Obliterate(e) ==
    /\ e \in Events
    /\ grave' = Emptied(e)
    /\ UNCHANGED <<row, shun, stray>>
    /\ Account(Arts(grave, Items(e)), {})

-----------------------------------------------------------------------------
(* The /shun page, both ways.                                              *)
Shun(a) ==
    /\ a \in Shunnable
    /\ shun' = IF a \in shun THEN shun \ {a} ELSE shun \cup {a}
    /\ UNCHANGED <<row, grave, stray>>
    /\ Account({}, {})

(* shun_artifacts(), the part of rebuild that removes: a delta of what     *)
(* goes becomes a full text, unverified; one that cannot be read keeps its *)
(* row in table delta.                                                     *)
ToShun == {r \in Rows : row[r].art \in shun}

Rebuild ==
    /\ ToShun # {}
    /\ row' = [r \in Rid |->
                 IF r \in ToShun THEN NoRow
                 ELSE IF r \in LeftBehind(ToShun) /\ HasText(r)
                   THEN [row[r] EXCEPT !.data = TextData(r), !.src = 0]
                 ELSE row[r]]
    /\ stray' = (stray \cup {r \in LeftBehind(ToShun) : ~IsRight(r)}) \ ToShun
    /\ UNCHANGED <<grave, shun>>
    /\ Account({row[r].art : r \in ToShun}, {})

-----------------------------------------------------------------------------
Next ==
    \/ \E a \in Artifact : Store(a)
    \/ \E a \in Artifact : Announce(a)
    \/ \E a, s \in Artifact : ReceiveDelta(a, s)
    \/ \E r, s \in Rid : Deltify(r, s)
    \/ \E S \in SUBSET Rid : Purge(S)
    \/ \E S \in SUBSET Rid : PurgeForGood(S)
    \/ \E e \in Events : Undo(e)
    \/ \E e \in Events : Obliterate(e)
    \/ \E a \in Artifact : Shun(a)
    \/ Rebuild

Spec == Init /\ [][Next]_vars

-----------------------------------------------------------------------------
(* "purge cat" (purge_extract_item()) gives the content of the item.       *)
Extractable ==
    LET good[n \in 0 .. MaxItem, i \in {0} \cup Piid] ==
          /\ n # 0 /\ i # 0
          /\ grave[i] # NoItem
          /\ ItemIsRight(i)
          /\ grave[i].srcid = 0 \/ good[n - 1, grave[i].srcid]
    IN  {grave[i].art : i \in {j \in Piid : good[MaxItem, j]}}

(* An artifact the repository has had is in it, or can be taken from the   *)
(* graveyard, unless it was purged for good, obliterated or shunned.       *)
(* Excepted are the deltas of what had not come when they were received,   *)
(* and the items that purge_artifact_list() bases on an older event.       *)
NothingIsLost == owed \ doubtful \subseteq Right \cup Extractable

(* Whatever is purged, restored or shunned, what can be read of an         *)
(* artifact is the artifact; but for the deltas whose source was shunned   *)
(* before it came (shun.c:341).                                            *)
ReadableIsRight == \A r \in Rows : Text(r) \in {row[r].art, "none", "stray"}

(* "The graveyard exists so that content can be recovered using the        *)
(* "fossil purge undo" command" (purge.c:415): an artifact that left the   *)
(* graveyard, and was not obliterated, is in the repository.               *)
EverythingComesBack == owed \subseteq Right \cup {grave[i].art : i \in Piid}
=============================================================================
