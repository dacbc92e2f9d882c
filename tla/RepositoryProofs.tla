-------------------------- MODULE RepositoryProofs --------------------------
(***************************************************************************)
(* Theorems about the parts of a repository that MCRepository composes.    *)
(* First the tags: the table of leaves is exact after every commit, for    *)
(* every history of check-ins and tags, whatever the order in which they   *)
(* come.  Then the hash table of bag.c: it is a set of integers, for every *)
(* set of keys and whatever is inserted and removed.  Then transactions:   *)
(* for any number of processes and artifacts and any depth of nesting they *)
(* are atomic and verified, and what a commit derives from the memory of   *)
(* its process is right.                                                   *)
(***************************************************************************)
EXTENDS Transaction, Tags, IntBag, FiniteLemmas, TLAPS

(* The inductive invariant: table leaf is exact, as committed and in the   *)
(* open transaction, but for the check-ins that the bag names.             *)
Exact(s, bag) ==
    \A c \in CheckIn \ bag : IsSettled(s, c) =>
       (c \in s.leaf <=> IsLeaf(s.plink, s.tagxref, c))

TagsIInv == TagsTypeOK /\ Exact(Tables, needToCheck) /\ Exact(saved, {})

-----------------------------------------------------------------------------
(* What the tag functions change, and that they take note of it: a         *)
(* check-in whose tag changes is in the bag, and so are its parents.       *)
Work == [rows : [CheckIn -> Row \cup {Nil}], bag : SUBSET CheckIn]

Noted(links, s, t) ==
    /\ t \in Work
    /\ s.bag \subseteq t.bag
    /\ \A c \in CheckIn : t.rows[c] # s.rows[c] =>
          c \in t.bag /\ Parents(links, c) \subseteq t.bag

LEMMA NotedSame == ASSUME NEW links, NEW s \in Work PROVE Noted(links, s, s)
BY DEF Noted

LEMMA NotedTwice ==
    ASSUME NEW links, NEW s, NEW t, NEW u, Noted(links, s, t), Noted(links, t, u)
    PROVE  Noted(links, s, u)
<1> SUFFICES ASSUME NEW c \in CheckIn, u.rows[c] # s.rows[c]
             PROVE  c \in u.bag /\ Parents(links, c) \subseteq u.bag
  BY DEF Noted
<1>1. CASE t.rows[c] # s.rows[c]
  BY <1>1 DEF Noted
<1>2. CASE t.rows[c] = s.rows[c]
  BY <1>2 DEF Noted
<1> QED BY <1>1, <1>2

LEMMA EventuallyChecked ==
    ASSUME NEW links, NEW bag \in SUBSET CheckIn, NEW S \in SUBSET CheckIn
    PROVE  /\ LeafEventuallyCheck(links, bag, S) \in SUBSET CheckIn
           /\ bag \subseteq LeafEventuallyCheck(links, bag, S)
           /\ \A c \in S : /\ c \in LeafEventuallyCheck(links, bag, S)
                          /\ Parents(links, c) \subseteq LeafEventuallyCheck(links, bag, S)
BY DEF LeafEventuallyCheck, Parents

(* A tag, or the row of one.                                               *)
IsTag(tag) ==
    tag.kind \in {"cancel", "single", "propagate"} /\ tag.value \in Value /\ tag.time \in Nat

LEMMA PropagateNotes ==
    ASSUME NEW links, NEW s \in Work, NEW pid, NEW tag, IsTag(tag)
    PROVE  Noted(links, s, Propagate(s, links, pid, tag))
<1> PICK S \in SUBSET CheckIn : S = Reached(links, s.rows, pid, tag.kind, tag.time)
  BY DEF Reached
<1> PICK row \in Row \cup {Nil} :
      row = IF tag.kind = "propagate"
              THEN [kind |-> "propagate", value |-> tag.value, time |-> tag.time, own |-> FALSE]
              ELSE Nil
  BY DEF IsTag, Row
<1> PICK bag : bag = LeafEventuallyCheck(links, s.bag, S)
  OBVIOUS
<1> PICK rows : rows = [c \in CheckIn |-> IF c \in S THEN row ELSE s.rows[c]]
  OBVIOUS
<1>1. Propagate(s, links, pid, tag) = [rows |-> rows, bag |-> bag]
  BY DEF Propagate
<1>2. /\ bag \in SUBSET CheckIn /\ s.bag \subseteq bag
      /\ \A c \in S : c \in bag /\ Parents(links, c) \subseteq bag
  <2>1. s.bag \in SUBSET CheckIn
    BY DEF Work
  <2> QED BY <2>1, EventuallyChecked
<1>3. rows \in [CheckIn -> Row \cup {Nil}] /\ \A c \in CheckIn \ S : rows[c] = s.rows[c]
  BY DEF Work
<1> QED BY <1>1, <1>2, <1>3 DEF Noted, Work

LEMMA TagInsertNotes ==
    ASSUME NEW links, NEW s \in Work, NEW c \in CheckIn, NEW tag \in Tag
    PROVE  Noted(links, s, TagInsert(s, links, c, tag))
<1>1. CASE s.rows[c] # Nil /\ s.rows[c].time >= tag.time
  BY <1>1, NotedSame DEF TagInsert
<1>2. CASE ~ (s.rows[c] # Nil /\ s.rows[c].time >= tag.time)
  <2> PICK given \in Row : given = [kind |-> tag.kind, value |-> tag.value,
                                    time |-> tag.time, own |-> TRUE]
    BY DEF Row, Tag
  <2> PICK bag : bag = LeafEventuallyCheck(links, s.bag, {c})
    OBVIOUS
  <2> PICK t : t = [rows |-> [s.rows EXCEPT ![c] = given], bag |-> bag]
    OBVIOUS
  <2>1. /\ bag \in SUBSET CheckIn /\ s.bag \subseteq bag
        /\ c \in bag /\ Parents(links, c) \subseteq bag
    BY EventuallyChecked DEF Work
  <2>2. t.rows \in [CheckIn -> Row \cup {Nil}] /\ \A k \in CheckIn \ {c} : t.rows[k] = s.rows[k]
    BY DEF Work
  <2>3. Noted(links, s, t) /\ t \in Work
    BY <2>1, <2>2 DEF Noted, Work
  <2>4. IsTag(tag)
    BY DEF IsTag, Tag
  <2>5. TagInsert(s, links, c, tag) = Propagate(t, links, c, tag)
    BY <1>2 DEF TagInsert
  <2> QED BY <2>3, <2>4, <2>5, PropagateNotes, NotedTwice
<1> QED BY <1>1, <1>2

LEMMA PropagateAllNotes ==
    ASSUME NEW links, NEW s \in Work, NEW pid \in CheckIn \cup {Nil}
    PROVE  Noted(links, s, PropagateAll(s, links, pid))
<1>1. CASE pid = Nil \/ s.rows[pid] = Nil
  BY <1>1, NotedSame DEF PropagateAll
<1>2. CASE ~ (pid = Nil \/ s.rows[pid] = Nil)
  <2>1. IsTag(s.rows[pid])
    BY <1>2 DEF IsTag, Work, Row
  <2> QED BY <1>2, <2>1, PropagateNotes DEF PropagateAll
<1> QED BY <1>1, <1>2

LEMMA CheckinTagsNote ==
    ASSUME TagsAssumption, Now \in Work, NEW links, NEW c \in CheckIn
    PROVE  Noted(links, Now, CheckinTags(links, c))
<1> PICK s : s = IF Card[c] = Nil THEN Now ELSE TagInsert(Now, links, c, Card[c])
  OBVIOUS
<1>1. Noted(links, Now, s)
  <2>1. Card[c] # Nil => Card[c] \in Tag
    BY DEF TagsAssumption
  <2> QED BY <2>1, NotedSame, TagInsertNotes
<1>2. s \in Work
  BY <1>1 DEF Noted
<1>3. Parent[c] \in CheckIn \cup {Nil}
  BY DEF TagsAssumption
<1>4. CheckinTags(links, c) = PropagateAll(s, links, Parent[c])
  BY DEF CheckinTags
<1> QED BY <1>1, <1>2, <1>3, <1>4, PropagateAllNotes, NotedTwice

-----------------------------------------------------------------------------
(* A table of leaves that is exact but for the bag stays so when tags      *)
(* change, which is noted, and when check-ins are linked to their parents, *)
(* if the tags of these change or they have none, or were tagged before.   *)
LEMMA StillExact ==
    ASSUME NEW s, NEW t, NEW bag, NEW later,
           Exact(s, bag), bag \subseteq later, t.leaf = s.leaf,
           s.early \subseteq t.early,
           \A c \in CheckIn : Parents(s.plink, c) \subseteq Parents(t.plink, c),
           \A c \in CheckIn : t.tagxref[c] # s.tagxref[c] =>
               c \in later /\ Parents(t.plink, c) \subseteq later,
           \A c \in CheckIn : Parents(t.plink, c) # Parents(s.plink, c) =>
               \/ Parents(t.plink, c) \subseteq later
               \/ t.tagxref[c] = Nil \/ c \in t.early
    PROVE  Exact(t, later)
<1> SUFFICES ASSUME NEW c \in CheckIn \ later, IsSettled(t, c)
             PROVE  c \in t.leaf <=> IsLeaf(t.plink, t.tagxref, c)
  BY DEF Exact
<1>1. t.tagxref[c] = s.tagxref[c]
  OBVIOUS
<1>2. ASSUME NEW k \in CheckIn
      PROVE  /\ c \in Parents(t.plink, k) <=> c \in Parents(s.plink, k)
             /\ c \in Parents(t.plink, k) => t.tagxref[k] = s.tagxref[k]
  <2>1. c \in Parents(t.plink, k) => t.tagxref[k] # Nil /\ k \notin t.early
    BY DEF IsSettled
  <2> QED BY <2>1
<1>3. IsSettled(s, c)
  BY <1>1, <1>2 DEF IsSettled
<1>4. IsLeaf(t.plink, t.tagxref, c) <=> IsLeaf(s.plink, s.tagxref, c)
  BY <1>1, <1>2 DEF IsLeaf, Branch
<1> QED BY <1>3, <1>4 DEF Exact

(* The rows that a receipt leaves behind are noted in the bag.             *)
LEMMA ReceiptKeepsExact ==
    ASSUME NEW s, NEW t, NEW bag, NEW later, NEW open,
           Exact(s, bag), Noted(t.plink, [rows |-> s.tagxref, bag |-> bag], open),
           open = [rows |-> t.tagxref, bag |-> later],
           t.leaf = s.leaf, s.early \subseteq t.early,
           \A c \in CheckIn : Parents(s.plink, c) \subseteq Parents(t.plink, c),
           \A c \in CheckIn : Parents(t.plink, c) # Parents(s.plink, c) =>
               t.tagxref[c] # s.tagxref[c] \/ t.tagxref[c] = Nil \/ c \in t.early
    PROVE  Exact(t, later)
<1>1. bag \subseteq later
  BY DEF Noted
<1>2. \A c \in CheckIn : t.tagxref[c] # s.tagxref[c] =>
         c \in later /\ Parents(t.plink, c) \subseteq later
  BY DEF Noted
<1> QED BY <1>1, <1>2, StillExact

LEMMA CheckinKeeps ==
    ASSUME TagsAssumption, TagsIInv, NEW c \in CheckIn, ReceiveCheckin(c)
    PROVE  TagsIInv'
<1> PICK links : links =
      plink \cup (IF Parent[c] = Nil THEN {} ELSE {<<Parent[c], c, TRUE>>})
            \cup {<<p, c, FALSE>> : p \in Merged[c]}
  OBVIOUS
<1> PICK s : s = CheckinTags(links, c)
  OBVIOUS
<1>1. /\ got' = got \cup {c} /\ plink' = links /\ tagxref' = s.rows
      /\ needToCheck' = s.bag /\ leaf' = leaf /\ saved' = saved
      /\ early' = IF tagxref[c] # Nil THEN early \cup {c} ELSE early
  BY DEF ReceiveCheckin
<1>2. Now \in Work
  BY DEF TagsIInv, TagsTypeOK, Tables, State, Now, Work
<1>3. Noted(links, Now, s)
  BY <1>2, CheckinTagsNote
<1>4. s \in Work
  BY <1>3 DEF Noted
<1>5. links \subseteq CheckIn \X CheckIn \X BOOLEAN
  <2>1. plink \in SUBSET (CheckIn \X CheckIn \X BOOLEAN)
    BY DEF TagsIInv, TagsTypeOK, Tables, State
  <2>2. Parent[c] # Nil => <<Parent[c], c, TRUE>> \in CheckIn \X CheckIn \X BOOLEAN
    BY DEF TagsAssumption
  <2>3. {<<p, c, FALSE>> : p \in Merged[c]} \subseteq CheckIn \X CheckIn \X BOOLEAN
    <3>1. Merged[c] \subseteq CheckIn
      BY DEF TagsAssumption
    <3>2. \A p \in CheckIn : <<p, c, FALSE>> \in CheckIn \X CheckIn \X BOOLEAN
      OBVIOUS
    <3> QED BY <3>1, <3>2
  <2> QED BY <2>1, <2>2, <2>3
<1>6. TagsTypeOK'
  BY <1>1, <1>4, <1>5 DEF TagsIInv, TagsTypeOK, Tables, State, Work
<1>7. \A k \in CheckIn : /\ Parents(plink, k) \subseteq Parents(links, k)
                         /\ k # c => Parents(links, k) = Parents(plink, k)
  BY DEF Parents
<1>8. Exact(Tables, needToCheck)'
  <2>1. Tables.plink = plink /\ Tables.tagxref = tagxref /\ Tables.leaf = leaf /\ Tables.early = early
    BY DEF Tables
  <2>2. Tables'.plink = links /\ Tables'.tagxref = s.rows /\ Tables'.leaf = leaf /\ Tables'.early = early'
    BY <1>1 DEF Tables
  <2>3. [rows |-> Tables.tagxref, bag |-> needToCheck] = Now
    BY <2>1 DEF Now
  <2>4. s = [rows |-> Tables'.tagxref, bag |-> s.bag]
    BY <1>4, <2>2 DEF Work
  <2>5. s.rows[c] # tagxref[c] \/ s.rows[c] = Nil \/ c \in early'
    BY <1>1
  <2>6. Exact(Tables, needToCheck) /\ early \subseteq early'
    BY <1>1 DEF TagsIInv
  <2>7. PICK t : t = Tables'
    OBVIOUS
  <2>8. \A k \in CheckIn : Parents(Tables.plink, k) \subseteq Parents(t.plink, k)
    BY <1>7, <2>1, <2>2, <2>7
  <2>9. \A k \in CheckIn : Parents(t.plink, k) # Parents(Tables.plink, k) =>
           t.tagxref[k] # Tables.tagxref[k] \/ t.tagxref[k] = Nil \/ k \in t.early
    BY <1>7, <2>1, <2>2, <2>5, <2>7
  <2>10. Noted(t.plink, [rows |-> Tables.tagxref, bag |-> needToCheck], s)
    BY <1>3, <2>2, <2>3, <2>7
  <2>11. Exact(t, s.bag)
    BY <2>1, <2>2, <2>4, <2>6, <2>7, <2>8, <2>9, <2>10, ReceiptKeepsExact
  <2> QED BY <1>1, <2>7, <2>11
<1>9. Exact(saved, {})'
  BY <1>1 DEF TagsIInv
<1> QED BY <1>6, <1>8, <1>9 DEF TagsIInv

LEMMA ControlKeeps ==
    ASSUME TagsAssumption, TagsIInv, NEW u \in Control, ReceiveControl(u)
    PROVE  TagsIInv'
<1> PICK s : s = TagInsert(Now, plink, Order[u][1], Order[u][2])
  OBVIOUS
<1>1. /\ got' = got \cup {u} /\ plink' = plink /\ tagxref' = s.rows /\ early' = early
      /\ needToCheck' = s.bag /\ leaf' = leaf /\ saved' = saved
  BY DEF ReceiveControl
<1>2. Now \in Work
  BY DEF TagsIInv, TagsTypeOK, Tables, State, Now, Work
<1>3. Noted(plink, Now, s)
  <2>1. Order[u][1] \in CheckIn /\ Order[u][2] \in Tag
    BY DEF TagsAssumption
  <2> QED BY <1>2, <2>1, TagInsertNotes
<1>4. s \in Work
  BY <1>3 DEF Noted
<1>5. TagsTypeOK'
  BY <1>1, <1>4 DEF TagsIInv, TagsTypeOK, Tables, State, Work
<1>6. Exact(Tables, needToCheck)'
  <2>1. Tables.plink = plink /\ Tables.tagxref = tagxref /\ Tables.leaf = leaf /\ Tables.early = early
    BY DEF Tables
  <2>2. Tables'.plink = plink /\ Tables'.tagxref = s.rows /\ Tables'.leaf = leaf /\ Tables'.early = early
    BY <1>1 DEF Tables
  <2>3. [rows |-> Tables.tagxref, bag |-> needToCheck] = Now
    BY <2>1 DEF Now
  <2>4. s = [rows |-> Tables'.tagxref, bag |-> s.bag]
    BY <1>4, <2>2 DEF Work
  <2>5. Exact(Tables, needToCheck)
    BY DEF TagsIInv
  <2>6. PICK t : t = Tables'
    OBVIOUS
  <2>7. Exact(t, s.bag)
    BY <1>3, <2>1, <2>2, <2>3, <2>4, <2>5, <2>6, ReceiptKeepsExact
  <2> QED BY <1>1, <2>6, <2>7
<1>7. Exact(saved, {})'
  BY <1>1 DEF TagsIInv
<1> QED BY <1>5, <1>6, <1>7 DEF TagsIInv

-----------------------------------------------------------------------------
(* leaf_do_pending_checks() settles what the bag names, and the rest is    *)
(* exact already.                                                          *)
LEMMA CommitKeeps ==
    ASSUME TagsIInv, DoPendingChecks
    PROVE  TagsIInv'
<1>1. /\ got' = got /\ plink' = plink /\ tagxref' = tagxref /\ early' = early
      /\ leaf' = (leaf \ needToCheck) \cup {c \in needToCheck : IsLeaf(plink, tagxref, c)}
      /\ needToCheck' = {} /\ saved' = [Tables EXCEPT !.leaf = leaf']
  BY DEF DoPendingChecks
<1>2. TagsTypeOK'
  BY <1>1 DEF TagsIInv, TagsTypeOK, Tables, State
<1>3. Tables' = [Tables EXCEPT !.leaf = leaf']
  BY <1>1 DEF Tables
<1>4. Exact([Tables EXCEPT !.leaf = leaf'], {})
  <2>1. PICK t : t = [Tables EXCEPT !.leaf = leaf']
    OBVIOUS
  <2>2. t.plink = plink /\ t.tagxref = tagxref /\ t.early = early /\ t.leaf = leaf'
    BY <2>1 DEF Tables
  <2>3. Tables.plink = plink /\ Tables.tagxref = tagxref /\ Tables.early = early /\ Tables.leaf = leaf
    BY DEF Tables
  <2>4. ASSUME NEW c \in CheckIn, IsSettled(t, c)
        PROVE  c \in t.leaf <=> IsLeaf(t.plink, t.tagxref, c)
    <3>1. CASE c \in needToCheck
      BY <1>1, <2>2, <3>1
    <3>2. CASE c \notin needToCheck
      <4>1. IsSettled(Tables, c)
        BY <2>2, <2>3, <2>4 DEF IsSettled
      <4>2. c \in leaf <=> IsLeaf(plink, tagxref, c)
        BY <2>3, <3>2, <4>1 DEF TagsIInv, Exact
      <4> QED BY <1>1, <2>2, <3>2, <4>2
    <3> QED BY <3>1, <3>2
  <2>5. Exact(t, {})
    BY <2>4 DEF Exact
  <2> QED BY <2>1, <2>5
<1> QED BY <1>1, <1>2, <1>3, <1>4 DEF TagsIInv

LEMMA DeathKeeps ==
    ASSUME TagsIInv, Die
    PROVE  TagsIInv'
<1>1. /\ got' = saved.got /\ plink' = saved.plink /\ tagxref' = saved.tagxref
      /\ leaf' = saved.leaf /\ early' = saved.early /\ needToCheck' = {} /\ saved' = saved
  BY DEF Die
<1>2. Tables' = saved
  BY <1>1 DEF TagsIInv, TagsTypeOK, Tables, State
<1> QED BY <1>1, <1>2 DEF TagsIInv, TagsTypeOK

-----------------------------------------------------------------------------
LEMMA TagsIInvInit == ASSUME TagsInit, TagsAssumption PROVE TagsIInv
<1>1. /\ Tables = saved /\ saved.tagxref = [c \in CheckIn |-> Nil]
      /\ got = {} /\ plink = {} /\ leaf = {} /\ early = {} /\ needToCheck = {}
      /\ tagxref = [c \in CheckIn |-> Nil]
  BY DEF TagsInit, Tables
<1>2. TagsTypeOK
  BY <1>1 DEF TagsTypeOK, Tables, State
<1>3. Exact(saved, {})
  BY <1>1 DEF Exact, IsSettled
<1> QED BY <1>1, <1>2, <1>3 DEF TagsIInv

LEMMA TagsIInvNext ==
    ASSUME TagsIInv, [TagsNext]_tagsVars, TagsAssumption
    PROVE  TagsIInv'
<1>1. CASE \E c \in CheckIn : ReceiveCheckin(c)
  BY <1>1, CheckinKeeps
<1>2. CASE \E t \in Control : ReceiveControl(t)
  BY <1>2, ControlKeeps
<1>3. CASE DoPendingChecks
  BY <1>3, CommitKeeps
<1>4. CASE Die
  BY <1>4, DeathKeeps
<1>5. CASE UNCHANGED tagsVars
  <2>1. Tables' = Tables /\ needToCheck' = needToCheck /\ saved' = saved
    BY <1>5 DEF tagsVars, Tables
  <2> QED BY <2>1 DEF TagsIInv, TagsTypeOK
<1> QED BY <1>1, <1>2, <1>3, <1>4, <1>5 DEF TagsNext

(* The tables, as committed and in the open transaction, and the bag have  *)
(* their types at all times.                                               *)
THEOREM TagsTyped == ASSUME TagsAssumption PROVE TagsSpec => []TagsTypeOK
<1>1. TagsIInv => TagsTypeOK
  BY DEF TagsIInv
<1> QED BY <1>1, TagsIInvInit, TagsIInvNext, TagsAssumption, PTL DEF TagsSpec

(* leaf.c: whatever check-ins and tags come, in whatever order, and        *)
(* whichever transactions are lost, table leaf is exact at every commit.   *)
THEOREM LeavesAreExact == ASSUME TagsAssumption PROVE TagsSpec => []LeafTableExact
<1>1. TagsIInv => LeafTableExact
  BY DEF TagsIInv, Exact, LeafTableExact
<1> QED BY <1>1, TagsIInvInit, TagsIInvNext, TagsAssumption, PTL DEF TagsSpec

-----------------------------------------------------------------------------
(* The hash table of bag.c.                                                *)
(* A table of n slots.                                                     *)
Table(t, n) == n \in Nat /\ t \in [Slots(n) -> Key \cup {0, -1}]

LEMMA SizeOf ==
    ASSUME NEW n, NEW t, Table(t, n)
    PROVE  Size(t) = n /\ DOMAIN t = Slots(n)
<1>1. n \in Nat /\ DOMAIN t = Slots(n)
  BY DEF Table
<1>2. Cardinality(0 .. (n-1)) = IF 0 > n - 1 THEN 0 ELSE n - 1 - 0 + 1
  BY <1>1, FS_Interval
<1> QED BY <1>1, <1>2 DEF Size, Slots

LEMMA SlotsFinite ==
    ASSUME NEW n \in Nat, NEW S \in SUBSET Slots(n)
    PROVE  IsFiniteSet(S) /\ Cardinality(S) \in Nat /\ Cardinality(S) <= n
           /\ (Cardinality(S) = n => S = Slots(n))
<1>1. IsFiniteSet(Slots(n)) /\ Cardinality(Slots(n)) = n
  BY FS_Interval DEF Slots
<1> QED BY <1>1, FS_Subset, FS_CardinalityType

-----------------------------------------------------------------------------
(* The order in which a probe visits the slots of a table of n slots.      *)
Gap(n, e, i) == IF i >= Hash(e, n) THEN i - Hash(e, n) ELSE i + n - Hash(e, n)

LEMMA HashIs ==
    ASSUME NEW e \in Nat, NEW n \in Nat, n > 0
    PROVE  Hash(e, n) \in Slots(n)
BY DEF Hash, Slots

LEMMA GapIs ==
    ASSUME NEW e \in Nat, NEW n \in Nat, n > 0
    PROVE  /\ \A i \in Slots(n) : Gap(n, e, i) \in Slots(n)
           /\ \A i, j \in Slots(n) : Gap(n, e, i) = Gap(n, e, j) => i = j
           /\ \A i, j \in Slots(n) : Gap(n, e, i) < Gap(n, e, j) =>
                  LET nx == IF i + 1 >= n THEN 0 ELSE i + 1
                  IN  nx \in Slots(n) /\ Gap(n, e, nx) = Gap(n, e, i) + 1
<1> PICK h \in Slots(n) : h = Hash(e, n)
  BY HashIs
<1> QED BY DEF Gap, Slots

(* The loop stops at the first slot that meets its condition.              *)
LEMMA FirstSlotIs ==
    ASSUME NEW n, NEW t, Table(t, n), NEW e \in Nat, NEW S \in SUBSET Slots(n), S # {}
    PROVE  /\ FirstSlot(t, e, S) \in S
           /\ \A j \in Slots(n) : Gap(n, e, j) < Gap(n, e, FirstSlot(t, e, S)) => j \notin S
<1>1. n \in Nat /\ n > 0 /\ Size(t) = n
  <2>1. n \in Nat /\ Size(t) = n
    BY SizeOf DEF Table
  <2>2. \E i \in Slots(n) : TRUE
    OBVIOUS
  <2> QED BY <2>1, <2>2 DEF Slots
<1>2. \A i \in Slots(n) : Distance(t, e, i) = Gap(n, e, i) /\ Gap(n, e, i) \in Nat
  <2>1. \A i \in Slots(n) : Gap(n, e, i) \in Slots(n)
    BY <1>1, GapIs
  <2>2. \A k \in Slots(n) : k \in Nat
    BY DEF Slots
  <2>3. \A i : Distance(t, e, i) = Gap(n, e, i)
    BY <1>1 DEF Distance, Gap
  <2> QED BY <2>1, <2>2, <2>3
<1>3. PICK i \in S : \A j \in S : Gap(n, e, i) <= Gap(n, e, j)
  <2> DEFINE T == {Gap(n, e, i) : i \in S}
  <2>1. T \subseteq Nat /\ T # {}
    BY <1>2
  <2>2. PICK x \in T : \A y \in T : x <= y
    <3> HIDE DEF T
    <3> QED BY <2>1, Least
  <2>3. \A j \in S : Gap(n, e, j) \in T
    OBVIOUS
  <2>4. \E i \in S : x = Gap(n, e, i)
    OBVIOUS
  <2> HIDE DEF T
  <2> QED BY <2>2, <2>3, <2>4
<1>4. PICK h : h = FirstSlot(t, e, S)
  OBVIOUS
<1>5. h \in S /\ \A j \in S : Distance(t, e, h) <= Distance(t, e, j)
  <2>1. \E k \in S : \A j \in S : Distance(t, e, k) <= Distance(t, e, j)
    BY <1>2, <1>3
  <2> QED BY <1>4, <2>1 DEF FirstSlot
<1>6. \A j \in S : Gap(n, e, h) <= Gap(n, e, j) /\ Gap(n, e, h) \in Nat /\ Gap(n, e, j) \in Nat
  BY <1>2, <1>5
<1> QED BY <1>4, <1>5, <1>6

-----------------------------------------------------------------------------
(* What a table is at any time: no entry is there twice, and a probe for   *)
(* an entry meets no free slot before it.                                  *)
Once(t) == \A i, j \in LiveSlots(t) : t[i] = t[j] => i = j

Reachable(t, n) ==
    \A i \in LiveSlots(t) : \A j \in Slots(n) :
        Gap(n, t[i], j) < Gap(n, t[i], i) => t[j] # 0

Hashed(t, n) == Table(t, n) /\ Once(t) /\ Reachable(t, n)

LEMMA Entries ==
    ASSUME BagAssumption, NEW n, NEW t, Table(t, n)
    PROVE  /\ LiveSlots(t) = {i \in Slots(n) : t[i] \in Key}
           /\ UsedSlots(t) = {i \in Slots(n) : t[i] # 0}
           /\ Live(t) = {t[i] : i \in LiveSlots(t)}
           /\ Live(t) \subseteq Key
           /\ \A e \in Key : e \in Live(t) <=> \E i \in Slots(n) : t[i] = e
           /\ 0 \notin Key /\ -1 \notin Key /\ Key \subseteq Nat
           /\ \A i \in Slots(n) : t[i] \in Key \/ t[i] = 0 \/ t[i] = -1
<1>1. 0 \notin Key /\ -1 \notin Key /\ Key \subseteq Nat
  BY DEF BagAssumption
<1>2. DOMAIN t = Slots(n) /\ \A i \in Slots(n) : t[i] \in Key \cup {0, -1}
  BY DEF Table
<1>3. \A i \in Slots(n) : t[i] > 0 <=> t[i] \in Key
  <2>1. \A e \in Key : e \in Nat /\ e # 0
    BY <1>1
  <2>2. \A e \in Key \cup {0, -1} : e > 0 <=> e \in Key
    BY <1>1, <2>1
  <2> QED BY <1>2, <2>2
<1>4. LiveSlots(t) = {i \in Slots(n) : t[i] \in Key}
  BY <1>2, <1>3 DEF LiveSlots
<1>5. Live(t) = {t[i] : i \in LiveSlots(t)}
  BY <1>1, <1>2, <1>4 DEF Live
<1> QED BY <1>1, <1>2, <1>4, <1>5 DEF UsedSlots

LEMMA LiveIs ==
    ASSUME BagAssumption, NEW n, NEW t, Table(t, n)
    PROVE  \A x : x \in Live(t) <=> \E i \in LiveSlots(t) : t[i] = x
BY Entries

(* Table r is t with e in slot h.                                          *)
Wrote(r, t, n, h, e) ==
    Table(r, n) /\ r[h] = e /\ \A i \in Slots(n) \ {h} : r[i] = t[i]

LEMMA WroteIs ==
    ASSUME NEW n, NEW t, Table(t, n), NEW h \in Slots(n), NEW e \in Key \cup {0, -1}
    PROVE  Wrote([t EXCEPT ![h] = e], t, n, h, e)
BY DEF Wrote, Table

(* An element that is not there is put where its probe stops.              *)
LEMMA PutKeeps ==
    ASSUME BagAssumption, NEW n, NEW t, Hashed(t, n), NEW e \in Key, e \notin Live(t),
           NEW h \in Slots(n), t[h] \notin Key,
           \A j \in Slots(n) : Gap(n, e, j) < Gap(n, e, h) => t[j] # 0,
           NEW r, Wrote(r, t, n, h, e)
    PROVE  /\ Hashed(r, n) /\ Live(r) = Live(t) \cup {e}
           /\ LiveSlots(r) = LiveSlots(t) \cup {h} /\ h \notin LiveSlots(t)
           /\ UsedSlots(r) = UsedSlots(t) \cup {h}
<1>1. r[h] = e /\ \A i \in Slots(n) \ {h} : r[i] = t[i]
  BY DEF Wrote
<1>2. Table(t, n) /\ Table(r, n)
  BY DEF Wrote, Hashed
<1>3. /\ LiveSlots(t) = {i \in Slots(n) : t[i] \in Key}
      /\ UsedSlots(t) = {i \in Slots(n) : t[i] # 0}
      /\ Live(t) = {t[i] : i \in LiveSlots(t)}
      /\ 0 \notin Key
  BY <1>2, Entries
<1>4. /\ LiveSlots(r) = {i \in Slots(n) : r[i] \in Key}
      /\ UsedSlots(r) = {i \in Slots(n) : r[i] # 0}
  BY <1>2, Entries
<1>6. LiveSlots(r) = LiveSlots(t) \cup {h} /\ h \notin LiveSlots(t)
  BY <1>3, <1>4, <1>1
<1>7. UsedSlots(r) = UsedSlots(t) \cup {h}
  BY <1>3, <1>4, <1>1
<1>8. \A i \in LiveSlots(t) : r[i] = t[i] /\ t[i] # e /\ i \in Slots(n)
  BY <1>3, <1>1, <1>6
<1>9. Live(r) = Live(t) \cup {e}
  <2>1. /\ \A x : x \in Live(r) <=> \E i \in LiveSlots(r) : r[i] = x
        /\ \A x : x \in Live(t) <=> \E i \in LiveSlots(t) : t[i] = x
    BY <1>2, LiveIs
  <2> QED BY <1>1, <1>6, <1>8, <2>1
<1>10. Once(r)
  BY <1>1, <1>6, <1>8 DEF Once, Hashed
<1>11. Reachable(r, n)
  <2> SUFFICES ASSUME NEW i \in LiveSlots(r), NEW j \in Slots(n),
                      Gap(n, r[i], j) < Gap(n, r[i], i), r[j] = 0
               PROVE  FALSE
    BY DEF Reachable
  <2>1. j # h /\ t[j] = 0
    BY <1>3, <1>1
  <2>2. CASE i = h
    BY <1>1, <2>1, <2>2
  <2>3. CASE i # h
    BY <1>6, <1>8, <2>1, <2>3 DEF Hashed, Reachable
  <2> QED BY <2>2, <2>3
<1> QED BY <1>2, <1>6, <1>7, <1>9, <1>10, <1>11 DEF Hashed

LEMMA AsManyAsLive ==
    ASSUME BagAssumption, NEW n, NEW t, Hashed(t, n)
    PROVE  /\ IsFiniteSet(Live(t)) /\ Cardinality(Live(t)) = Cardinality(LiveSlots(t))
           /\ Cardinality(Live(t)) \in 0 .. Cardinality(Key)
<1>1. n \in Nat /\ Table(t, n)
  BY DEF Hashed, Table
<1>2. /\ LiveSlots(t) = {i \in Slots(n) : t[i] \in Key} /\ Live(t) = {t[i] : i \in LiveSlots(t)}
      /\ Live(t) \subseteq Key
  BY <1>1, Entries
<1>3. IsFiniteSet(LiveSlots(t))
  BY <1>1, <1>2, SlotsFinite
<1>4. ExistsBijection(LiveSlots(t), Live(t))
  <2> DEFINE f == [i \in LiveSlots(t) |-> t[i]]
  <2>1. f \in [LiveSlots(t) -> Live(t)]
    BY <1>2
  <2>2. \A i, j \in LiveSlots(t) : f[i] = f[j] => i = j
    BY DEF Hashed, Once
  <2>3. \A e \in Live(t) : \E i \in LiveSlots(t) : f[i] = e
    BY <1>2
  <2> HIDE DEF f
  <2>4. f \in Bijection(LiveSlots(t), Live(t))
    BY <2>1, <2>2, <2>3 DEF Bijection, Injection, IsInjective, Surjection
  <2> QED BY <2>4 DEF ExistsBijection
<1>5. IsFiniteSet(Live(t)) /\ Cardinality(Live(t)) = Cardinality(LiveSlots(t))
  BY <1>3, <1>4, FS_Bijection
<1>6. Cardinality(Live(t)) \in Nat /\ Cardinality(Key) \in Nat
      /\ Cardinality(Live(t)) <= Cardinality(Key)
  <2>1. IsFiniteSet(Key)
    BY DEF BagAssumption
  <2> QED BY <1>2, <1>5, <2>1, FS_Subset, FS_CardinalityType
<1> QED BY <1>5, <1>6

(* bag_find(): in a table with a free slot the probe ends, at the element  *)
(* if it is there and at a free slot otherwise.                            *)
LEMMA FindIs ==
    ASSUME BagAssumption, NEW n, NEW t, Hashed(t, n), NEW e \in Key,
           \E i \in Slots(n) : t[i] = 0
    PROVE  /\ FindSlot(t, e) \in Slots(n)
           /\ e \in Live(t) => t[FindSlot(t, e)] = e
           /\ e \notin Live(t) => t[FindSlot(t, e)] = 0
           /\ Contains(t, e) <=> e \in Live(t)
<1>1. Table(t, n) /\ n \in Nat /\ e \in Nat /\ e # 0
  BY Entries DEF Hashed, Table
<1>2. /\ LiveSlots(t) = {i \in Slots(n) : t[i] \in Key}
      /\ e \in Live(t) <=> \E i \in Slots(n) : t[i] = e
  BY <1>1, Entries
<1>3. DOMAIN t = Slots(n) /\ Size(t) = n /\ n > 0
  <2>1. DOMAIN t = Slots(n) /\ Size(t) = n
    BY <1>1, SizeOf
  <2> QED BY <1>1, <2>1 DEF Slots
<1> DEFINE S == {i \in Slots(n) : t[i] \in {0, e}}
<1>4. S \in SUBSET Slots(n) /\ S # {}
  OBVIOUS
<1> PICK h : h = FirstSlot(t, e, S)
  OBVIOUS
<1>5. FindSlot(t, e) = h
  BY <1>3 DEF FindSlot
<1>6. h \in S /\ \A j \in Slots(n) : Gap(n, e, j) < Gap(n, e, h) => j \notin S
  <2> HIDE DEF S
  <2> QED BY <1>1, <1>4, FirstSlotIs
<1>7. ASSUME e \in Live(t) PROVE t[h] = e
  <2> PICK i \in Slots(n) : t[i] = e
    BY <1>2, <1>7
  <2>1. ~ (Gap(n, e, i) < Gap(n, e, h))
    BY <1>6
  <2>2. Gap(n, e, i) = Gap(n, e, h) => i = h
    BY <1>1, <1>3, <1>6, GapIs
  <2>3. Gap(n, e, h) < Gap(n, e, i) => t[h] # 0
    BY <1>2, <1>6 DEF Hashed, Reachable
  <2>4. Gap(n, e, i) \in Nat /\ Gap(n, e, h) \in Nat
    <3>1. Gap(n, e, i) \in Slots(n) /\ Gap(n, e, h) \in Slots(n)
      BY <1>1, <1>3, <1>6, GapIs
    <3> QED BY <3>1 DEF Slots
  <2> QED BY <1>6, <2>1, <2>2, <2>3, <2>4
<1>8. e \notin Live(t) => t[h] = 0
  BY <1>2, <1>6
<1> QED BY <1>1, <1>3, <1>5, <1>6, <1>7, <1>8 DEF Contains

-----------------------------------------------------------------------------
(* A function on 0 .. N whose value at n is made from the value at n-1.    *)
InSteps(f, N, b, g) == f = [n \in 0 .. N |-> IF n = 0 THEN b ELSE g[n][f[n-1]]]

LEMMA Steps ==
    ASSUME NEW N \in Nat, NEW X, NEW b \in X, NEW g \in [1 .. N -> [X -> X]]
    PROVE  \E f \in [0 .. N -> X] : InSteps(f, N, b, g)
<1> DEFINE ValueAt(f, n) == IF n = 0 THEN b ELSE g[n][f[n-1]]
           Upto(m) == \E f \in [0 .. m -> X] : \A n \in 0 .. m : f[n] = ValueAt(f, n)
           B == {m \in 0 .. N : ~Upto(m)}
<1>1. ASSUME B # {} PROVE FALSE
  <2>1. PICK m \in B : \A k \in B : m <= k
    <3>1. B \subseteq Nat
      OBVIOUS
    <3> HIDE DEF B
    <3> QED BY <1>1, <3>1, Least
  <2>2. m \in 0 .. N /\ ~Upto(m)
    OBVIOUS
  <2>3. CASE m = 0
    <3> DEFINE f == [n \in 0 .. 0 |-> b]
    <3>1. f \in [0 .. 0 -> X] /\ \A n \in 0 .. 0 : f[n] = ValueAt(f, n)
      OBVIOUS
    <3>2. Upto(0)
      BY <3>1
    <3> QED BY <2>2, <2>3, <3>2
  <2>4. CASE m # 0
    <3>1. m - 1 \in 0 .. N /\ m - 1 \notin B
      <4>1. m \in Nat /\ m - 1 \in 0 .. N /\ ~ (m <= m - 1)
        BY <2>2, <2>4
      <4> HIDE DEF B
      <4> QED BY <2>1, <4>1
    <3>2. PICK f \in [0 .. m-1 -> X] : \A n \in 0 .. m-1 : f[n] = ValueAt(f, n)
      BY <3>1
    <3> DEFINE h == [n \in 0 .. m |-> IF n = m THEN g[m][f[m-1]] ELSE f[n]]
    <3>3. m - 1 \in 0 .. m-1 /\ f[m-1] \in X /\ m \in 1 .. N
      BY <2>2, <2>4, <3>1
    <3>4. \A n \in 0 .. m : n # m => n \in 0 .. m-1 /\ h[n] = f[n]
      BY <2>2
    <3>5. h[m] = g[m][f[m-1]] /\ g[m][f[m-1]] \in X
      <4>1. g[m] \in [X -> X]
        BY <3>3
      <4> QED BY <2>2, <3>3, <4>1
    <3>6. ASSUME NEW n \in 0 .. m PROVE h[n] = ValueAt(h, n) /\ h[n] \in X
      <4>1. CASE n = m
        <5>1. h[m-1] = f[m-1]
          BY <2>2, <2>4, <3>4
        <5> HIDE DEF h
        <5> QED BY <2>4, <3>5, <4>1, <5>1
      <4>2. CASE n # m
        <5>1. h[n] = f[n] /\ f[n] \in X /\ f[n] = ValueAt(f, n)
          BY <3>2, <3>4, <4>2
        <5>2. n # 0 => h[n-1] = f[n-1]
          BY <2>2, <3>4, <4>2
        <5> HIDE DEF h
        <5> QED BY <5>1, <5>2
      <4> QED BY <4>1, <4>2
    <3>7. h \in [0 .. m -> X]
      BY <3>6
    <3>8. Upto(m)
      <4> HIDE DEF h
      <4> QED BY <3>6, <3>7
    <3> QED BY <2>2, <3>8
  <2> QED BY <2>3, <2>4
<1>2. Upto(N)
  <2> HIDE DEF Upto
  <2> QED BY <1>1
<1>3. PICK f \in [0 .. N -> X] : \A n \in 0 .. N : f[n] = ValueAt(f, n)
  BY <1>2
<1> QED BY <1>3 DEF InSteps

(* One turn of the loop of bag_resize(), and what it has done after i.     *)
Rehashed(t, q, i) ==
    IF t[i-1] <= 0 THEN q ELSE [q EXCEPT ![FreeSlot(q, t[i-1])] = t[i-1]]

Moved(t, q, m, i) ==
    /\ Hashed(q, m)
    /\ \A j \in Slots(m) : q[j] # -1
    /\ \A x : x \in Live(q) <=> \E k \in LiveSlots(t) : k < i /\ t[k] = x

LEMMA FreeSlotLeft ==
    ASSUME BagAssumption, NEW n, NEW t, Hashed(t, n),
           NEW m \in Nat, Cardinality(LiveSlots(t)) < m,
           NEW q, Hashed(q, m), Live(q) \subseteq Live(t), \A j \in Slots(m) : q[j] # -1
    PROVE  \E j \in Slots(m) : q[j] = 0
<1> SUFFICES ASSUME \A j \in Slots(m) : q[j] # 0 PROVE FALSE
  OBVIOUS
<1>1. Table(q, m) /\ Table(t, n) /\ n \in Nat
  BY DEF Hashed, Table
<1>2. LiveSlots(q) = Slots(m)
  <2>1. LiveSlots(q) = {i \in Slots(m) : q[i] \in Key}
        /\ \A i \in Slots(m) : q[i] \in Key \/ q[i] = 0 \/ q[i] = -1
    BY <1>1, Entries
  <2> QED BY <2>1
<1>3. Cardinality(LiveSlots(q)) = m
  BY <1>2, FS_Interval DEF Slots
<1>4. Cardinality(Live(q)) = Cardinality(LiveSlots(q))
  BY AsManyAsLive
<1>5. Cardinality(Live(t)) = Cardinality(LiveSlots(t)) /\ IsFiniteSet(Live(t))
  BY AsManyAsLive
<1>6. Cardinality(Live(q)) <= Cardinality(Live(t)) /\ Cardinality(Live(t)) \in Nat
  BY <1>5, FS_Subset, FS_CardinalityType
<1> QED BY <1>3, <1>4, <1>5, <1>6

LEMMA RehashMoves ==
    ASSUME BagAssumption, NEW n, NEW t, Hashed(t, n),
           NEW m \in Nat, Cardinality(LiveSlots(t)) < m,
           NEW i \in 1 .. n, NEW q, Moved(t, q, m, i - 1)
    PROVE  Moved(t, Rehashed(t, q, i), m, i)
<1>1. Table(t, n) /\ n \in Nat /\ Hashed(q, m) /\ Table(q, m) /\ i - 1 \in Slots(n)
  BY DEF Hashed, Table, Moved, Slots
<1>2. /\ LiveSlots(t) = {k \in Slots(n) : t[k] \in Key} /\ 0 \notin Key /\ -1 \notin Key
      /\ Key \subseteq Nat /\ \A k \in Slots(n) : t[k] \in Key \/ t[k] = 0 \/ t[k] = -1
  BY <1>1, Entries
<1>3. \A x : x \in Live(q) <=> \E k \in LiveSlots(t) : k < i - 1 /\ t[k] = x
  BY DEF Moved
<1>4. \A k \in LiveSlots(t) : k < i <=> k < i - 1 \/ k = i - 1
  BY <1>1, <1>2 DEF Slots
<1>5. CASE t[i-1] \notin Key
  <2>1. Rehashed(t, q, i) = q
    BY <1>1, <1>2, <1>5 DEF Rehashed
  <2>2. \A k \in LiveSlots(t) : k < i <=> k < i - 1
    BY <1>2, <1>4, <1>5
  <2>3. Moved(t, q, m, i)
    BY <1>3, <2>2 DEF Moved
  <2> QED BY <2>1, <2>3
<1>6. ASSUME NEW e \in Key, e \notin Live(q), NEW h \in Slots(m), q[h] \notin Key,
             \A j \in Slots(m) : Gap(m, e, j) < Gap(m, e, h) => q[j] # 0,
             NEW r, Wrote(r, q, m, h, e)
      PROVE  Hashed(r, m) /\ Live(r) = Live(q) \cup {e}
  <2>1. Hashed(q, m)
    BY <1>1
  <2> QED BY <1>6, <2>1, PutKeeps
<1>7. CASE t[i-1] \in Key
  <2> PICK e \in Key : e = t[i-1]
    BY <1>7
  <2>1. i - 1 \in LiveSlots(t) /\ e > 0
    <3>1. \A x \in Nat : x # 0 => x > 0
      OBVIOUS
    <3>2. e \in Nat /\ e # 0
      BY <1>2
    <3> QED BY <1>1, <1>2, <1>7, <3>1, <3>2
  <2>2. e \notin Live(q)
    <3> SUFFICES ASSUME NEW k \in LiveSlots(t), k < i - 1, t[k] = e PROVE FALSE
      BY <1>3
    <3>1. k = i - 1
      BY <2>1 DEF Hashed, Once
    <3>2. i - 1 \in Nat
      BY <1>1 DEF Slots
    <3> QED BY <3>1, <3>2
  <2>3. Live(q) \subseteq Live(t)
    <3>1. \A x : x \in Live(t) <=> \E k \in LiveSlots(t) : t[k] = x
      BY <1>1, LiveIs
    <3> QED BY <1>3, <3>1
  <2>4. \E j \in Slots(m) : q[j] = 0
    <3>1. \A j \in Slots(m) : q[j] # -1
      BY DEF Moved
    <3> QED BY <1>1, <2>3, <3>1, FreeSlotLeft
  <2> DEFINE S == {j \in Slots(m) : q[j] = 0}
  <2> PICK h : h = FirstSlot(q, e, S)
    OBVIOUS
  <2>5. FreeSlot(q, e) = h
    <3>1. DOMAIN q = Slots(m)
      BY <1>1, SizeOf
    <3> QED BY <3>1 DEF FreeSlot
  <2>6. h \in S /\ \A j \in Slots(m) : Gap(m, e, j) < Gap(m, e, h) => j \notin S
    <3>1. S \in SUBSET Slots(m) /\ S # {} /\ e \in Nat
      BY <1>2, <2>4
    <3> HIDE DEF S
    <3> QED BY <1>1, <3>1, FirstSlotIs
  <2>7. h \in Slots(m) /\ q[h] \notin Key
        /\ \A j \in Slots(m) : Gap(m, e, j) < Gap(m, e, h) => q[j] # 0
    BY <1>2, <2>6
  <2> PICK r : r = [q EXCEPT ![h] = e]
    OBVIOUS
  <2>8. Rehashed(t, q, i) = r
    <3>1. ~ (t[i-1] <= 0)
      BY <1>2, <2>1
    <3>2. Rehashed(t, q, i) = [q EXCEPT ![FreeSlot(q, t[i-1])] = t[i-1]]
      BY <3>1 DEF Rehashed
    <3> QED BY <2>5, <3>2
  <2>9. Wrote(r, q, m, h, e)
    BY <1>1, <2>7, WroteIs
  <2>10. Hashed(r, m) /\ Live(r) = Live(q) \cup {e}
    <3>1. Hashed(q, m) /\ h \in Slots(m) /\ q[h] \notin Key
      BY <1>1, <2>7
    <3>2. \A j \in Slots(m) : Gap(m, e, j) < Gap(m, e, h) => q[j] # 0
      BY <2>7
    <3> HIDE DEF S
    <3> QED BY <1>6, <2>2, <2>9, <3>1, <3>2
  <2>11. \A j \in Slots(m) : r[j] # -1
    <3>1. \A j \in Slots(m) : q[j] # -1
      BY DEF Moved
    <3>2. r[h] = e /\ \A j \in Slots(m) \ {h} : r[j] = q[j]
      BY <2>9 DEF Wrote
    <3> QED BY <1>2, <3>1, <3>2
  <2>12. \A x : x \in Live(r) <=> \E k \in LiveSlots(t) : k < i /\ t[k] = x
    <3>1. \A x : x \in Live(r) <=> x \in Live(q) \/ x = e
      BY <2>10
    <3>2. \A x : x \in Live(r) <=> (\E k \in LiveSlots(t) : k < i - 1 /\ t[k] = x) \/ x = t[i-1]
      BY <1>3, <3>1
    <3> QED BY <1>4, <2>1, <3>2
  <2>13. Moved(t, r, m, i)
    BY <2>10, <2>11, <2>12 DEF Moved
  <2> QED BY <2>8, <2>13
<1> QED BY <1>5, <1>7

LEMMA EmptyIs ==
    ASSUME BagAssumption, NEW n \in Nat
    PROVE  /\ Hashed(Zeroed(n), n) /\ Live(Zeroed(n)) = {}
           /\ LiveSlots(Zeroed(n)) = {} /\ UsedSlots(Zeroed(n)) = {}
           /\ \A j \in Slots(n) : Zeroed(n)[j] = 0
<1> PICK z : z = Zeroed(n)
  OBVIOUS
<1>1. z \in [Slots(n) -> Key \cup {0, -1}] /\ \A j \in Slots(n) : z[j] = 0
  BY DEF Zeroed
<1>2. Table(z, n)
  BY <1>1 DEF Table
<1>3. LiveSlots(z) = {} /\ UsedSlots(z) = {}
  BY <1>1 DEF LiveSlots, UsedSlots
<1>4. Live(z) = {}
  BY <1>2, <1>3, LiveIs
<1>5. Hashed(z, n)
  BY <1>2, <1>3 DEF Hashed, Once, Reachable
<1> QED BY <1>1, <1>3, <1>4, <1>5

(* bag_resize() puts all entries, and nothing else, into the new table.    *)
LEMMA ResizeMoves ==
    ASSUME BagAssumption, NEW n, NEW t, Hashed(t, n),
           NEW m \in Nat, Cardinality(LiveSlots(t)) < m
    PROVE  Moved(t, Resize(t, m), m, n)
<1> DEFINE X == [Slots(m) -> Key \cup {0, -1}]
           g == [i \in 1 .. n |-> [q \in X |-> Rehashed(t, q, i)]]
           Turns(f) == [i \in 0 .. n |-> IF i = 0 THEN Zeroed(m) ELSE Rehashed(t, f[i-1], i)]
           moved == CHOOSE f : f = Turns(f)
<1>1. Table(t, n) /\ n \in Nat /\ Size(t) = n
  BY SizeOf DEF Hashed, Table
<1>2. Resize(t, m) = moved[n]
  BY <1>1 DEF Resize, Rehashed
<1>3. Zeroed(m) \in X
  BY DEF Zeroed
<1>4. ASSUME NEW i \in 1 .. n, NEW q \in X PROVE Rehashed(t, q, i) \in X
  <2>1. i - 1 \in Slots(n)
    BY <1>1 DEF Slots
  <2>2. t[i-1] \in Key \cup {0, -1}
    BY <1>1, <2>1 DEF Table
  <2> QED BY <2>2 DEF Rehashed
<1> HIDE DEF X
<1>5. g \in [1 .. n -> [X -> X]]
  BY <1>4
<1>6. PICK f \in [0 .. n -> X] : InSteps(f, n, Zeroed(m), g)
  <2> HIDE DEF g
  <2> QED BY <1>1, <1>3, <1>5, Steps
<1>7. f = Turns(f)
  <2>1. \A i \in 0 .. n : i # 0 => i \in 1 .. n /\ f[i-1] \in X
    BY <1>1
  <2>2. ASSUME NEW i \in 0 .. n PROVE f[i] = IF i = 0 THEN Zeroed(m) ELSE Rehashed(t, f[i-1], i)
    <3>1. f[i] = IF i = 0 THEN Zeroed(m) ELSE g[i][f[i-1]]
      <4> HIDE DEF g
      <4> QED BY <1>6 DEF InSteps
    <3>2. i # 0 => g[i][f[i-1]] = Rehashed(t, f[i-1], i)
      BY <2>1
    <3> QED BY <3>1, <3>2
  <2> HIDE DEF g
  <2> QED BY <1>6, <2>2 DEF InSteps
<1>8. moved = Turns(moved)
  <2> HIDE DEF Turns
  <2> QED BY <1>7
<1> HIDE DEF moved
<1>9. moved[0] = Zeroed(m) /\ \A i \in 1 .. n : moved[i] = Rehashed(t, moved[i-1], i)
  BY <1>1, <1>8
<1>10. Moved(t, moved[0], m, 0)
  <2>1. \A k \in LiveSlots(t) : ~ (k < 0)
    <3>1. LiveSlots(t) \subseteq Slots(n)
      BY <1>1 DEF LiveSlots, Table
    <3> QED BY <3>1 DEF Slots
  <2>2. 0 # -1
    OBVIOUS
  <2> QED BY <1>9, <2>1, <2>2, EmptyIs DEF Moved
<1>11. \A i \in 1 .. n : Moved(t, moved[i-1], m, i-1) => Moved(t, moved[i], m, i)
  <2> TAKE i \in 1 .. n
  <2> HAVE Moved(t, moved[i-1], m, i-1)
  <2> PICK q : q = moved[i-1]
    OBVIOUS
  <2>1. Moved(t, Rehashed(t, q, i), m, i)
    BY RehashMoves
  <2> QED BY <1>9, <2>1
<1>12. Moved(t, moved[n], m, n)
  <2> SUFFICES ASSUME ~Moved(t, moved[n], m, n) PROVE FALSE
    OBVIOUS
  <2> DEFINE B == {i \in 0 .. n : ~Moved(t, moved[i], m, i)}
  <2>1. B \subseteq Nat /\ n \in B
    BY <1>1
  <2>2. PICK i \in B : \A k \in B : i <= k
    <3> HIDE DEF B
    <3> QED BY <2>1, Least
  <2>3. i \in 1 .. n /\ i - 1 \in 0 .. n /\ ~ (i <= i - 1)
    BY <1>1, <1>10
  <2>4. Moved(t, moved[i-1], m, i-1)
    BY <2>2, <2>3
  <2> QED BY <1>11, <2>3, <2>4
<1> QED BY <1>2, <1>12

LEMMA ResizeIs ==
    ASSUME BagAssumption, NEW n, NEW t, Hashed(t, n),
           NEW m \in Nat, Cardinality(LiveSlots(t)) < m
    PROVE  /\ Hashed(Resize(t, m), m) /\ Live(Resize(t, m)) = Live(t)
           /\ UsedSlots(Resize(t, m)) = LiveSlots(Resize(t, m))
           /\ Cardinality(LiveSlots(Resize(t, m))) = Cardinality(LiveSlots(t))
<1>1. PICK q : q = Resize(t, m)
  OBVIOUS
<1>2. Moved(t, q, m, n)
  BY <1>1, ResizeMoves
<1>3. Hashed(q, m) /\ Table(q, m) /\ Table(t, n) /\ n \in Nat
  BY <1>2 DEF Moved, Hashed, Table
<1>4. Live(q) = Live(t)
  <2>1. \A k \in LiveSlots(t) : k < n
    <3>1. LiveSlots(t) \subseteq Slots(n)
      BY <1>3 DEF LiveSlots, Table
    <3> QED BY <1>3, <3>1 DEF Slots
  <2>2. \A x : x \in Live(t) <=> \E k \in LiveSlots(t) : t[k] = x
    BY <1>3, LiveIs
  <2>3. \A x : x \in Live(q) <=> \E k \in LiveSlots(t) : k < n /\ t[k] = x
    BY <1>2 DEF Moved
  <2> QED BY <2>1, <2>2, <2>3
<1>5. UsedSlots(q) = LiveSlots(q)
  <2>1. /\ LiveSlots(q) = {j \in Slots(m) : q[j] \in Key}
        /\ UsedSlots(q) = {j \in Slots(m) : q[j] # 0}
        /\ 0 \notin Key /\ \A j \in Slots(m) : q[j] \in Key \/ q[j] = 0 \/ q[j] = -1
    BY <1>3, Entries
  <2>2. \A j \in Slots(m) : q[j] # -1
    BY <1>2 DEF Moved
  <2> QED BY <2>1, <2>2
<1>6. Cardinality(LiveSlots(q)) = Cardinality(LiveSlots(t))
  <2>1. Cardinality(Live(q)) = Cardinality(LiveSlots(q))
    BY <1>3, AsManyAsLive
  <2>2. Cardinality(Live(t)) = Cardinality(LiveSlots(t))
    BY AsManyAsLive
  <2> QED BY <1>4, <2>1, <2>2
<1> QED BY <1>1, <1>3, <1>4, <1>5, <1>6

-----------------------------------------------------------------------------
(* A table of which not all slots are used has a free one.                 *)
LEMMA ZeroLeft ==
    ASSUME BagAssumption, NEW n, NEW t, Hashed(t, n), Cardinality(UsedSlots(t)) < n
    PROVE  \E j \in Slots(n) : t[j] = 0
<1>1. Table(t, n) /\ n \in Nat
  BY DEF Hashed, Table
<1>2. UsedSlots(t) = {i \in Slots(n) : t[i] # 0}
  BY <1>1, Entries
<1>3. Cardinality(Slots(n)) = n
  BY <1>1, FS_Interval DEF Slots
<1>4. UsedSlots(t) # Slots(n)
  BY <1>1, <1>3
<1> QED BY <1>2, <1>4

LEMMA CountsOf ==
    ASSUME BagAssumption, NEW n, NEW t, Hashed(t, n)
    PROVE  /\ IsFiniteSet(LiveSlots(t)) /\ IsFiniteSet(UsedSlots(t))
           /\ Cardinality(LiveSlots(t)) \in Nat /\ Cardinality(UsedSlots(t)) \in Nat
           /\ Cardinality(LiveSlots(t)) <= Cardinality(UsedSlots(t))
           /\ Cardinality(UsedSlots(t)) <= n
           /\ Cardinality(LiveSlots(t)) = Cardinality(UsedSlots(t)) => LiveSlots(t) = UsedSlots(t)
<1>1. Table(t, n) /\ n \in Nat
  BY DEF Hashed, Table
<1>2. LiveSlots(t) \in SUBSET UsedSlots(t) /\ UsedSlots(t) \in SUBSET Slots(n)
      /\ LiveSlots(t) \in SUBSET Slots(n)
  <2>1. /\ LiveSlots(t) = {i \in Slots(n) : t[i] \in Key}
        /\ UsedSlots(t) = {i \in Slots(n) : t[i] # 0} /\ 0 \notin Key
    BY <1>1, Entries
  <2> QED BY <2>1
<1>3. IsFiniteSet(UsedSlots(t)) /\ Cardinality(UsedSlots(t)) <= n /\ IsFiniteSet(LiveSlots(t))
      /\ Cardinality(LiveSlots(t)) \in Nat /\ Cardinality(UsedSlots(t)) \in Nat
  BY <1>1, <1>2, SlotsFinite
<1>4. /\ Cardinality(LiveSlots(t)) <= Cardinality(UsedSlots(t))
      /\ Cardinality(UsedSlots(t)) = Cardinality(LiveSlots(t)) => UsedSlots(t) = LiveSlots(t)
  BY <1>2, <1>3, FS_Subset
<1> QED BY <1>3, <1>4

(* bag_insert(): the probe stops where the element may be put, or at the   *)
(* element, unless a mark of a deletion comes first.                       *)
LEMMA InsertSlotIs ==
    ASSUME BagAssumption, NEW n, NEW t, Hashed(t, n), NEW e \in Key,
           \E i \in Slots(n) : t[i] = 0
    PROVE  /\ e \notin Live(t) =>
                /\ InsertSlot(t, e) \in Slots(n) /\ t[InsertSlot(t, e)] \notin Key
                /\ \A j \in Slots(n) : Gap(n, e, j) < Gap(n, e, InsertSlot(t, e)) => t[j] # 0
           /\ e \in Live(t) /\ UsedSlots(t) = LiveSlots(t) => t[InsertSlot(t, e)] = e
<1>1. Table(t, n) /\ e \in Nat /\ DOMAIN t = Slots(n)
  <2>1. Table(t, n)
    BY DEF Hashed
  <2> QED BY <2>1, Entries, SizeOf
<1>2. /\ LiveSlots(t) = {i \in Slots(n) : t[i] \in Key}
      /\ UsedSlots(t) = {i \in Slots(n) : t[i] # 0}
      /\ e \in Live(t) <=> \E i \in Slots(n) : t[i] = e
      /\ 0 \notin Key /\ -1 \notin Key /\ Key \subseteq Nat
      /\ \A i \in Slots(n) : t[i] \in Key \/ t[i] = 0 \/ t[i] = -1
  BY <1>1, Entries
<1>3. \A i \in Slots(n) : t[i] <= 0 <=> t[i] \notin Key
  <2>1. \A x \in Nat : x # 0 => ~ (x <= 0)
    OBVIOUS
  <2>2. \A x \in Key : ~ (x <= 0)
    BY <1>2, <2>1
  <2>3. 0 <= 0 /\ -1 <= 0
    OBVIOUS
  <2> QED BY <1>2, <2>2, <2>3
<1> DEFINE S == {i \in Slots(n) : t[i] <= 0 \/ t[i] = e}
<1>4. InsertSlot(t, e) = FirstSlot(t, e, S)
  BY <1>1 DEF InsertSlot
<1>5. ASSUME e \notin Live(t)
      PROVE  /\ InsertSlot(t, e) \in Slots(n) /\ t[InsertSlot(t, e)] \notin Key
             /\ \A j \in Slots(n) : Gap(n, e, j) < Gap(n, e, InsertSlot(t, e)) => t[j] # 0
  <2>1. S \in SUBSET Slots(n) /\ S # {}
    <3>1. 0 <= 0
      OBVIOUS
    <3> QED BY <3>1
  <2> PICK h : h = InsertSlot(t, e)
    OBVIOUS
  <2>2. h \in S /\ \A j \in Slots(n) : Gap(n, e, j) < Gap(n, e, h) => j \notin S
    <3> HIDE DEF S
    <3> QED BY <1>1, <1>4, <2>1, FirstSlotIs
  <2>3. h \in Slots(n) /\ t[h] \notin Key
    BY <1>2, <1>3, <1>5, <2>2
  <2>4. ASSUME NEW j \in Slots(n), j \notin S PROVE t[j] # 0
    BY <1>2, <1>3, <2>4
  <2> QED
    <3> HIDE DEF S
    <3> QED BY <2>2, <2>3, <2>4
<1>6. ASSUME e \in Live(t), UsedSlots(t) = LiveSlots(t)
      PROVE  t[InsertSlot(t, e)] = e
  <2>1. \A i \in Slots(n) : t[i] <= 0 <=> t[i] = 0
    BY <1>2, <1>3, <1>6
  <2>2. S = {i \in Slots(n) : t[i] \in {0, e}}
    BY <2>1
  <2>3. InsertSlot(t, e) = FindSlot(t, e)
    BY <1>1, <1>4, <2>2 DEF FindSlot
  <2> QED BY <1>6, <2>3, FindIs
<1> QED BY <1>5, <1>6

(* bag_remove(): a mark, or nothing if the next slot is free, takes the    *)
(* place of an entry; no probe for another one ended there.                *)
Took(r, t, n, h, e, x) ==
    /\ Hashed(r, n) /\ Live(r) = Live(t) \ {e}
    /\ LiveSlots(r) = LiveSlots(t) \ {h} /\ h \in LiveSlots(t)
    /\ UsedSlots(r) = IF x = 0 THEN UsedSlots(t) \ {h} ELSE UsedSlots(t)
    /\ h \in UsedSlots(t)

LEMMA TakeKeeps ==
    ASSUME BagAssumption, NEW n, NEW t, Hashed(t, n), NEW h \in Slots(n), NEW e \in Key, t[h] = e,
           NEW x \in {0, -1},
           x = 0 => t[IF h + 1 >= n THEN 0 ELSE h + 1] = 0,
           NEW r, Wrote(r, t, n, h, x)
    PROVE  Took(r, t, n, h, e, x)
<1>1. r[h] = x /\ \A i \in Slots(n) \ {h} : r[i] = t[i]
  BY DEF Wrote
<1>2. Table(t, n) /\ Table(r, n) /\ n \in Nat
  BY DEF Wrote, Hashed, Table
<1>3. /\ LiveSlots(t) = {i \in Slots(n) : t[i] \in Key}
      /\ UsedSlots(t) = {i \in Slots(n) : t[i] # 0}
      /\ 0 \notin Key /\ -1 \notin Key /\ Key \subseteq Nat
  BY <1>2, Entries
<1>4. /\ LiveSlots(r) = {i \in Slots(n) : r[i] \in Key}
      /\ UsedSlots(r) = {i \in Slots(n) : r[i] # 0}
  BY <1>2, Entries
<1>5. LiveSlots(r) = LiveSlots(t) \ {h} /\ h \in LiveSlots(t)
  BY <1>1, <1>3, <1>4
<1>6. UsedSlots(r) = (IF x = 0 THEN UsedSlots(t) \ {h} ELSE UsedSlots(t)) /\ h \in UsedSlots(t)
  <2>1. -1 # 0
    OBVIOUS
  <2>2. h \in UsedSlots(t)
    BY <1>3
  <2>3. CASE x = 0
    BY <1>1, <1>3, <1>4, <2>3
  <2>4. CASE x = -1
    BY <1>1, <1>3, <1>4, <2>1, <2>2, <2>4
  <2> QED BY <2>2, <2>3, <2>4
<1>7. Once(r)
  BY <1>1, <1>3, <1>5 DEF Once, Hashed
<1>8. Live(r) = Live(t) \ {e}
  <2>1. \A y : y \in Live(r) <=> \E i \in LiveSlots(r) : r[i] = y
    BY <1>2, LiveIs
  <2>2. \A y : y \in Live(t) <=> \E i \in LiveSlots(t) : t[i] = y
    BY <1>2, LiveIs
  <2>3. \A i \in LiveSlots(r) : i \in LiveSlots(t) /\ r[i] = t[i] /\ t[i] # e
    BY <1>1, <1>3, <1>5 DEF Once, Hashed
  <2>4. \A i \in LiveSlots(t) : t[i] # e => i \in LiveSlots(r)
    BY <1>5
  <2> QED BY <2>1, <2>2, <2>3, <2>4
<1>9. Reachable(r, n)
  <2> SUFFICES ASSUME NEW i \in LiveSlots(r), NEW j \in Slots(n),
                      Gap(n, r[i], j) < Gap(n, r[i], i), r[j] = 0
               PROVE  FALSE
    BY DEF Reachable
  <2> PICK k \in Key : k = t[i]
    BY <1>3, <1>5
  <2>1. i \in LiveSlots(t) /\ r[i] = k /\ i \in Slots(n)
    BY <1>1, <1>3, <1>5
  <2>2. \A l \in Slots(n) : Gap(n, k, l) < Gap(n, k, i) => t[l] # 0
    BY <2>1 DEF Hashed, Reachable
  <2>3. j = h /\ x = 0
    BY <1>1, <2>1, <2>2
  <2> PICK nx : nx = IF h + 1 >= n THEN 0 ELSE h + 1
    OBVIOUS
  <2>4. n > 0 /\ k \in Nat
    BY <1>2, <1>3 DEF Slots
  <2>5. nx \in Slots(n) /\ Gap(n, k, nx) = Gap(n, k, h) + 1
    BY <1>2, <2>1, <2>3, <2>4, GapIs
  <2>6. t[nx] = 0
    BY <2>3
  <2>7. Gap(n, k, i) \in Slots(n) /\ Gap(n, k, h) \in Slots(n)
    BY <1>2, <2>1, <2>4, GapIs
  <2>8. ~ (Gap(n, k, nx) < Gap(n, k, i))
    BY <2>2, <2>5, <2>6
  <2>9. Gap(n, k, nx) = Gap(n, k, i)
    BY <2>1, <2>3, <2>5, <2>7, <2>8 DEF Slots
  <2>10. nx = i
    BY <1>2, <2>1, <2>4, <2>5, <2>9, GapIs
  <2> QED BY <1>3, <2>1, <2>6, <2>10
<1> QED BY <1>2, <1>5, <1>6, <1>7, <1>8, <1>9 DEF Took, Hashed

-----------------------------------------------------------------------------
(* The inductive invariant.  Without Reachable an element that is there    *)
(* need not be found; without the counters no slot need be free.           *)
BagIInv ==
    /\ Hashed(a, Size(a)) /\ CountersExact /\ ProbesEnd
    /\ reply \in 0 .. Cardinality(Key)

(* The table in the state is t, with n slots; the counters are right.      *)
Holds(t, n, c, u) ==
    /\ Hashed(t, n) /\ n \in Nat
    /\ c = Cardinality(LiveSlots(t)) /\ u = Cardinality(UsedSlots(t))
    /\ n > 0 => \E i \in Slots(n) : t[i] = 0

LEMMA HoldsNow == ASSUME BagIInv PROVE Holds(a, Size(a), cnt, used)
<1>1. DOMAIN a = Slots(Size(a)) /\ Size(a) \in Nat
  BY DEF BagIInv, Hashed, Table
<1> QED BY <1>1 DEF BagIInv, CountersExact, ProbesEnd, Holds

LEMMA HoldsThen ==
    ASSUME NEW n, Holds(a', n, cnt', used'), reply' \in 0 .. Cardinality(Key)
    PROVE  BagIInv'
<1> PICK t : t = a'
  OBVIOUS
<1>1. Size(t) = n /\ DOMAIN t = Slots(n)
  <2>1. Table(t, n)
    BY DEF Holds, Hashed
  <2> QED BY <2>1, SizeOf
<1>2. Holds(t, n, cnt', used')
  OBVIOUS
<1>3. Hashed(a', Size(a'))
  BY <1>1, <1>2 DEF Holds
<1>4. CountersExact'
  BY <1>2 DEF CountersExact, Holds
<1>5. ProbesEnd'
  BY <1>1, <1>2 DEF ProbesEnd, Holds
<1> QED BY <1>3, <1>4, <1>5 DEF BagIInv

LEMMA SomeReply == ASSUME BagAssumption, NEW e \in Key PROVE {0, 1} \subseteq 0 .. Cardinality(Key)
<1>1. IsFiniteSet(Key) /\ Key # {}
  BY DEF BagAssumption
<1>2. Cardinality(Key) \in Nat /\ Cardinality(Key) # 0
  BY <1>1, FS_CardinalityType, FS_EmptySet
<1> QED BY <1>2

(* The first part of bag_insert(): after it there is room.                 *)
LEMMA RoomMade ==
    ASSUME BagAssumption, BagIInv,
           NEW t, t = IF MustGrow(a, cnt, used) THEN Resize(a, 2 * Size(a) + Growth) ELSE a,
           NEW u, u = IF MustGrow(a, cnt, used) THEN cnt ELSE used
    PROVE  \E n : /\ Holds(t, n, cnt, u) /\ u + 1 < n /\ Live(t) = Live(a)
                  /\ used = cnt => UsedSlots(t) = LiveSlots(t)
<1> PICK n \in Nat : n = Size(a)
  BY DEF BagIInv, Hashed, Table
<1>1. Hashed(a, n) /\ cnt = Cardinality(LiveSlots(a)) /\ used = Cardinality(UsedSlots(a))
  BY HoldsNow DEF Holds
<1>2. /\ cnt \in Nat /\ used \in Nat /\ cnt <= used /\ used <= n
      /\ cnt = used => LiveSlots(a) = UsedSlots(a)
  BY <1>1, CountsOf
<1>3. CASE MustGrow(a, cnt, used)
  <2> PICK m : m = 2 * n + Growth
    OBVIOUS
  <2>1. m \in Nat /\ cnt + 1 < m
    BY <1>2 DEF BagAssumption
  <2>2. t = Resize(a, m) /\ u = cnt
    BY <1>3
  <2>3. Cardinality(LiveSlots(a)) < m
    BY <1>1, <1>2, <2>1
  <2> PICK q : q = Resize(a, m)
    OBVIOUS
  <2>4. /\ Hashed(q, m) /\ Live(q) = Live(a) /\ UsedSlots(q) = LiveSlots(q)
        /\ Cardinality(LiveSlots(q)) = Cardinality(LiveSlots(a))
    BY <1>1, <2>1, <2>3, ResizeIs
  <2>5. \E i \in Slots(m) : q[i] = 0
    BY <1>1, <2>3, <2>4, ZeroLeft
  <2>6. Holds(q, m, cnt, cnt)
    BY <1>1, <2>1, <2>4, <2>5 DEF Holds
  <2> QED BY <2>1, <2>2, <2>4, <2>6
<1>4. CASE ~MustGrow(a, cnt, used)
  <2>1. t = a /\ u = used
    BY <1>4
  <2>2. ~ (used + 1 >= n \div 2)
    BY <1>4 DEF MustGrow
  <2>3. used + 1 < n
    BY <1>2, <2>2
  <2>4. Holds(a, n, cnt, used)
    BY HoldsNow
  <2> QED BY <1>2, <2>1, <2>3, <2>4
<1> QED BY <1>3, <1>4

LEMMA InsertKeeps ==
    ASSUME BagAssumption, BagIInv, NEW e \in Key, Insert(e)
    PROVE  BagIInv' /\ Set!Insert(e)
<1> PICK t : t = IF MustGrow(a, cnt, used) THEN Resize(a, 2 * Size(a) + Growth) ELSE a
  OBVIOUS
<1> PICK u : u = IF MustGrow(a, cnt, used) THEN cnt ELSE used
  OBVIOUS
<1> PICK h : h = InsertSlot(t, e)
  OBVIOUS
<1>1. /\ e \notin Live(a) \/ used = cnt
      /\ t[h] > 0 => a' = t /\ used' = u /\ reply' = 0 /\ cnt' = cnt
      /\ ~ (t[h] > 0) =>
            /\ a' = [t EXCEPT ![h] = e] /\ used' = (IF t[h] = 0 THEN u + 1 ELSE u)
            /\ cnt' = cnt + 1 /\ reply' = 1
  BY DEF Insert
<1>2. PICK n : /\ Holds(t, n, cnt, u) /\ u + 1 < n /\ Live(t) = Live(a)
               /\ used = cnt => UsedSlots(t) = LiveSlots(t)
  BY RoomMade
<1>3. /\ Hashed(t, n) /\ Table(t, n) /\ n \in Nat
      /\ cnt = Cardinality(LiveSlots(t)) /\ u = Cardinality(UsedSlots(t))
      /\ IsFiniteSet(LiveSlots(t)) /\ IsFiniteSet(UsedSlots(t)) /\ cnt \in Nat /\ u \in Nat
  <2>1. Hashed(t, n) /\ n \in Nat /\ cnt = Cardinality(LiveSlots(t)) /\ u = Cardinality(UsedSlots(t))
    BY <1>2 DEF Holds
  <2> QED BY <2>1, CountsOf DEF Hashed
<1>4. \E i \in Slots(n) : t[i] = 0
  <2>1. n > 0
    BY <1>2, <1>3
  <2> QED BY <1>2, <2>1 DEF Holds
<1>5. 0 \in 0 .. Cardinality(Key) /\ 1 \in 0 .. Cardinality(Key)
  BY SomeReply
<1>6. CASE e \in Live(a)
  <2>1. e \in Live(t) /\ UsedSlots(t) = LiveSlots(t)
    BY <1>1, <1>2, <1>6
  <2>2. t[h] = e
    BY <1>3, <1>4, <2>1, InsertSlotIs
  <2>3. t[h] > 0
    <3>1. \A x \in Nat : x # 0 => x > 0
      OBVIOUS
    <3>2. e \in Nat /\ e # 0
      BY <1>3, Entries
    <3> QED BY <2>2, <3>1, <3>2
  <2>4. a' = t /\ used' = u /\ reply' = 0 /\ cnt' = cnt
    BY <1>1, <2>3
  <2>5. BagIInv'
    BY <1>2, <1>5, <2>4, HoldsThen
  <2>6. Live(a') = Live(a) \cup {e}
    BY <1>2, <1>6, <2>4
  <2> QED BY <1>6, <2>4, <2>5, <2>6 DEF Set!Insert
<1>7. CASE e \notin Live(a)
  <2>1. /\ h \in Slots(n) /\ t[h] \notin Key
        /\ \A j \in Slots(n) : Gap(n, e, j) < Gap(n, e, h) => t[j] # 0
    BY <1>2, <1>3, <1>4, <1>7, InsertSlotIs
  <2>2. t[h] = 0 \/ t[h] = -1
    BY <1>3, <2>1, Entries
  <2>3. ~ (t[h] > 0)
    <3>1. ~ (0 > 0) /\ ~ (-1 > 0)
      OBVIOUS
    <3> QED BY <2>2, <3>1
  <2> PICK r : r = [t EXCEPT ![h] = e]
    OBVIOUS
  <2>4. a' = r /\ cnt' = cnt + 1 /\ reply' = 1 /\ used' = IF t[h] = 0 THEN u + 1 ELSE u
    BY <1>1, <2>3
  <2>5. Wrote(r, t, n, h, e)
    BY <1>3, <2>1, WroteIs
  <2>6. /\ Hashed(r, n) /\ Live(r) = Live(t) \cup {e}
        /\ LiveSlots(r) = LiveSlots(t) \cup {h} /\ h \notin LiveSlots(t)
        /\ UsedSlots(r) = UsedSlots(t) \cup {h}
    <3>1. e \notin Live(t)
      BY <1>2, <1>7
    <3> HIDE <1>1, <1>2
    <3> QED BY <1>3, <2>1, <2>5, <3>1, PutKeeps
  <2>7. cnt' = Cardinality(LiveSlots(r))
    BY <1>3, <2>4, <2>6, FS_AddElement
  <2>8. used' = Cardinality(UsedSlots(r))
    <3>1. h \in UsedSlots(t) <=> t[h] # 0
      BY <1>3, <2>1 DEF UsedSlots, Table
    <3>2. Cardinality(UsedSlots(t) \cup {h}) = IF h \in UsedSlots(t) THEN u ELSE u + 1
      <4>1. IsFiniteSet(UsedSlots(t)) /\ u = Cardinality(UsedSlots(t))
        BY <1>3
      <4>2. Cardinality(UsedSlots(t) \cup {h}) =
              IF h \in UsedSlots(t) THEN Cardinality(UsedSlots(t)) ELSE Cardinality(UsedSlots(t)) + 1
        BY <4>1, FS_AddElement, Zenon
      <4> QED BY <4>1, <4>2
    <3> QED BY <2>4, <2>6, <3>1, <3>2
  <2>9. used' < n
    <3>1. used' = u + 1 \/ used' = u
      BY <2>4
    <3>2. u \in Nat /\ n \in Nat /\ u + 1 < n
      BY <1>2, <1>3
    <3> QED BY <3>1, <3>2
  <2>10. \E i \in Slots(n) : r[i] = 0
    BY <2>6, <2>8, <2>9, ZeroLeft
  <2>11. Holds(a', n, cnt', used')
    BY <1>3, <2>4, <2>6, <2>7, <2>8, <2>10 DEF Holds
  <2>12. BagIInv'
    BY <1>5, <2>4, <2>11, HoldsThen
  <2>13. Live(a') = Live(a) \cup {e}
    BY <1>2, <2>4, <2>6
  <2> QED BY <1>7, <2>4, <2>12, <2>13 DEF Set!Insert
<1> QED BY <1>6, <1>7

LEMMA ZeroedHolds == ASSUME BagAssumption, NEW n \in Nat PROVE Holds(Zeroed(n), n, 0, 0)
<1> PICK z : z = Zeroed(n)
  OBVIOUS
<1>1. Hashed(z, n) /\ LiveSlots(z) = {} /\ UsedSlots(z) = {} /\ \A j \in Slots(n) : z[j] = 0
  BY EmptyIs
<1>2. n > 0 => \E j \in Slots(n) : z[j] = 0
  <2>1. n > 0 => 0 \in Slots(n)
    BY DEF Slots
  <2> QED BY <1>1, <2>1
<1>3. Cardinality({}) = 0
  BY FS_EmptySet
<1> QED BY <1>1, <1>2, <1>3 DEF Holds

(* bag_find() answers as it should, in a table without slots, too.         *)
LEMMA ContainsIs ==
    ASSUME BagAssumption, BagIInv, NEW e \in Key
    PROVE  Contains(a, e) <=> e \in Live(a)
<1> PICK n \in Nat : n = Size(a)
  BY DEF BagIInv, Hashed, Table
<1>1. Hashed(a, n) /\ (n > 0 => \E i \in Slots(n) : a[i] = 0)
  BY HoldsNow DEF Holds
<1>2. CASE n > 0
  BY <1>1, <1>2, FindIs
<1>3. CASE ~ (n > 0)
  <2>1. ~Contains(a, e)
    BY <1>3 DEF Contains
  <2>2. Slots(n) = {}
    BY <1>3 DEF Slots
  <2>3. e \in Live(a) <=> \E i \in Slots(n) : a[i] = e
    BY <1>1, Entries DEF Hashed
  <2> QED BY <2>1, <2>2, <2>3
<1> QED BY <1>2, <1>3

LEMMA RemoveKeeps ==
    ASSUME BagAssumption, BagIInv, NEW e \in Key, Remove(e)
    PROVE  BagIInv' /\ Set!Remove(e)
<1> PICK n \in Nat : n = Size(a)
  BY DEF BagIInv, Hashed, Table
<1>1. Holds(a, n, cnt, used)
  BY HoldsNow
<1>2. Hashed(a, n) /\ cnt = Cardinality(LiveSlots(a)) /\ used = Cardinality(UsedSlots(a))
      /\ IsFiniteSet(LiveSlots(a)) /\ IsFiniteSet(UsedSlots(a)) /\ cnt \in Nat /\ used \in Nat
      /\ Table(a, n)
  <2>1. Hashed(a, n) /\ cnt = Cardinality(LiveSlots(a)) /\ used = Cardinality(UsedSlots(a))
    BY <1>1 DEF Holds
  <2> QED BY <2>1, CountsOf DEF Hashed
<1>3. reply' = 0 /\ 0 \in 0 .. Cardinality(Key)
  BY SomeReply DEF Remove
<1>4. CASE ~Contains(a, e)
  <2>1. a' = a /\ cnt' = cnt /\ used' = used
    BY <1>4 DEF Remove
  <2>2. BagIInv'
    BY <1>1, <1>3, <2>1, HoldsThen
  <2>3. Live(a') = Live(a) \ {e}
    BY <1>4, <2>1, ContainsIs
  <2> QED BY <1>3, <2>2, <2>3 DEF Set!Remove
<1>5. CASE Contains(a, e)
  <2>1. n > 0 /\ e \in Live(a)
    BY <1>5, ContainsIs DEF Contains
  <2>2. \E i \in Slots(n) : a[i] = 0
    BY <1>1, <2>1 DEF Holds
  <2>15. ASSUME NEW k \in Slots(n), a[k] = e, NEW y \in {0, -1},
                y = 0 => a[IF k + 1 >= n THEN 0 ELSE k + 1] = 0,
                NEW s, Wrote(s, a, n, k, y)
         PROVE  Took(s, a, n, k, e, y)
    BY <1>2, <2>15, TakeKeeps
  <2> PICK h : h = FindSlot(a, e)
    OBVIOUS
  <2>3. h \in Slots(n) /\ a[h] = e
    BY <1>2, <2>1, <2>2, FindIs
  <2> PICK x : x = Tombstone(a, h)
    OBVIOUS
  <2>4. x \in {0, -1} /\ (x = 0 => a[IF h + 1 >= n THEN 0 ELSE h + 1] = 0)
    BY DEF Tombstone
  <2> PICK t : t = [a EXCEPT ![h] = x]
    OBVIOUS
  <2> PICK u : u = IF x = 0 THEN used - 1 ELSE used
    OBVIOUS
  <2>5. /\ cnt' = cnt - 1
        /\ IF cnt' = 0 THEN a' = Zeroed(n) /\ used' = 0
           ELSE IF n > ShrinkAbove /\ cnt' < n \div 8
             THEN a' = Resize(t, n \div 2) /\ used' = cnt'
             ELSE a' = t /\ used' = u
    BY <1>5 DEF Remove
  <2>6. Wrote(t, a, n, h, x)
    BY <1>2, <2>3, <2>4, WroteIs
  <2>7. /\ Hashed(t, n) /\ Live(t) = Live(a) \ {e}
        /\ LiveSlots(t) = LiveSlots(a) \ {h} /\ h \in LiveSlots(a)
        /\ UsedSlots(t) = (IF x = 0 THEN UsedSlots(a) \ {h} ELSE UsedSlots(a))
        /\ h \in UsedSlots(a)
    <3>1. Took(t, a, n, h, e, x)
      BY <2>3, <2>4, <2>6, <2>15
    <3> QED BY <3>1 DEF Took
  <2>8. cnt' = Cardinality(LiveSlots(t))
    <3>1. Cardinality(LiveSlots(a) \ {h}) = Cardinality(LiveSlots(a)) - 1
      BY <1>2, <2>7, FS_RemoveElement
    <3>2. cnt' = cnt - 1
      BY <2>5
    <3> QED BY <1>2, <2>7, <3>1, <3>2
  <2>9. u = Cardinality(UsedSlots(t))
    <3>1. Cardinality(UsedSlots(a) \ {h}) = Cardinality(UsedSlots(a)) - 1
      BY <1>2, <2>7, FS_RemoveElement
    <3> QED BY <1>2, <2>7, <3>1
  <2>10. \E i \in Slots(n) : t[i] = 0
    <3> PICK i \in Slots(n) : a[i] = 0
      BY <2>2
    <3>1. i # h
      BY <1>2, <2>3, Entries
    <3> QED BY <2>6, <3>1 DEF Wrote
  <2>11. ASSUME NEW m, Holds(a', m, cnt', used'), Live(a') = Live(t)
         PROVE  BagIInv' /\ Set!Remove(e)
    <3>1. BagIInv'
      BY <1>3, <2>11, HoldsThen
    <3> QED BY <1>3, <2>7, <2>11, <3>1 DEF Set!Remove
  <2>12. CASE cnt' = 0
    <3>1. a' = Zeroed(n) /\ used' = 0
      BY <2>5, <2>12
    <3>2. Holds(a', n, cnt', used')
      BY <2>12, <3>1, ZeroedHolds
    <3>3. LiveSlots(t) = {}
      <4>1. IsFiniteSet(LiveSlots(t))
        BY <2>7, CountsOf
      <4> QED BY <2>8, <2>12, <4>1, FS_EmptySet
    <3>4. Live(t) = {}
      <4>1. Table(t, n)
        BY <2>7 DEF Hashed
      <4> QED BY <3>3, <4>1, LiveIs
    <3>5. Live(a') = Live(t)
      BY <3>1, <3>4, EmptyIs
    <3> QED BY <2>11, <3>2, <3>5
  <2>13. CASE cnt' # 0 /\ n > ShrinkAbove /\ cnt' < n \div 8
    <3> PICK m : m = n \div 2
      OBVIOUS
    <3>1. a' = Resize(t, m) /\ used' = cnt'
      BY <2>5, <2>13
    <3>2. cnt' \in Nat
      BY <2>7, <2>8, CountsOf
    <3>3. m \in Nat /\ cnt' < m
      BY <2>13, <3>2
    <3> PICK q : q = Resize(t, m)
      OBVIOUS
    <3>4. Cardinality(LiveSlots(t)) < m
      BY <2>8, <3>3
    <3>5. /\ Hashed(q, m) /\ Live(q) = Live(t) /\ UsedSlots(q) = LiveSlots(q)
          /\ Cardinality(LiveSlots(q)) = Cardinality(LiveSlots(t))
      BY <2>7, <3>3, <3>4, ResizeIs
    <3>6. \E i \in Slots(m) : q[i] = 0
      BY <3>4, <3>5, ZeroLeft
    <3>7. Holds(a', m, cnt', used')
      BY <2>8, <3>1, <3>3, <3>5, <3>6 DEF Holds
    <3> QED BY <2>11, <3>1, <3>5, <3>7
  <2>14. CASE cnt' # 0 /\ ~ (n > ShrinkAbove /\ cnt' < n \div 8)
    <3>1. a' = t /\ used' = u
      BY <2>5, <2>14
    <3>2. Holds(a', n, cnt', used')
      BY <2>7, <2>8, <2>9, <2>10, <3>1 DEF Holds
    <3> QED BY <2>11, <3>1, <3>2
  <2> QED BY <2>12, <2>13, <2>14
<1> QED BY <1>4, <1>5

LEMMA FindKeeps ==
    ASSUME BagAssumption, BagIInv, NEW e \in Key, Find(e)
    PROVE  BagIInv' /\ Set!Find(e)
<1>1. a' = a /\ cnt' = cnt /\ used' = used /\ reply' = IF Contains(a, e) THEN 1 ELSE 0
  BY DEF Find
<1>2. reply' \in 0 .. Cardinality(Key)
  BY <1>1, SomeReply
<1>3. BagIInv'
  BY <1>1, <1>2, HoldsNow, HoldsThen
<1>4. reply' = (IF e \in Live(a) THEN 1 ELSE 0) /\ Live(a') = Live(a)
  BY <1>1, ContainsIs
<1> QED BY <1>3, <1>4 DEF Set!Find

LEMMA SameCardinality == ASSUME NEW S PROVE Set!Cardinality(S) = Cardinality(S)
BY DEF Set!Cardinality, Cardinality, Set!IsFiniteSet, IsFiniteSet

LEMMA CountKeeps ==
    ASSUME BagAssumption, BagIInv, Count
    PROVE  BagIInv' /\ Set!Count
<1>1. a' = a /\ cnt' = cnt /\ used' = used /\ reply' = cnt
  BY DEF Count
<1>2. cnt = Cardinality(Live(a)) /\ cnt \in 0 .. Cardinality(Key)
  BY AsManyAsLive DEF BagIInv, CountersExact
<1>3. BagIInv'
  BY <1>1, <1>2, HoldsNow, HoldsThen
<1>4. Live(a') = Live(a) /\ reply' = Cardinality(Live(a))
  BY <1>1, <1>2
<1> QED BY <1>3, <1>4, SameCardinality DEF Set!Count

LEMMA ClearKeeps ==
    ASSUME BagAssumption, Clear
    PROVE  BagIInv' /\ Set!Clear
<1>1. a' = Zeroed(0) /\ cnt' = 0 /\ used' = 0 /\ reply' = 0
  BY DEF Clear
<1>2. 0 \in 0 .. Cardinality(Key)
  <2>1. IsFiniteSet(Key)
    BY DEF BagAssumption
  <2>2. Cardinality(Key) \in Nat
    BY <2>1, FS_CardinalityType
  <2> QED BY <2>2
<1>3. BagIInv'
  BY <1>1, <1>2, ZeroedHolds, HoldsThen
<1>4. Live(a') = {}
  BY <1>1, EmptyIs
<1> QED BY <1>1, <1>3, <1>4 DEF Set!Clear

-----------------------------------------------------------------------------
LEMMA BagIInvInit == ASSUME BagInit, BagAssumption PROVE BagIInv /\ Set!Init
<1>1. a = Zeroed(0) /\ cnt = 0 /\ used = 0 /\ reply = 0
  BY DEF BagInit
<1>2. 0 \in 0 .. Cardinality(Key)
  <2>1. IsFiniteSet(Key)
    BY DEF BagAssumption
  <2>2. Cardinality(Key) \in Nat
    BY <2>1, FS_CardinalityType
  <2> QED BY <2>2
<1>3. Size(a) = 0 /\ DOMAIN a = Slots(0)
  <2>1. Table(a, 0)
    BY <1>1, EmptyIs DEF Hashed
  <2> QED BY <2>1, SizeOf
<1>4. Holds(a, 0, cnt, used)
  BY <1>1, ZeroedHolds
<1>5. BagIInv
  BY <1>2, <1>1, <1>3, <1>4 DEF BagIInv, Holds, CountersExact, ProbesEnd
<1>6. Live(a) = {}
  BY <1>1, EmptyIs
<1> QED BY <1>1, <1>5, <1>6 DEF Set!Init

LEMMA BagIInvNext ==
    ASSUME BagIInv, [BagStep]_bagVars, BagAssumption
    PROVE  BagIInv' /\ [Set!Next]_Set!vars
<1>1. ASSUME NEW e \in Key, Insert(e) PROVE BagIInv' /\ [Set!Next]_Set!vars
  BY <1>1, InsertKeeps DEF Set!Next
<1>2. ASSUME NEW e \in Key, Remove(e) PROVE BagIInv' /\ [Set!Next]_Set!vars
  BY <1>2, RemoveKeeps DEF Set!Next
<1>3. ASSUME NEW e \in Key, Find(e) PROVE BagIInv' /\ [Set!Next]_Set!vars
  BY <1>3, FindKeeps DEF Set!Next
<1>4. CASE Count
  BY <1>4, CountKeeps DEF Set!Next
<1>5. CASE Clear
  BY <1>5, ClearKeeps DEF Set!Next
<1>6. CASE UNCHANGED bagVars
  <2>1. a' = a /\ cnt' = cnt /\ used' = used /\ reply' = reply
    BY <1>6 DEF bagVars
  <2>2. BagIInv'
    BY <2>1, HoldsNow, HoldsThen DEF BagIInv
  <2> QED BY <2>1, <2>2 DEF Set!vars
<1> QED BY <1>1, <1>2, <1>3, <1>4, <1>5, <1>6 DEF BagStep

-----------------------------------------------------------------------------
(* bag_first() and bag_next(): the entry in the first live slot of S.      *)
LEMMA FirstOfIs ==
    ASSUME NEW n \in Nat, NEW t, NEW S \in SUBSET Slots(n), S # {}
    PROVE  \E s \in S : FirstOf(t, S) = t[s] /\ \A i \in S : s <= i
<1>1. S \subseteq Nat
  BY DEF Slots
<1>2. \E x \in S : \A y \in S : x <= y
  BY <1>1, Least
<1> PICK s : s = Min(S)
  OBVIOUS
<1>3. s \in S /\ \A i \in S : s <= i
  BY <1>2 DEF Min
<1>4. FirstOf(t, S) = t[s]
  BY DEF FirstOf
<1> QED BY <1>3, <1>4

LEMMA AfterIs ==
    ASSUME BagAssumption, NEW n, NEW t, Hashed(t, n), \E i \in Slots(n) : t[i] = 0,
           NEW s \in LiveSlots(t)
    PROVE  After(t, FindSlot(t, t[s])) = {i \in LiveSlots(t) : i > s}
<1>1. Table(t, n) /\ Once(t)
  BY DEF Hashed
<1>2. LiveSlots(t) = {i \in Slots(n) : t[i] \in Key}
  BY <1>1, Entries
<1>3. t[s] \in Key /\ t[s] \in Live(t)
  BY <1>1, <1>2, LiveIs
<1> PICK e : e = t[s]
  OBVIOUS
<1>4. FindSlot(t, e) \in Slots(n) /\ t[FindSlot(t, e)] = e
  BY <1>3, FindIs
<1>5. FindSlot(t, e) = s
  BY <1>1, <1>2, <1>3, <1>4 DEF Once
<1> QED BY <1>5 DEF After

(* How far the loop has come after its first n visits: it has seen the     *)
(* entries up to some slot, or all of them.                                *)
Progress(t, at, n) ==
    \/ at[n] = 0 /\ \A x : x \in Live(t) <=> x # 0 /\ \E k \in 0 .. n : at[k] = x
    \/ \E s \in LiveSlots(t) :
          /\ s >= n /\ at[n] = t[s]
          /\ \A x : (\E k \in 0 .. n : at[k] = x) <=> \E i \in LiveSlots(t) : i <= s /\ t[i] = x

LEMMA VisitFirst ==
    ASSUME BagAssumption, NEW n, NEW t, Hashed(t, n), NEW at, at[0] = BagFirst(t)
    PROVE  Progress(t, at, 0)
<1>1. Table(t, n) /\ n \in Nat
  BY DEF Hashed, Table
<1>2. /\ LiveSlots(t) = {i \in Slots(n) : t[i] \in Key}
      /\ \A x : x \in Live(t) <=> \E i \in LiveSlots(t) : t[i] = x
  BY <1>1, Entries, LiveIs
<1>3. \A k : k \in 0 .. 0 <=> k = 0
  OBVIOUS
<1>4. CASE LiveSlots(t) = {}
  <2>1. at[0] = 0
    BY <1>4 DEF BagFirst, FirstOf
  <2> QED BY <1>2, <1>3, <1>4, <2>1 DEF Progress
<1>5. CASE LiveSlots(t) # {}
  <2>1. PICK s \in LiveSlots(t) : FirstOf(t, LiveSlots(t)) = t[s] /\ \A i \in LiveSlots(t) : s <= i
    BY <1>1, <1>2, <1>5, FirstOfIs
  <2>2. at[0] = t[s]
    BY <2>1 DEF BagFirst
  <2>3. \A i \in LiveSlots(t) : i \in Nat /\ (i <= s => i = s)
    BY <1>2, <2>1 DEF Slots
  <2>4. s >= 0 /\ s <= s
    BY <2>3
  <2> QED BY <1>3, <2>2, <2>3, <2>4 DEF Progress
<1> QED BY <1>4, <1>5

LEMMA VisitNext ==
    ASSUME BagAssumption, NEW n, NEW t, Hashed(t, n), \E i \in Slots(n) : t[i] = 0,
           NEW at, NEW m \in 1 .. n, Progress(t, at, m - 1),
           at[m] = IF at[m-1] = 0 THEN 0 ELSE BagNext(t, at[m-1])
    PROVE  Progress(t, at, m)
<1>1. Table(t, n) /\ n \in Nat
  BY DEF Hashed, Table
<1>2. /\ LiveSlots(t) = {i \in Slots(n) : t[i] \in Key}
      /\ \A x : x \in Live(t) <=> \E i \in LiveSlots(t) : t[i] = x
      /\ 0 \notin Key /\ 0 \notin Live(t)
  BY <1>1, Entries, LiveIs
<1>3. \A k : k \in 0 .. m <=> k \in 0 .. m-1 \/ k = m
  <2>1. m \in Nat /\ m >= 1
    OBVIOUS
  <2> QED BY <2>1
<1>4. CASE at[m-1] = 0 /\ \A x : x \in Live(t) <=> x # 0 /\ \E k \in 0 .. m-1 : at[k] = x
  BY <1>3, <1>4 DEF Progress
<1>5. ASSUME NEW s \in LiveSlots(t), s >= m - 1, at[m-1] = t[s],
             \A x : (\E k \in 0 .. m-1 : at[k] = x) <=> \E i \in LiveSlots(t) : i <= s /\ t[i] = x
      PROVE  Progress(t, at, m)
  <2> DEFINE S == {i \in LiveSlots(t) : i > s}
  <2>1. at[m] = FirstOf(t, S)
    <3>1. t[s] # 0
      BY <1>2
    <3>2. After(t, FindSlot(t, t[s])) = S
      BY AfterIs
    <3> QED BY <1>5, <3>1, <3>2 DEF BagNext
  <2>2. \A i \in LiveSlots(t) : i \in Nat /\ (i \in S \/ i <= s) /\ i \in Slots(n)
    BY <1>2 DEF Slots
  <2>3. CASE S = {}
    <3>1. at[m] = 0
      BY <2>1, <2>3 DEF FirstOf
    <3>2. \A x : x \in Live(t) <=> \E k \in 0 .. m-1 : at[k] = x
      BY <1>2, <1>5, <2>2, <2>3
    <3>3. \A x : x \in Live(t) <=> x # 0 /\ \E k \in 0 .. m : at[k] = x
      BY <1>2, <1>3, <3>1, <3>2
    <3> QED BY <3>1, <3>3 DEF Progress
  <2>4. CASE S # {}
    <3>1. PICK r \in S : FirstOf(t, S) = t[r] /\ \A i \in S : r <= i
      <4>1. S \in SUBSET Slots(n)
        BY <2>2
      <4> HIDE DEF S
      <4> QED BY <1>1, <2>4, <4>1, FirstOfIs
    <3>2. r \in LiveSlots(t) /\ r >= m /\ at[m] = t[r]
      BY <1>5, <2>1, <2>2, <3>1
    <3>3. \A i \in LiveSlots(t) : i <= r <=> i <= s \/ i = r
      BY <2>2, <3>1
    <3>4. \A x : (\E k \in 0 .. m : at[k] = x) <=> \E i \in LiveSlots(t) : i <= r /\ t[i] = x
      BY <1>3, <1>5, <3>2, <3>3
    <3> QED BY <3>2, <3>4 DEF Progress
  <2> QED BY <2>3, <2>4
<1> QED BY <1>4, <1>5 DEF Progress

LEMMA Visits ==
    ASSUME BagAssumption, NEW n, NEW t, Hashed(t, n), n > 0 => \E i \in Slots(n) : t[i] = 0
    PROVE  DOMAIN Visited(t) = 0 .. n /\ Progress(t, Visited(t), n)
<1> DEFINE X == Key \cup {0}
           Following(e) == IF e = 0 THEN 0 ELSE BagNext(t, e)
           g == [i \in 1 .. n |-> [e \in X |-> Following(e)]]
           Turns(f) == [i \in 0 .. n |-> IF i = 0 THEN BagFirst(t) ELSE Following(f[i-1])]
           at == CHOOSE f : f = Turns(f)
<1>1. Table(t, n) /\ n \in Nat /\ Size(t) = n
  BY SizeOf DEF Hashed, Table
<1>2. Visited(t) = at
  BY <1>1 DEF Visited
<1>3. /\ LiveSlots(t) \in SUBSET Slots(n)
      /\ \A i \in LiveSlots(t) : t[i] \in X
  <2>1. LiveSlots(t) = {i \in Slots(n) : t[i] \in Key}
    BY <1>1, Entries
  <2> QED BY <2>1
<1>4. \A S \in SUBSET LiveSlots(t) : FirstOf(t, S) \in X
  <2> TAKE S \in SUBSET LiveSlots(t)
  <2>1. CASE S = {}
    BY <2>1 DEF FirstOf
  <2>2. CASE S # {}
    <3>1. S \in SUBSET Slots(n)
      BY <1>3
    <3>2. PICK s \in S : FirstOf(t, S) = t[s]
      BY <1>1, <2>2, <3>1, FirstOfIs
    <3> QED BY <1>3, <3>2
  <2> QED BY <2>1, <2>2
<1>5. BagFirst(t) \in X /\ \A e \in X : Following(e) \in X
  <2>1. \A h : After(t, h) \in SUBSET LiveSlots(t)
    BY DEF After
  <2> QED BY <1>4, <2>1 DEF BagFirst, BagNext
<1> HIDE DEF X, Following
<1>6. g \in [1 .. n -> [X -> X]]
  BY <1>5
<1>7. PICK f \in [0 .. n -> X] : InSteps(f, n, BagFirst(t), g)
  <2> HIDE DEF g
  <2> QED BY <1>1, <1>5, <1>6, Steps
<1>8. f = Turns(f)
  <2>1. \A i \in 0 .. n : i # 0 => i \in 1 .. n /\ f[i-1] \in X
    BY <1>1
  <2>2. ASSUME NEW i \in 0 .. n PROVE f[i] = IF i = 0 THEN BagFirst(t) ELSE Following(f[i-1])
    <3>1. f[i] = IF i = 0 THEN BagFirst(t) ELSE g[i][f[i-1]]
      <4> HIDE DEF g
      <4> QED BY <1>7 DEF InSteps
    <3>2. i # 0 => g[i][f[i-1]] = Following(f[i-1])
      BY <2>1
    <3> QED BY <3>1, <3>2
  <2> HIDE DEF g
  <2> QED BY <1>7, <2>2 DEF InSteps
<1>9. at = Turns(at)
  <2> HIDE DEF Turns
  <2> QED BY <1>8
<1> HIDE DEF at
<1>10. /\ DOMAIN at = 0 .. n /\ at[0] = BagFirst(t)
       /\ \A i \in 1 .. n : at[i] = IF at[i-1] = 0 THEN 0 ELSE BagNext(t, at[i-1])
  BY <1>1, <1>9 DEF Following
<1>11. Progress(t, at, n)
  <2> SUFFICES ASSUME ~Progress(t, at, n) PROVE FALSE
    OBVIOUS
  <2> DEFINE B == {i \in 0 .. n : ~Progress(t, at, i)}
  <2>1. B \subseteq Nat /\ n \in B
    BY <1>1
  <2>2. PICK i \in B : \A k \in B : i <= k
    <3> HIDE DEF B
    <3> QED BY <2>1, Least
  <2>3. Progress(t, at, 0)
    BY <1>10, VisitFirst
  <2>4. i \in 1 .. n /\ i - 1 \in 0 .. n /\ ~ (i <= i - 1) /\ n > 0
    BY <1>1, <2>3
  <2>5. Progress(t, at, i - 1)
    BY <2>2, <2>4
  <2>6. Progress(t, at, i)
    BY <1>10, <2>4, <2>5, VisitNext
  <2> QED BY <2>6
<1> QED BY <1>2, <1>10, <1>11

LEMMA IInvTyped == ASSUME BagAssumption, BagIInv PROVE BagTypeOK
<1>1. Table(a, Size(a)) /\ Once(a)
  BY DEF BagIInv, Hashed
<1>2. cnt \in Nat /\ used \in Nat
  BY CountsOf DEF BagIInv, CountersExact
<1> QED BY <1>1, <1>2 DEF BagIInv, BagTypeOK, Table, Once, AtMostOnce

(* bag.c: the counters are right, no integer is there twice, and every     *)
(* probe ends, whatever is inserted and removed.                           *)
THEOREM BagTyped == ASSUME BagAssumption PROVE BagSpec => []BagTypeOK
<1>1. BagIInv => BagTypeOK
  BY BagAssumption, IInvTyped
<1>2. BagInit => BagIInv
  BY BagAssumption, BagIInvInit
<1>3. BagIInv /\ [BagStep]_bagVars => BagIInv'
  BY BagAssumption, BagIInvNext
<1> QED BY <1>1, <1>2, <1>3, PTL DEF BagSpec

(* bag_first() and bag_next(): as long as nothing is inserted or removed   *)
(* the loop ends, after it has come to every integer in the bag.           *)
THEOREM LoopVisitsAll == ASSUME BagAssumption PROVE BagSpec => []IterationComplete
<1>1. BagIInv => IterationComplete
  <2> SUFFICES ASSUME BagIInv PROVE IterationComplete
    OBVIOUS
  <2> PICK at, n : at = Visited(a) /\ n = Size(a)
    OBVIOUS
  <2>1. Table(a, n) /\ n \in Nat /\ DOMAIN a = Slots(n)
    BY SizeOf DEF BagIInv, Hashed, Table
  <2>2. DOMAIN at = 0 .. n /\ Progress(a, at, n)
    <3>1. Hashed(a, n) /\ (n > 0 => \E i \in Slots(n) : a[i] = 0)
      BY <2>1 DEF BagIInv, ProbesEnd
    <3> QED BY <3>1, Visits
  <2>3. ~ \E s \in LiveSlots(a) : s >= n
    <3>1. LiveSlots(a) \subseteq Slots(n)
      BY <2>1 DEF LiveSlots
    <3> QED BY <2>1, <3>1 DEF Slots
  <2>4. at[n] = 0 /\ \A x : x \in Live(a) <=> x # 0 /\ \E k \in 0 .. n : at[k] = x
    BY <2>2, <2>3 DEF Progress
  <2>5. {at[k] : k \in DOMAIN at} \ {0} = Live(a)
    BY <2>2, <2>4
  <2>6. BagTypeOK
    BY IInvTyped
  <2> QED BY <2>4, <2>5, <2>6 DEF IterationComplete
<1>2. BagInit => BagIInv
  BY BagAssumption, BagIInvInit
<1>3. BagIInv /\ [BagStep]_bagVars => BagIInv'
  BY BagAssumption, BagIInvNext
<1> QED BY <1>1, <1>2, <1>3, PTL DEF BagSpec

(* bag.c:23 "an unordered collection without duplicates": every call of    *)
(* the hash table changes the set, and answers, as a set of integers does. *)
THEOREM BagIsSet == ASSUME BagAssumption PROVE BagSpec => BehavesAsSet
<1>1. BagInit => BagIInv /\ Set!Init
  BY BagAssumption, BagIInvInit
<1>2. BagIInv /\ [BagStep]_bagVars => BagIInv' /\ [Set!Next]_Set!vars
  BY BagAssumption, BagIInvNext
<1> QED BY <1>1, <1>2, PTL DEF BagSpec, BehavesAsSet, Set!Spec

-----------------------------------------------------------------------------
(* Transactions.                                                           *)
(* The records that the variables are made of.                             *)
Database == [blob : [Rid -> Artifact \cup {None}], wrong : SUBSET Rid,
             leaf : SUBSET Rid, chat : [Checkin -> Nat]]
TempTable == [table : BOOLEAN, rows : SUBSET Checkin]

Typed ==
    /\ repo \in Database /\ work \in [Proc -> Database]
    /\ lock \in Proc \cup {None}
    /\ view \in [Proc -> {"none", "current", "stale"}]
    /\ proc \in [Proc -> [is : {"off", "page", "backoffice"}, left : Nat]]
    /\ db \in [Proc -> [nBegin : 0 .. MaxNest, doRollback : BOOLEAN,
                        changed : BOOLEAN, wrTxn : BOOLEAN]]
    /\ mem \in [Proc -> [toVerify : SUBSET Rid, needToCheck : SUBSET Rid,
                         triggers : BOOLEAN]]
    /\ temp \in [Proc -> [now : TempTable, old : TempTable]]

(* What holds of a database at any time: marks are on rows that exist, and *)
(* no artifact has two rows.                                               *)
Sound(d) ==
    /\ d.wrong \subseteq Rows(d)
    /\ d.leaf \subseteq Rows(d)
    /\ \A r, s \in Rows(d) : d.blob[r] = d.blob[s] => r = s

(* d has all the rows of e.                                                *)
Ahead(d, e) == \A r \in Rows(e) : d.blob[r] = e.blob[r]

(* The transaction of a process: outside of one nothing is held, the       *)
(* writer sees more than the repository, a reader with a current snapshot  *)
(* the repository, and one with a stale snapshot less.                     *)
Isolated(p) ==
    /\ db[p].nBegin = 0 => db[p] = NoTxn /\ view[p] = "none" /\ lock # p
    /\ db[p].wrTxn \/ db[p].changed => lock = p
    /\ lock = p => view[p] = "current" /\ Ahead(work[p], repo) /\ work[p].chat = repo.chat
    /\ lock # p /\ view[p] = "current" => work[p] = repo
    /\ lock # p /\ view[p] # "none" => Ahead(repo, work[p])

(* The memory of a process: it knows every row that cannot be read back,   *)
(* and of every check-in to look at that it is yet to be verified, or that *)
(* it is in the repository; the check-ins of the open transaction wait in  *)
(* the temp table; and only a process that opens no further transaction    *)
(* has the triggers without their table.                                   *)
Remembered(p) ==
    /\ work[p].wrong \subseteq mem[p].toVerify
    /\ mem[p].needToCheck \subseteq mem[p].toVerify \cup Rows(repo)
    /\ lock = p => \A art \in Gathered(p) \cap Checkin :
                     mem[p].triggers /\ temp[p].now.table /\ art \in temp[p].now.rows
    /\ proc[p].is = "page" /\ (db[p].nBegin > 0 \/ proc[p].left > 0) /\ mem[p].triggers
         => temp[p].now.table
    /\ proc[p].is = "off" => db[p].nBegin = 0 /\ mem[p] = NoMem

Good(p) == Sound(work[p]) /\ Isolated(p) /\ Remembered(p)

(* The inductive invariant.                                                *)
IInv ==
    /\ Typed
    /\ Sound(repo) /\ repo.wrong = {}
    /\ EventsReachChat
    /\ \A p \in Proc : Good(p)

-----------------------------------------------------------------------------
(* Databases.                                                              *)

LEMMA RidType == ASSUME TransactionAssumption
                 PROVE  Cardinality(Artifact) \in Nat /\ Rid \subseteq Nat
BY FS_CardinalityType DEF TransactionAssumption, Rid

LEMMA EmptyDatabase == ASSUME TransactionAssumption
                       PROVE  Empty \in Database /\ Sound(Empty) /\ Rows(Empty) = {}
BY DEF Empty, Database, Sound, Rows

LEMMA NoTypes == ASSUME TransactionAssumption
                 PROVE  /\ NoTxn \in [nBegin : 0 .. MaxNest, doRollback : BOOLEAN,
                                      changed : BOOLEAN, wrTxn : BOOLEAN]
                        /\ NoMem \in [toVerify : SUBSET Rid, needToCheck : SUBSET Rid,
                                      triggers : BOOLEAN]
                        /\ NoTemp \in TempTable
BY DEF TransactionAssumption, NoTxn, NoMem, NoTemp, TempTable

(* content_put_ex() finds a rid for an artifact that is not stored: there  *)
(* are as many rids as artifacts, and no artifact has two.                 *)
FreeRid(d) == CHOOSE i \in Rid \ Rows(d) : \A j \in Rid \ Rows(d) : i <= j

LEMMA FreeRidExists ==
    ASSUME TransactionAssumption, NEW d \in Database, Sound(d),
           NEW art \in Artifact, art \notin Stored(d)
    PROVE  FreeRid(d) \in Rid /\ FreeRid(d) \notin Rows(d)
<1> DEFINE f == [r \in Rows(d) |-> d.blob[r]]
<1>1. Rows(d) \subseteq Rid
  BY DEF Rows
<1>2. IsFiniteSet(Rid) /\ Cardinality(Rid) = Cardinality(Artifact)
  BY RidType, FS_Interval DEF Rid
<1>3. f \in Injection(Rows(d), Artifact \ {art})
  <2>1. \A r \in Rows(d) : d.blob[r] \in Artifact \ {art}
    BY DEF Rows, Stored, Database
  <2>2. \A r, s \in Rows(d) : f[r] = f[s] => r = s
    BY DEF Sound
  <2> QED BY <2>1, <2>2 DEF Injection, IsInjective
<1>4. Cardinality(Rows(d)) < Cardinality(Artifact)
  <2>1. IsFiniteSet(Artifact \ {art}) /\ Cardinality(Artifact \ {art}) = Cardinality(Artifact) - 1
    BY FS_RemoveElement DEF TransactionAssumption
  <2>2. IsFiniteSet(Rows(d)) /\ Cardinality(Rows(d)) <= Cardinality(Artifact \ {art})
    BY <1>1, <1>2, <1>3, <2>1, FS_Subset, FS_Injection
  <2> QED BY <2>1, <2>2, RidType, FS_CardinalityType
<1>5. Rid \ Rows(d) # {}
  BY <1>1, <1>2, <1>4, RidType
<1>6. \E i \in Rid \ Rows(d) : \A j \in Rid \ Rows(d) : i <= j
  BY <1>5, RidType, Least
<1> QED BY <1>6 DEF FreeRid
-----------------------------------------------------------------------------
(* The inductive invariant holds initially.                                *)
LEMMA InitEstablishes == ASSUME TransactionAssumption, Init
                         PROVE  IInv
<1> USE TransactionAssumption, EmptyDatabase
<1>1. Typed
  BY NoTypes DEF TransactionAssumption, Typed, Init
<1>2. Sound(repo) /\ repo.wrong = {} /\ EventsReachChat
  BY DEF Init, Empty, EventsReachChat, Stored
<1>3. ASSUME NEW p \in Proc
      PROVE  Good(p)
  <2>1. lock # p
    BY DEF Init, TransactionAssumption
  <2>2. Isolated(p)
    BY <2>1 DEF Isolated, Init, NoTxn
  <2>3. Remembered(p)
    BY <2>1 DEF Remembered, Init, NoTxn, NoMem, Empty
  <2> QED BY <2>2, <2>3 DEF Good, Init
<1> QED BY <1>1, <1>2, <1>3 DEF IInv

(* A process that does nothing, while others leave the repository alone.   *)
LEMMA Bystander ==
    ASSUME NEW q \in Proc, Good(q),
           repo' = repo, work'[q] = work[q], view'[q] = view[q], db'[q] = db[q],
           mem'[q] = mem[q], temp'[q] = temp[q], proc'[q] = proc[q],
           (lock' = q) <=> (lock = q)
    PROVE  Good(q)'
<1>1. Isolated(q)'
  BY DEF Good, Isolated, Ahead, Rows
<1>2. Remembered(q)'
  BY DEF Good, Remembered, Gathered, Stored, Rows
<1> QED BY <1>1, <1>2 DEF Good, Sound, Rows

(* A process that is out of its transaction: its memory is what it was, or *)
(* it is gone with the process.                                            *)
LEMMA RollsBack ==
    ASSUME TransactionAssumption, NEW q \in Proc, Good(q), Typed,
           repo' = repo, work'[q] = Empty, view'[q] = "none", db'[q] = NoTxn, lock' # q,
           \/ mem'[q] = NoMem
           \/ mem'[q] = mem[q] /\ proc'[q].is # "off"
              /\ (proc'[q].is = "page" => proc'[q].left = 0)
    PROVE  Good(q)'
<1>1. Isolated(q)'
  BY DEF Isolated, NoTxn
<1>2. Remembered(q)'
  <2>1. work'[q].wrong = {} /\ db'[q].nBegin = 0
    BY DEF Empty, NoTxn
  <2>2. mem'[q].needToCheck \subseteq mem'[q].toVerify \cup Rows(repo')
    BY DEF Good, Remembered, NoMem
  <2>3. mem'[q] = NoMem => ~mem'[q].triggers
    BY DEF NoMem
  <2>4. proc'[q].is = "page" /\ proc'[q].left > 0 => mem'[q] = NoMem
    BY DEF Typed
  <2>5. proc'[q].is = "off" => mem'[q] = NoMem
    OBVIOUS
  <2> QED BY <2>1, <2>2, <2>3, <2>4, <2>5 DEF Remembered
<1> QED BY <1>1, <1>2, EmptyDatabase DEF Good, Sound, Rows

(* ROLLBACK of a transaction, and the end of a process in the middle of    *)
(* one.                                                                    *)
LEMMA DiesPreserves ==
    ASSUME TransactionAssumption, IInv, NEW p \in Proc, Dies(p)
    PROVE  IInv'
<1> USE DEF Dies, RolledBack, Release
<1>1. Typed'
  BY NoTypes, EmptyDatabase DEF IInv, Typed
<1>2. \A q \in Proc \ {p} : Good(q)'
  BY Bystander DEF IInv, Typed, TransactionAssumption
<1>3. Good(p)'
  BY RollsBack DEF IInv, Typed, TransactionAssumption
<1> QED BY <1>1, <1>2, <1>3 DEF IInv, EventsReachChat, Sound, Stored, Rows

LEMMA RollbackPreserves ==
    ASSUME TransactionAssumption, IInv, NEW p \in Proc, NEW rollback \in BOOLEAN,
           Rollback(p, rollback)
    PROVE  IInv'
<1> USE DEF Rollback, RolledBack, Release
<1>0. proc[p].is # "off"
  BY DEF IInv, Good, Remembered
<1>1. Typed'
  <2>1. proc' \in [Proc -> [is : {"off", "page", "backoffice"}, left : Nat]]
    <3>1. proc[p] \in [is : {"off", "page", "backoffice"}, left : Nat]
      BY DEF IInv, Typed
    <3>2. [proc[p] EXCEPT !.left = 0] \in [is : {"off", "page", "backoffice"}, left : Nat]
      BY <3>1
    <3> QED BY <3>2 DEF IInv, Typed
  <2>2. temp' \in [Proc -> [now : TempTable, old : TempTable]]
    BY DEF IInv, Typed
  <2> QED BY <2>1, <2>2, NoTypes, EmptyDatabase DEF IInv, Typed
<1>2. \A q \in Proc \ {p} : Good(q)'
  BY Bystander DEF IInv, Typed, TransactionAssumption
<1>3. Good(p)'
  <2>1. proc'[p].is # "off" /\ proc'[p].left = 0
    BY <1>0 DEF IInv, Typed
  <2>2. work'[p] = Empty /\ view'[p] = "none" /\ db'[p] = NoTxn /\ lock' # p /\ mem' = mem
    BY DEF IInv, Typed, TransactionAssumption
  <2>3. Good(p) /\ Typed /\ repo' = repo
    BY DEF IInv
  <2> QED BY <2>1, <2>2, <2>3, RollsBack
<1> QED BY <1>1, <1>2, <1>3 DEF IInv, EventsReachChat, Sound, Stored, Rows

LEMMA ClosePreserves ==
    ASSUME TransactionAssumption, IInv, NEW p \in Proc, Close(p)
    PROVE  IInv'
<1> USE DEF Close, Release
<1>1. Typed'
  BY NoTypes, EmptyDatabase DEF IInv, Typed
<1>2. \A q \in Proc \ {p} : Good(q)'
  BY Bystander DEF IInv, Typed, TransactionAssumption
<1>3. Good(p)'
  BY RollsBack DEF IInv, Typed, TransactionAssumption
<1> QED BY <1>1, <1>2, <1>3 DEF IInv, EventsReachChat, Sound, Stored, Rows

(* A process starts, or enters a transaction.                              *)
LEMMA StartPreserves ==
    ASSUME TransactionAssumption, IInv, NEW p \in Proc, Start(p)
    PROVE  IInv'
<1>1. Typed'
  BY NoTypes DEF IInv, Typed, Start, TransactionAssumption
<1>2. \A q \in Proc \ {p} : Good(q)'
  BY Bystander DEF IInv, Typed, Start
<1>3. Good(p)'
  <2>1. lock # p /\ ~mem[p].triggers /\ proc'[p].is = "page"
    BY DEF IInv, Typed, Good, Isolated, Remembered, Start, NoMem
  <2>2. Isolated(p)'
    BY DEF IInv, Good, Isolated, Start
  <2>3. Remembered(p)'
    BY <2>1 DEF IInv, Good, Remembered, Start
  <2> QED BY <2>2, <2>3 DEF IInv, Good, Start
<1> QED BY <1>1, <1>2, <1>3 DEF IInv, EventsReachChat, Start

LEMMA NestedPreserves ==
    ASSUME TransactionAssumption, IInv, NEW p \in Proc, Nested(p), proc[p].is # "off"
    PROVE  IInv'
<1>1. Typed'
  <2>1. db[p] \in [nBegin : 0 .. MaxNest, doRollback : BOOLEAN,
                  changed : BOOLEAN, wrTxn : BOOLEAN]
    BY DEF IInv, Typed
  <2>2. db[p].nBegin + 1 \in 0 .. MaxNest
    BY <2>1 DEF Nested, TransactionAssumption
  <2>3. db'[p] \in [nBegin : 0 .. MaxNest, doRollback : BOOLEAN,
                   changed : BOOLEAN, wrTxn : BOOLEAN]
    BY <2>1, <2>2 DEF IInv, Typed, Nested
  <2> QED BY <2>3 DEF IInv, Typed, Nested
<1>2. \A q \in Proc \ {p} : Good(q)'
  BY Bystander DEF IInv, Typed, Nested
<1>3. Good(p)'
  <2>1. db'[p].nBegin > 0 /\ db[p].nBegin > 0
        /\ db'[p].wrTxn = db[p].wrTxn /\ db'[p].changed = db[p].changed
    BY DEF IInv, Typed, Nested
  <2>2. Isolated(p)'
    BY <2>1 DEF IInv, Good, Isolated, Nested
  <2>3. Remembered(p)'
    BY <2>1 DEF IInv, Good, Remembered, Nested, Gathered
  <2> QED BY <2>2, <2>3 DEF IInv, Good, Nested
<1> QED BY <1>1, <1>2, <1>3 DEF IInv, EventsReachChat, Nested

LEMMA InnerPreserves ==
    ASSUME TransactionAssumption, IInv, NEW p \in Proc, NEW rollback \in BOOLEAN,
           Inner(p, rollback)
    PROVE  IInv'
<1>1. Typed'
  <2>1. db[p] \in [nBegin : 0 .. MaxNest, doRollback : BOOLEAN,
                  changed : BOOLEAN, wrTxn : BOOLEAN]
    BY DEF IInv, Typed
  <2>2. db[p].nBegin - 1 \in 0 .. MaxNest
    BY <2>1 DEF Inner, TransactionAssumption
  <2>3. db'[p] \in [nBegin : 0 .. MaxNest, doRollback : BOOLEAN,
                   changed : BOOLEAN, wrTxn : BOOLEAN]
    BY <2>1, <2>2 DEF IInv, Typed, Inner
  <2> QED BY <2>3 DEF IInv, Typed, Inner
<1>2. \A q \in Proc \ {p} : Good(q)'
  BY Bystander DEF IInv, Typed, Inner
<1>3. Good(p)'
  <2>1. db'[p].nBegin > 0 /\ db[p].nBegin > 0
        /\ db'[p].wrTxn = db[p].wrTxn /\ db'[p].changed = db[p].changed
    BY DEF IInv, Typed, Inner
  <2>2. Isolated(p)'
    BY <2>1 DEF IInv, Good, Isolated, Inner
  <2>3. Remembered(p)'
    BY <2>1 DEF IInv, Good, Remembered, Inner, Gathered
  <2> QED BY <2>2, <2>3 DEF IInv, Good, Inner
<1> QED BY <1>1, <1>2, <1>3 DEF IInv, EventsReachChat, Inner

LEMMA OutermostPreserves ==
    ASSUME TransactionAssumption, IInv, NEW p \in Proc, NEW writes \in BOOLEAN,
           proc[p].is # "off", db[p].nBegin = 0, Outermost(p, writes),
           repo' = repo, mem' = mem,
           \/ ~writes /\ UNCHANGED <<work, lock, view>>
           \/ writes /\ lock = None /\ lock' = p /\ view' = [view EXCEPT ![p] = "current"]
              /\ work' = [work EXCEPT ![p] = repo]
    PROVE  IInv'
<1> DEFINE DbRecord == [nBegin : 0 .. MaxNest, doRollback : BOOLEAN,
                        changed : BOOLEAN, wrTxn : BOOLEAN]
<1> DEFINE new == [NoTxn EXCEPT !.nBegin = 1, !.wrTxn = writes]
<1>1. new \in DbRecord /\ new.nBegin = 1 /\ new.wrTxn = writes /\ new.changed = FALSE
  <2>1. NoTxn \in DbRecord /\ NoTxn.changed = FALSE
    BY NoTypes DEF NoTxn
  <2>2. 1 \in 0 .. MaxNest
    BY DEF TransactionAssumption
  <2> QED BY <2>1, <2>2
<1>2. db' = [db EXCEPT ![p] = new]
  BY DEF Outermost
<1> HIDE DEF new
<1>3. /\ proc'[p].is = proc[p].is /\ \A q \in Proc \ {p} : proc'[q] = proc[q]
      /\ temp'[p].now = temp[p].now /\ \A q \in Proc \ {p} : temp'[q] = temp[q]
      /\ proc[p].left > 0
  BY DEF Outermost, IInv, Typed
<1>4. Typed'
  <2>1. proc[p] \in [is : {"off", "page", "backoffice"}, left : Nat] /\ proc[p].left > 0
    BY DEF IInv, Typed, Outermost
  <2>2. [proc[p] EXCEPT !.left = @ - 1] \in [is : {"off", "page", "backoffice"}, left : Nat]
    BY <2>1
  <2>3. proc' \in [Proc -> [is : {"off", "page", "backoffice"}, left : Nat]]
    BY <2>2 DEF IInv, Typed, Outermost
  <2>4. temp' \in [Proc -> [now : TempTable, old : TempTable]]
    BY DEF IInv, Typed, Outermost
  <2>5. db' \in [Proc -> DbRecord]
    BY <1>1, <1>2 DEF IInv, Typed
  <2>6. /\ work' \in [Proc -> Database] /\ lock' \in Proc \cup {None}
        /\ view' \in [Proc -> {"none", "current", "stale"}]
    <3>1. CASE ~writes /\ UNCHANGED <<work, lock, view>>
      BY <3>1 DEF IInv, Typed
    <3>2. CASE /\ lock' = p /\ view' = [view EXCEPT ![p] = "current"]
               /\ work' = [work EXCEPT ![p] = repo]
      BY <3>2 DEF IInv, Typed
    <3> QED BY <3>1, <3>2
  <2> QED BY <2>3, <2>4, <2>5, <2>6 DEF IInv, Typed
<1>5. \A q \in Proc \ {p} : Good(q)'
  <2> TAKE q \in Proc \ {p}
  <2>1. work'[q] = work[q] /\ view'[q] = view[q]
    BY DEF IInv, Typed
  <2>2. (lock' = q) <=> (lock = q)
    BY DEF TransactionAssumption
  <2>3. db'[q] = db[q] /\ mem'[q] = mem[q]
    BY <1>2 DEF IInv, Typed
  <2> QED BY <1>3, <2>1, <2>2, <2>3, Bystander DEF IInv
<1>6. Good(p)'
  <2>1. db'[p] = new /\ lock # p /\ view[p] = "none"
    BY <1>2 DEF IInv, Typed, Good, Isolated
  <2>2. Sound(work[p])'
    BY DEF IInv, Typed, Good, Sound, Rows
  <2>3. Isolated(p)'
    BY <1>1, <2>1 DEF IInv, Typed, Isolated, Ahead
  <2>4. Remembered(p)'
    <3>1. work'[p] = repo \/ work'[p] = work[p]
      BY DEF IInv, Typed
    <3>2. work'[p].wrong \subseteq mem'[p].toVerify
      BY <3>1 DEF IInv, Good, Remembered
    <3>3. lock' = p => Gathered(p)' = {}
      BY <2>1 DEF Gathered, IInv, Typed
    <3> QED BY <1>1, <1>3, <2>1, <3>2, <3>3 DEF IInv, Good, Remembered, Rows
  <2> QED BY <2>2, <2>3, <2>4 DEF Good
<1> QED BY <1>4, <1>5, <1>6 DEF IInv, EventsReachChat, Sound, Stored, Rows

LEMMA QueryPreserves ==
    ASSUME TransactionAssumption, IInv, NEW p \in Proc, Query(p)
    PROVE  IInv'
<1>1. Typed'
  BY DEF IInv, Typed, Query
<1>2. \A q \in Proc \ {p} : Good(q)'
  BY Bystander DEF IInv, Typed, Query
<1>3. Good(p)'
  <2>1. lock # p /\ work'[p] = repo /\ view'[p] = "current"
    BY DEF IInv, Typed, Good, Isolated, Query
  <2>2. Isolated(p)'
    BY <2>1 DEF IInv, Good, Isolated, Ahead, Query
  <2>3. Remembered(p)'
    BY <2>1 DEF IInv, Good, Remembered, Query
  <2> QED BY <2>1, <2>2, <2>3 DEF IInv, Good, Query
<1> QED BY <1>1, <1>2, <1>3 DEF IInv, EventsReachChat, Query

-----------------------------------------------------------------------------
(* What a process sees when it may write: the repository, or its own work  *)
(* on top of it; and what it sees while it writes nothing.                 *)
LEMMA SeenBeforeWriting ==
    ASSUME TransactionAssumption, IInv, NEW p \in Proc, MayWrite(p)
    PROVE  /\ Seen(p) \in Database /\ Sound(Seen(p))
           /\ Ahead(Seen(p), repo) /\ Seen(p).chat = repo.chat
           /\ lock = p => Seen(p) = work[p]
           /\ lock # p => Seen(p) = repo
           /\ Seen(p).wrong \subseteq mem[p].toVerify
           /\ \A q \in Proc \ {p} : lock # q
<1>1. Good(p) /\ Typed
  BY DEF IInv
<1>2. lock = p => Seen(p) = work[p]
  BY <1>1 DEF Seen, Good, Isolated
<1>3. lock # p => Seen(p) = repo
  BY <1>1 DEF Seen, Good, Isolated, MayWrite, Typed
<1>4. \A q \in Proc \ {p} : lock # q
  BY DEF MayWrite, TransactionAssumption
<1>5. Ahead(Seen(p), repo) /\ Seen(p).chat = repo.chat
  BY <1>1, <1>2, <1>3 DEF Good, Isolated, Ahead
<1> QED BY <1>1, <1>2, <1>3, <1>4, <1>5 DEF IInv, Typed, Good, Remembered

LEMMA SeenByAll ==
    ASSUME TransactionAssumption, IInv, NEW p \in Proc
    PROVE  /\ Seen(p) \in Database /\ Sound(Seen(p))
           /\ Seen(p).wrong \subseteq mem[p].toVerify
           /\ lock # p => Rows(Seen(p)) \subseteq Rows(repo)
<1>1. Good(p) /\ Typed
  BY DEF IInv
<1>2. lock # p /\ view[p] # "none" => Rows(work[p]) \subseteq Rows(repo)
  BY <1>1 DEF Good, Isolated, Ahead, Rows
<1> QED BY <1>1, <1>2 DEF IInv, Typed, Good, Remembered, Seen

-----------------------------------------------------------------------------
(* A write: the process has the lock then, and sees what it wrote.         *)
LEMMA WritesPreserves ==
    ASSUME TransactionAssumption, IInv, NEW p \in Proc, NEW d \in Database, Writes(p, d),
           Sound(d), Ahead(d, Seen(p)), d.chat = Seen(p).chat,
           db[p].nBegin > 0, repo' = repo, proc' = proc,
           mem' \in [Proc -> [toVerify : SUBSET Rid, needToCheck : SUBSET Rid,
                             triggers : BOOLEAN]],
           temp' \in [Proc -> [now : TempTable, old : TempTable]],
           \A q \in Proc \ {p} : mem'[q] = mem[q] /\ temp'[q] = temp[q],
           d.wrong \subseteq mem'[p].toVerify,
           mem'[p].needToCheck \subseteq mem'[p].toVerify \cup Rows(repo),
           \A art \in (Stored(d) \ Stored(repo)) \cap Checkin :
               mem'[p].triggers /\ temp'[p].now.table /\ art \in temp'[p].now.rows,
           proc[p].is = "page" /\ mem'[p].triggers => temp'[p].now.table
    PROVE  IInv'
<1>1. /\ MayWrite(p) /\ lock' = p /\ view' = [view EXCEPT ![p] = "current"]
      /\ work' = [work EXCEPT ![p] = d] /\ db' = [db EXCEPT ![p].changed = TRUE]
  BY DEF Writes
<1>2. Typed'
  <2>1. [db[p] EXCEPT !.changed = TRUE] \in [nBegin : 0 .. MaxNest, doRollback : BOOLEAN,
                                          changed : BOOLEAN, wrTxn : BOOLEAN]
    <3>1. db[p] \in [nBegin : 0 .. MaxNest, doRollback : BOOLEAN,
                    changed : BOOLEAN, wrTxn : BOOLEAN]
      BY DEF IInv, Typed
    <3> QED BY <3>1
  <2>2. db' \in [Proc -> [nBegin : 0 .. MaxNest, doRollback : BOOLEAN,
                         changed : BOOLEAN, wrTxn : BOOLEAN]]
    BY <1>1, <2>1 DEF IInv, Typed
  <2> QED BY <1>1, <2>2 DEF IInv, Typed
<1>3. \A q \in Proc \ {p} : Good(q)'
  <2> TAKE q \in Proc \ {p}
  <2>1. (lock' = q) <=> (lock = q)
    BY <1>1, SeenBeforeWriting
  <2>2. work'[q] = work[q] /\ view'[q] = view[q] /\ db'[q] = db[q]
    BY <1>1 DEF IInv, Typed
  <2> QED BY <2>1, <2>2, Bystander DEF IInv
<1>4. Good(p)'
  <2>1. work'[p] = d /\ view'[p] = "current" /\ db'[p].nBegin > 0
    BY <1>1 DEF IInv, Typed
  <2>2. Ahead(d, repo) /\ d.chat = repo.chat
    BY <1>1, SeenBeforeWriting DEF Ahead, Rows
  <2>3. Isolated(p)'
    BY <1>1, <2>1, <2>2 DEF Isolated, Ahead, Rows
  <2>4. proc'[p].is # "off"
    BY DEF IInv, Good, Remembered, Typed
  <2>5. Remembered(p)'
    BY <1>1, <2>1, <2>4 DEF Remembered, Gathered, Stored, Rows
  <2> QED BY <2>1, <2>3, <2>5 DEF Good, Sound, Rows
<1> QED BY <1>2, <1>3, <1>4 DEF IInv, EventsReachChat, Sound, Stored, Rows

LEMMA TouchPreserves ==
    ASSUME TransactionAssumption, IInv, NEW p \in Proc, Touch(p)
    PROVE  IInv'
<1>1. Writes(p, Seen(p)) /\ MayWrite(p)
  BY DEF Touch, Writes
<1>2. Good(p) /\ Typed
  BY DEF IInv
<1>3. \A art \in (Stored(Seen(p)) \ Stored(repo)) \cap Checkin :
          mem[p].triggers /\ temp[p].now.table /\ art \in temp[p].now.rows
  BY <1>1, <1>2, SeenBeforeWriting DEF Good, Remembered, Gathered
<1>4. proc[p].is = "page" /\ mem[p].triggers => temp[p].now.table
  BY <1>2 DEF Touch, Good, Remembered
<1>5. mem[p].needToCheck \subseteq mem[p].toVerify \cup Rows(repo)
  BY <1>2 DEF Good, Remembered
<1> QED BY <1>1, <1>2, <1>3, <1>4, <1>5, SeenBeforeWriting, WritesPreserves
        DEF Touch, Typed, Ahead

(* content_put_ex(): a row with a rid that nothing else has.               *)
RowOf(d, r, art, w) == [d EXCEPT !.blob[r] = art, !.wrong = w]

LEMMA RowAdded ==
    ASSUME TransactionAssumption, NEW d \in Database, Sound(d), NEW art \in Artifact,
           art \notin Stored(d), NEW r \in Rid, r \notin Rows(d), NEW w, w = d.wrong \/ w = d.wrong \cup {r}
    PROVE  /\ RowOf(d, r, art, w) \in Database /\ Sound(RowOf(d, r, art, w))
           /\ Ahead(RowOf(d, r, art, w), d)
           /\ Stored(RowOf(d, r, art, w)) = Stored(d) \cup {art}
           /\ Rows(RowOf(d, r, art, w)) = Rows(d) \cup {r}
<1> DEFINE e == RowOf(d, r, art, w)
<1>1. /\ e.blob = [d.blob EXCEPT ![r] = art] /\ e.leaf = d.leaf /\ e.chat = d.chat
      /\ e.wrong = w
      /\ e \in Database
  BY DEF RowOf, Database
<1> HIDE DEF e
<1>2. d.blob \in [Rid -> Artifact \cup {None}] /\ art # None
  BY DEF Database, TransactionAssumption
<1>3. Rows(e) = Rows(d) \cup {r} /\ Ahead(e, d)
  BY <1>1, <1>2 DEF Rows, Ahead
<1>4. Stored(e) = Stored(d) \cup {art}
  BY <1>1, <1>2, <1>3 DEF Rows, Stored
<1>5. Sound(e)
  <2>1. e.wrong \subseteq Rows(e) /\ e.leaf \subseteq Rows(e)
    BY <1>1, <1>3 DEF Sound
  <2>2. \A s \in Rows(d) : e.blob[s] = d.blob[s] /\ d.blob[s] # art
    BY <1>1, <1>2 DEF Rows, Stored
  <2>3. e.blob[r] = art
    BY <1>1, <1>2
  <2>4. ASSUME NEW s \in Rows(e), NEW t \in Rows(e), e.blob[s] = e.blob[t]
        PROVE  s = t
    BY <1>3, <2>2, <2>3, <2>4 DEF Sound
  <2> QED BY <2>1, <2>4 DEF Sound
<1> QED BY <1>1, <1>3, <1>4, <1>5 DEF e

LEMMA PutPreserves ==
    ASSUME TransactionAssumption, IInv, NEW p \in Proc, NEW art \in Artifact,
           NEW ok \in BOOLEAN, Put(p, art, ok)
    PROVE  IInv'
<1> DEFINE d == Seen(p)
           r == FreeRid(d)
           w == IF ok THEN d.wrong ELSE d.wrong \cup {r}
           e == RowOf(d, r, art, w)
           ev == WithTriggers(p)
<1>1. /\ proc[p].is = "page" /\ db[p].nBegin > 0 /\ art \notin Stored(d)
      /\ Writes(p, e) /\ UNCHANGED <<repo, proc>>
      /\ mem' = [mem EXCEPT ![p].toVerify = @ \cup {r},
                           ![p].needToCheck = IF art \in Checkin THEN @ \cup {r} ELSE @,
                           ![p].triggers = @ \/ art \in Checkin]
      /\ temp' = IF art \notin Checkin THEN temp
                 ELSE [temp EXCEPT ![p].now =
                          IF ev.table THEN [ev EXCEPT !.rows = @ \cup {art}] ELSE ev]
  BY DEF Put, RowOf, FreeRid
<1>2. MayWrite(p) /\ Good(p) /\ Typed
  BY <1>1 DEF Writes, IInv
<1>3. /\ d \in Database /\ Sound(d) /\ Ahead(d, repo) /\ d.wrong \subseteq mem[p].toVerify
      /\ lock = p => d = work[p]
      /\ lock # p => d = repo
  BY <1>2, SeenBeforeWriting
<1> HIDE DEF d
<1>4. r \in Rid /\ r \notin Rows(d)
  BY <1>1, <1>3, FreeRidExists
<1> HIDE DEF r
<1>5. /\ e \in Database /\ Sound(e) /\ Ahead(e, d) /\ e.chat = d.chat
      /\ Stored(e) = Stored(d) \cup {art}
      /\ e.wrong \subseteq d.wrong \cup {r}
  <2>1. art \notin Stored(d)
    BY <1>1
  <2>2. w = d.wrong \/ w = d.wrong \cup {r}
    OBVIOUS
  <2> HIDE DEF w
  <2>3. e \in Database /\ Sound(e) /\ Ahead(e, d) /\ Stored(e) = Stored(d) \cup {art}
    BY <1>3, <1>4, <2>1, <2>2, RowAdded
  <2>4. e.chat = d.chat /\ e.wrong = w
    BY <1>3 DEF RowOf, Database
  <2> QED BY <2>2, <2>3, <2>4
<1> HIDE DEF e
<1>6. /\ mem' \in [Proc -> [toVerify : SUBSET Rid, needToCheck : SUBSET Rid,
                            triggers : BOOLEAN]]
      /\ \A q \in Proc \ {p} : mem'[q] = mem[q]
      /\ mem'[p].toVerify = mem[p].toVerify \cup {r}
      /\ mem'[p].needToCheck \subseteq mem[p].needToCheck \cup {r}
      /\ mem'[p].triggers <=> mem[p].triggers \/ art \in Checkin
  <2>1. mem[p] \in [toVerify : SUBSET Rid, needToCheck : SUBSET Rid, triggers : BOOLEAN]
    BY <1>2 DEF Typed
  <2>2. /\ mem'[p].toVerify = mem[p].toVerify \cup {r}
        /\ mem'[p].needToCheck = IF art \in Checkin THEN mem[p].needToCheck \cup {r}
                                  ELSE mem[p].needToCheck
        /\ mem'[p].triggers = (mem[p].triggers \/ art \in Checkin)
        /\ \A q \in Proc \ {p} : mem'[q] = mem[q]
    BY <1>1, <1>2 DEF Typed
  <2>3. mem' \in [Proc -> [toVerify : SUBSET Rid, needToCheck : SUBSET Rid,
                          triggers : BOOLEAN]]
    <3> DEFINE n == IF art \in Checkin THEN mem[p].needToCheck \cup {r} ELSE mem[p].needToCheck
               t == mem[p].triggers \/ art \in Checkin
    <3>1. n \in SUBSET Rid /\ t \in BOOLEAN /\ mem[p].toVerify \cup {r} \in SUBSET Rid
      BY <1>4, <2>1
    <3>2. mem' = [mem EXCEPT ![p].toVerify = mem[p].toVerify \cup {r}, ![p].needToCheck = n,
                             ![p].triggers = t]
      BY <1>1, <1>2 DEF Typed
    <3>3. mem \in [Proc -> [toVerify : SUBSET Rid, needToCheck : SUBSET Rid,
                           triggers : BOOLEAN]]
      BY <1>2 DEF Typed
    <3> HIDE DEF n, t
    <3> QED BY <3>1, <3>2, <3>3
  <2> QED BY <2>1, <2>2, <2>3
<1>7. /\ temp' \in [Proc -> [now : TempTable, old : TempTable]]
      /\ \A q \in Proc \ {p} : temp'[q] = temp[q]
      /\ art \notin Checkin => temp' = temp
      /\ art \in Checkin => temp'[p].now.table /\ art \in temp'[p].now.rows
                         /\ (mem[p].triggers => temp[p].now.rows \subseteq temp'[p].now.rows)
  <2>1. mem[p].triggers => temp[p].now.table
    BY <1>1, <1>2 DEF Good, Remembered
  <2>2. ev.table /\ ev \in TempTable /\ (mem[p].triggers => ev = temp[p].now)
    BY <1>2, <2>1 DEF WithTriggers, Typed, TempTable
  <2>3. CASE art \notin Checkin
    BY <1>1, <1>2, <2>3 DEF Typed
  <2>4. CASE art \in Checkin
    <3> DEFINE n == [ev EXCEPT !.rows = @ \cup {art}]
    <3>1. n \in TempTable /\ n.table /\ n.rows = ev.rows \cup {art}
      BY <2>2, <2>4 DEF TempTable
    <3>2. temp' = [temp EXCEPT ![p].now = n]
      BY <1>1, <2>2, <2>4
    <3> HIDE DEF n, ev
    <3>3. /\ temp' \in [Proc -> [now : TempTable, old : TempTable]]
          /\ temp'[p].now = n /\ \A q \in Proc \ {p} : temp'[q] = temp[q]
      BY <1>2, <3>1, <3>2 DEF Typed
    <3> QED BY <2>2, <2>4, <3>1, <3>3
  <2> QED BY <2>3, <2>4
<1>8. \A c \in (Stored(e) \ Stored(repo)) \cap Checkin :
          mem'[p].triggers /\ temp'[p].now.table /\ c \in temp'[p].now.rows
  <2> SUFFICES ASSUME NEW c \in (Stored(e) \ Stored(repo)) \cap Checkin
               PROVE  mem'[p].triggers /\ temp'[p].now.table /\ c \in temp'[p].now.rows
    OBVIOUS
  <2>1. CASE c = art
    BY <1>6, <1>7, <2>1
  <2>2. CASE c # art
    <3>1. lock = p /\ c \in Gathered(p) \cap Checkin
      BY <1>3, <1>5, <2>2 DEF Gathered
    <3>2. mem[p].triggers /\ temp[p].now.table /\ c \in temp[p].now.rows
      BY <1>2, <3>1 DEF Good, Remembered
    <3> QED BY <1>6, <1>7, <3>2
  <2> QED BY <2>1, <2>2
<1>9. proc[p].is = "page" /\ mem'[p].triggers => temp'[p].now.table
  BY <1>1, <1>2, <1>6, <1>7 DEF Good, Remembered
<1>10. mem'[p].needToCheck \subseteq mem'[p].toVerify \cup Rows(repo)
  BY <1>2, <1>6 DEF Good, Remembered
<1>11. e.wrong \subseteq mem'[p].toVerify
  BY <1>3, <1>5, <1>6
<1>12. Ahead(e, Seen(p)) /\ e.chat = Seen(p).chat
  BY <1>5 DEF d
<1> QED BY <1>1, <1>5, <1>6, <1>7, <1>8, <1>9, <1>10, <1>11, <1>12, WritesPreserves

-----------------------------------------------------------------------------
(* db_end_transaction() at the outermost level, with nothing to roll back: *)
(* the database that the leaf checks and the chat hook make of what the    *)
(* process sees, and that is committed when it is verified.                *)
Outcome(p) == ChatHook(p, LeafChecks(p, Seen(p)))

LEMMA OutcomeIs ==
    ASSUME TransactionAssumption, IInv, NEW p \in Proc
    PROVE  /\ Outcome(p).blob = Seen(p).blob /\ Outcome(p).wrong = Seen(p).wrong
           /\ Rows(Outcome(p)) = Rows(Seen(p)) /\ Stored(Outcome(p)) = Stored(Seen(p))
           /\ Outcome(p).leaf = IF db[p].changed THEN Seen(p).leaf \cup mem[p].needToCheck
                               ELSE Seen(p).leaf
           /\ \A art \in Checkin :
                 /\ Outcome(p).chat[art] >= Seen(p).chat[art]
                 /\ art \in Relayed(p) => Outcome(p).chat[art] > 0
           /\ Outcome(p) \in Database
<1> DEFINE d == Seen(p)
           c == LeafChecks(p, d)
           e == ChatHook(p, c)
<1>1. d \in Database
  BY SeenByAll
<1> HIDE DEF d
<1>2. /\ c.blob = d.blob /\ c.wrong = d.wrong /\ c.chat = d.chat
      /\ c.leaf = IF db[p].changed THEN d.leaf \cup mem[p].needToCheck ELSE d.leaf
      /\ c \in Database
  <2>1. mem[p].needToCheck \in SUBSET Rid
    BY DEF IInv, Typed
  <2> QED BY <1>1, <2>1 DEF LeafChecks, Database
<1> HIDE DEF c
<1>3. /\ e.blob = c.blob /\ e.wrong = c.wrong /\ e.leaf = c.leaf
      /\ e.chat = [art \in Checkin |-> IF art \in Relayed(p) THEN c.chat[art] + 1 ELSE c.chat[art]]
  BY <1>2 DEF ChatHook, Database
<1>4. c.chat \in [Checkin -> Nat]
  BY <1>2 DEF Database
<1>5. e.chat \in [Checkin -> Nat]
  BY <1>3, <1>4
<1>6. e \in Database
  BY <1>2, <1>5 DEF ChatHook, Database
<1> HIDE DEF e
<1>7. \A art \in Checkin : e.chat[art] >= d.chat[art] /\ (art \in Relayed(p) => e.chat[art] > 0)
  BY <1>2, <1>3, <1>4
<1>8. Rows(e) = Rows(d) /\ Stored(e) = Stored(d)
  BY <1>2, <1>3 DEF Rows, Stored
<1>9. Outcome(p) = e
  BY DEF Outcome, d, c, e
<1> HIDE DEF Outcome
<1> QED BY <1>2, <1>3, <1>6, <1>7, <1>8, <1>9 DEF d

(* A verified commit: what the process has written is in the repository.   *)
LEMMA CommitGives ==
    ASSUME TransactionAssumption, IInv, NEW p \in Proc, NEW rollback \in BOOLEAN,
           Commit(p, rollback), VerifyHook(p, Outcome(p))
    PROVE  LET writes == lock = p \/ Outcome(p) # Seen(p)
           IN  /\ db[p].nBegin = 1 /\ ~db[p].doRollback
               /\ writes => MayWrite(p)
               /\ repo' = IF writes THEN Outcome(p) ELSE repo
               /\ view' = [q \in Proc |-> IF q = p THEN "none"
                                         ELSE IF writes /\ view[q] # "none" THEN "stale"
                                         ELSE view[q]]
               /\ work' = [work EXCEPT ![p] = Empty]
               /\ lock' = IF lock = p THEN None ELSE lock
               /\ db' = [db EXCEPT ![p] = NoTxn]
               /\ mem' = [mem EXCEPT ![p].toVerify = {},
                                    ![p].needToCheck = IF db[p].changed THEN {} ELSE @]
               /\ UNCHANGED <<proc, temp>>
BY DEF Commit, Committed, Release, Outcome, MayWrite

LEMMA CommitPreserves ==
    ASSUME TransactionAssumption, IInv, NEW p \in Proc, NEW rollback \in BOOLEAN,
           Commit(p, rollback)
    PROVE  IInv'
<1> DEFINE d == Seen(p)
           e == Outcome(p)
           writes == lock = p \/ e # d
<1>1. CASE ~VerifyHook(p, e)
  BY <1>1, DiesPreserves DEF Commit, Outcome
<1>2. CASE VerifyHook(p, e)
  <2>1. Good(p) /\ Typed
    BY DEF IInv
  <2>2. /\ db[p].nBegin = 1 /\ (writes => MayWrite(p))
        /\ repo' = IF writes THEN e ELSE repo
        /\ view' = [q \in Proc |-> IF q = p THEN "none"
                                  ELSE IF writes /\ view[q] # "none" THEN "stale" ELSE view[q]]
        /\ work' = [work EXCEPT ![p] = Empty]
        /\ lock' = IF lock = p THEN None ELSE lock
        /\ db' = [db EXCEPT ![p] = NoTxn]
        /\ mem' = [mem EXCEPT ![p].toVerify = {},
                             ![p].needToCheck = IF db[p].changed THEN {} ELSE @]
        /\ UNCHANGED <<proc, temp>>
    BY <1>2, CommitGives
  <2>3. /\ e.blob = d.blob /\ e.wrong = d.wrong
        /\ Rows(e) = Rows(d) /\ Stored(e) = Stored(d)
        /\ e.leaf \subseteq d.leaf \cup mem[p].needToCheck
        /\ db[p].changed \/ e.leaf = d.leaf
        /\ e \in Database
    BY OutcomeIs
  <2>3a. \A art \in Checkin : e.chat[art] >= d.chat[art]
    BY OutcomeIs
  <2>3b. \A art \in Checkin : art \in Relayed(p) => e.chat[art] > 0
    BY OutcomeIs
  <2>4. d \in Database /\ Sound(d) /\ d.wrong \subseteq mem[p].toVerify
        /\ (lock # p => Rows(d) \subseteq Rows(repo))
    BY SeenByAll
  <2>5. writes => /\ Ahead(d, repo) /\ d.chat = repo.chat
                  /\ lock = p => d = work[p]
                  /\ lock # p => d = repo
                  /\ \A q \in Proc \ {p} : lock # q
    BY <2>2, SeenBeforeWriting
  <2>6. mem[p].toVerify \subseteq Rows(d) /\ e.wrong = {}
    BY <1>2, <2>3, <2>4 DEF VerifyHook
  <2> HIDE DEF d, e
  <2>7. Typed'
    <3>1. /\ repo' \in Database /\ work' \in [Proc -> Database] /\ lock' \in Proc \cup {None}
          /\ view' \in [Proc -> {"none", "current", "stale"}]
          /\ proc' \in [Proc -> [is : {"off", "page", "backoffice"}, left : Nat]]
          /\ temp' \in [Proc -> [now : TempTable, old : TempTable]]
      BY <2>1, <2>2, <2>3, EmptyDatabase DEF Typed
    <3>2. db' \in [Proc -> [nBegin : 0 .. MaxNest, doRollback : BOOLEAN,
                           changed : BOOLEAN, wrTxn : BOOLEAN]]
      BY <2>1, <2>2, NoTypes DEF Typed
    <3>3. mem' \in [Proc -> [toVerify : SUBSET Rid, needToCheck : SUBSET Rid,
                            triggers : BOOLEAN]]
      <4> DEFINE n == IF db[p].changed THEN {} ELSE mem[p].needToCheck
      <4>1. mem \in [Proc -> [toVerify : SUBSET Rid, needToCheck : SUBSET Rid,
                             triggers : BOOLEAN]]
        BY <2>1 DEF Typed
      <4>2. n \in SUBSET Rid
        BY <4>1
      <4>3. mem' = [mem EXCEPT ![p].toVerify = {}, ![p].needToCheck = n]
        BY <2>2, <4>1
      <4> HIDE DEF n
      <4> QED BY <4>1, <4>2, <4>3
    <3> QED BY <3>1, <3>2, <3>3 DEF Typed
  <2>8. Rows(repo) \subseteq Rows(repo')
    BY <2>2, <2>3, <2>5, <2>1 DEF Ahead, Rows, Typed, Database, TransactionAssumption
  <2>9. Sound(repo') /\ repo'.wrong = {}
    <3>1. CASE ~writes
      BY <2>2, <3>1 DEF IInv
    <3>2. CASE writes
      <4>1. mem[p].needToCheck \subseteq Rows(d) \/ ~db[p].changed
        BY <2>1, <2>5, <2>6, <2>8, <3>2, <2>2, <2>3 DEF Good, Remembered
      <4>2. e.leaf \subseteq Rows(e)
        BY <2>3, <2>4, <4>1 DEF Sound
      <4>3. \A r, s \in Rows(e) : e.blob[r] = e.blob[s] => r = s
        BY <2>3, <2>4 DEF Sound
      <4> QED BY <2>2, <2>6, <3>2, <4>2, <4>3 DEF Sound
    <3> QED BY <3>1, <3>2
  <2>10. EventsReachChat'
    <3>1. CASE ~writes
      BY <2>2, <3>1 DEF IInv, EventsReachChat, Stored, Rows
    <3>2. CASE writes
      <4> SUFFICES ASSUME NEW art \in Stored(e) \cap Checkin
                   PROVE  e.chat[art] > 0
        BY <2>2, <3>2 DEF EventsReachChat, Stored, Rows
      <4>1. CASE art \in Stored(repo)
        <5>1. repo.chat[art] > 0 /\ d.chat = repo.chat
          BY <2>5, <3>2, <4>1 DEF IInv, EventsReachChat
        <5>2. e.chat \in [Checkin -> Nat] /\ repo.chat \in [Checkin -> Nat]
          BY <2>1, <2>3 DEF Typed, Database
        <5>3. e.chat[art] >= d.chat[art]
          BY <2>3a
        <5> QED BY <5>1, <5>2, <5>3
      <4>2. CASE art \notin Stored(repo)
        <5>1. lock = p /\ art \in Gathered(p)
          BY <2>3, <2>5, <3>2, <4>2 DEF Gathered
        <5>2. temp[p].now.table /\ art \in temp[p].now.rows
          BY <2>1, <5>1 DEF Good, Remembered
        <5>3. art \in Relayed(p)
          BY <5>2 DEF Relayed
        <5> QED BY <2>3b, <5>3
      <4> QED BY <4>1, <4>2
    <3> QED BY <3>1, <3>2
  <2>11. ASSUME NEW q \in Proc \ {p}
         PROVE  Good(q)'
    <3>1. /\ work'[q] = work[q] /\ db'[q] = db[q] /\ mem'[q] = mem[q]
          /\ temp'[q] = temp[q] /\ proc'[q] = proc[q]
          /\ view'[q] = IF writes /\ view[q] # "none" THEN "stale" ELSE view[q]
          /\ (lock' = q) <=> (lock = q)
      BY <2>1, <2>2 DEF Typed, TransactionAssumption
    <3>2. Good(q)
      BY DEF IInv
    <3>3. CASE ~writes
      BY <2>2, <3>1, <3>2, <3>3, Bystander
    <3>4. CASE writes
      <4>1. lock # q /\ lock' # q
        BY <2>5, <3>1, <3>4
      <4>2. view[q] # "none" => Ahead(repo, work[q])
        BY <3>2, <4>1 DEF Good, Isolated
      <4>3. repo' = e /\ Ahead(d, repo) /\ e.blob = d.blob
        BY <2>2, <2>3, <2>5, <3>4
      <4>4. view[q] # "none" => Ahead(repo', work[q])
        BY <4>2, <4>3, <2>1, <2>3, <2>4
           DEF Ahead, Rows, Typed, Database, TransactionAssumption
      <4>5. Isolated(q)'
        BY <3>1, <3>2, <3>4, <4>1, <4>4 DEF Good, Isolated, Ahead, Rows
      <4>6. Remembered(q)'
        BY <2>8, <3>1, <3>2, <4>1 DEF Good, Remembered, Rows
      <4> QED BY <3>1, <3>2, <4>5, <4>6 DEF Good, Sound, Rows
    <3> QED BY <3>3, <3>4
  <2>12. Good(p)'
    <3>1. /\ work'[p] = Empty /\ view'[p] = "none" /\ db'[p] = NoTxn /\ lock' # p
          /\ proc'[p] = proc[p] /\ temp'[p] = temp[p]
          /\ mem'[p].toVerify = {} /\ mem'[p].triggers = mem[p].triggers
          /\ mem'[p].needToCheck = IF db[p].changed THEN {} ELSE mem[p].needToCheck
      BY <2>1, <2>2 DEF Typed, TransactionAssumption
    <3>2. Isolated(p)'
      BY <3>1 DEF Isolated, NoTxn
    <3>3. mem[p].needToCheck \subseteq Rows(repo')
      <4>1. Rows(d) \subseteq Rows(repo')
        BY <2>2, <2>3, <2>4, <2>8
      <4> QED BY <2>1, <2>6, <2>8, <4>1 DEF Good, Remembered
    <3>4. Remembered(p)'
      <4>1. proc[p].is # "off"
        BY <2>1, <2>2 DEF Good, Remembered
      <4>2. work'[p].wrong \subseteq mem'[p].toVerify
        BY <3>1 DEF Empty
      <4>3. mem'[p].needToCheck \subseteq mem'[p].toVerify \cup Rows(repo')
        BY <3>1, <3>3
      <4>4. proc'[p].is = "page" /\ mem'[p].triggers => temp'[p].now.table
        BY <2>1, <2>2, <3>1 DEF Good, Remembered
      <4> QED BY <3>1, <4>1, <4>2, <4>3, <4>4 DEF Remembered, Rows
    <3> QED BY <3>1, <3>2, <3>4, EmptyDatabase DEF Good, Sound, Rows
  <2> QED BY <2>7, <2>9, <2>10, <2>11, <2>12 DEF IInv, Sound, Rows
<1> QED BY <1>1, <1>2

-----------------------------------------------------------------------------
(* Every step preserves the inductive invariant.                           *)
LEMMA StepPreserves == ASSUME TransactionAssumption, IInv, [Next]_vars
                       PROVE  IInv'
<1>1. CASE UNCHANGED vars
  <2>1. \A p \in Proc : Good(p)'
    BY <1>1, Bystander DEF vars, IInv
  <2> QED BY <1>1, <2>1 DEF vars, IInv, Typed, EventsReachChat, Stored, Rows, Sound
<1>2. ASSUME NEW p \in Proc, Start(p)
      PROVE  IInv'
  BY <1>2, StartPreserves
<1>3. ASSUME NEW p \in Proc, BeginTransaction(p)
      PROVE  IInv'
  <2>1. CASE Nested(p)
    BY <1>3, <2>1, NestedPreserves DEF BeginTransaction
  <2>2. CASE db[p].nBegin = 0 /\ Outermost(p, FALSE) /\ UNCHANGED <<repo, work, lock, view, mem>>
    BY <1>3, <2>2, OutermostPreserves DEF BeginTransaction
  <2> QED BY <1>3, <2>1, <2>2 DEF BeginTransaction
<1>4. ASSUME NEW p \in Proc, BeginWrite(p)
      PROVE  IInv'
  <2>1. CASE Nested(p)
    BY <1>4, <2>1, NestedPreserves DEF BeginWrite
  <2>2. CASE ~Nested(p)
    BY <1>4, <2>2, OutermostPreserves DEF BeginWrite
  <2> QED BY <2>1, <2>2
<1>5. ASSUME NEW p \in Proc, Query(p)
      PROVE  IInv'
  BY <1>5, QueryPreserves
<1>6. ASSUME NEW p \in Proc, NEW art \in Artifact, NEW ok \in BOOLEAN, Put(p, art, ok)
      PROVE  IInv'
  BY <1>6, PutPreserves
<1>7. ASSUME NEW p \in Proc, Touch(p)
      PROVE  IInv'
  BY <1>7, TouchPreserves
<1>8. ASSUME NEW p \in Proc, EndTransaction(p)
      PROVE  IInv'
  BY <1>8, InnerPreserves, RollbackPreserves, CommitPreserves DEF EndTransaction
<1>9. ASSUME NEW p \in Proc, Busy(p) \/ Kill(p)
      PROVE  IInv'
  BY <1>9, DiesPreserves DEF Busy, Kill
<1>10. ASSUME NEW p \in Proc, Close(p)
       PROVE  IInv'
  BY <1>10, ClosePreserves
<1> QED BY <1>1, <1>2, <1>3, <1>4, <1>5, <1>6, <1>7, <1>8, <1>9, <1>10 DEF Next

(* The strengthened invariant of the transactions holds in every behaviour  *)
(* of the processes that share the database.                                *)
THEOREM Invariant == ASSUME TransactionAssumption
                     PROVE  Spec => []IInv
<1>1. Init => IInv
  BY InitEstablishes
<1>2. IInv /\ [Next]_vars => IInv'
  BY StepPreserves
<1> QED BY <1>1, <1>2, PTL DEF Spec

(* The types of the state, and that a process outside of a transaction     *)
(* holds nothing of the database (db.c).                                   *)
THEOREM TransactionsTyped == ASSUME TransactionAssumption
                             PROVE  Spec => []TypeOK
<1>1. IInv => TypeOK
  <2> SUFFICES ASSUME IInv PROVE TypeOK
    OBVIOUS
  <2>1. \A d \in {repo} \cup {work[p] : p \in Proc} : d \in Database /\ Sound(d)
    BY DEF IInv, Typed, Good
  <2>2. \A d \in {repo} \cup {work[p] : p \in Proc} :
          /\ d.blob \in [Rid -> Artifact \cup {None}]
          /\ d.wrong \subseteq Rows(d)
          /\ d.leaf \subseteq Rid
          /\ \A r, s \in Rows(d) : d.blob[r] = d.blob[s] => r = s
    BY <2>1 DEF Sound, Database
  <2>3. ASSUME NEW p \in Proc
        PROVE  /\ db[p].nBegin \in 0..MaxNest
               /\ db[p].nBegin = 0 => db[p] = NoTxn /\ view[p] = "none" /\ lock # p
               /\ db[p].wrTxn \/ db[p].changed => lock = p
               /\ lock = p => view[p] = "current"
               /\ mem[p].toVerify \cup mem[p].needToCheck \subseteq Rid
    <3>1. Typed /\ Isolated(p)
      BY DEF IInv, Good
    <3> QED BY <3>1 DEF Typed, Isolated
  <2> QED BY <2>2, <2>3 DEF TypeOK, IInv, Typed
<1> QED BY <1>1, Invariant, PTL

(* What a commit derives from the memory of its process is right, even     *)
(* though that memory outlives rolled-back transactions (leaf.c, alerts.c, *)
(* verify.c): a leaf names an artifact, and a check-in has its event.      *)
THEOREM DerivedFromMemory == ASSUME TransactionAssumption
                             PROVE  Spec => []DerivedIsRight
<1>1. IInv => DerivedIsRight
  BY DEF IInv, Sound, DerivedIsRight, LeafRowsExist
<1> QED BY <1>1, Invariant, PTL

-----------------------------------------------------------------------------
(* The refinement: what an open transaction has gathered, and the rows of  *)
(* it that cannot be read back.                                            *)
Gained(d, e) == Stored(d) \ Stored(e)
Unread(d) == {d.blob[r] : r \in d.wrong}
Todo == [p \in Proc |-> IF lock = p THEN Gathered(p) ELSE {}]
Broken == [p \in Proc |-> IF lock = p THEN {work[p].blob[r] : r \in work[p].wrong} ELSE {}]
Refused == [p \in Proc |-> db[p].doRollback]

(* A step that changes nothing the abstract specification shows.           *)
LEMMA Stutters ==
    ASSUME Stored(repo)' = Stored(repo), Todo' = Todo, Broken' = Broken, Refused' = Refused
    PROVE  AtomicStep
BY DEF AtomicStep, Atomic!vars, Todo, Broken, Refused

(* Functions on the processes that differ at one of them.                  *)
LEMMA Update ==
    ASSUME NEW S, NEW f, NEW g, f = [q \in S |-> f[q]], g = [q \in S |-> g[q]],
           NEW p \in S, NEW v, g[p] = v, \A q \in S \ {p} : g[q] = f[q]
    PROVE  g = [f EXCEPT ![p] = v]
OBVIOUS

LEMMA OnProcesses ==
    /\ Todo = [q \in Proc |-> Todo[q]] /\ Todo' = [q \in Proc |-> Todo'[q]]
    /\ Broken = [q \in Proc |-> Broken[q]] /\ Broken' = [q \in Proc |-> Broken'[q]]
    /\ Refused = [q \in Proc |-> Refused[q]] /\ Refused' = [q \in Proc |-> Refused'[q]]
BY DEF Todo, Broken, Refused

(* What the abstract specification shows of a process, by its lock.        *)
LEMMA ShownUnlocked ==
    ASSUME NEW q \in Proc
    PROVE  /\ lock # q => Todo[q] = {} /\ Broken[q] = {}
           /\ lock = q => Todo[q] = Gained(work[q], repo) /\ Broken[q] = Unread(work[q])
           /\ lock' # q => Todo'[q] = {} /\ Broken'[q] = {}
           /\ lock' = q => Todo'[q] = Gained(work'[q], repo') /\ Broken'[q] = Unread(work'[q])
BY DEF Todo, Broken, Gathered, Stored, Rows, Gained, Unread

(* The end of a transaction: nothing is gathered any more.                 *)
LEMMA Clears ==
    ASSUME TransactionAssumption, IInv, NEW p \in Proc,
           lock' = (IF lock = p THEN None ELSE lock), work' = [work EXCEPT ![p] = Empty],
           db' = [db EXCEPT ![p] = NoTxn],
           lock \in Proc \ {p} => repo' = repo
    PROVE  /\ Todo' = [Todo EXCEPT ![p] = {}]
           /\ Broken' = [Broken EXCEPT ![p] = {}]
           /\ Refused' = [Refused EXCEPT ![p] = FALSE]
<1>1. \A q \in Proc \ {p} : work'[q] = work[q] /\ db'[q] = db[q] /\ ((lock' = q) <=> (lock = q))
  BY DEF IInv, Typed, TransactionAssumption
<1>2. lock' # p /\ db'[p] = NoTxn
  BY DEF IInv, Typed, TransactionAssumption
<1>3. ASSUME NEW q \in Proc \ {p}
      PROVE  Todo'[q] = Todo[q] /\ Broken'[q] = Broken[q]
  <2>1. CASE lock = q
    BY <1>1, <2>1, ShownUnlocked
  <2>2. CASE lock # q
    BY <1>1, <2>2, ShownUnlocked
  <2> QED BY <2>1, <2>2
<1>4. Todo'[p] = {} /\ Broken'[p] = {}
  BY <1>2, ShownUnlocked
<1>5. Todo' = [Todo EXCEPT ![p] = {}] /\ Broken' = [Broken EXCEPT ![p] = {}]
  BY <1>3, <1>4, OnProcesses, Update
<1>6. Refused'[p] = FALSE /\ \A q \in Proc \ {p} : Refused'[q] = Refused[q]
  BY <1>1, <1>2 DEF Refused, NoTxn
<1>7. Refused' = [Refused EXCEPT ![p] = FALSE]
  BY <1>6, OnProcesses, Update
<1> QED BY <1>5, <1>7

(* A process that gives up what it gathered.                               *)
LEMMA Aborts ==
    ASSUME TransactionAssumption, IInv, NEW p \in Proc, repo' = repo,
           lock' = (IF lock = p THEN None ELSE lock), work' = [work EXCEPT ![p] = Empty],
           db' = [db EXCEPT ![p] = NoTxn]
    PROVE  AtomicStep
<1>1. Stored(repo)' = Stored(repo)
  BY DEF Stored, Rows
<1>2. /\ Todo' = [Todo EXCEPT ![p] = {}]
      /\ Broken' = [Broken EXCEPT ![p] = {}]
      /\ Refused' = [Refused EXCEPT ![p] = FALSE]
  BY Clears
<1>3. Atomic!Abort(p)
  BY <1>1, <1>2 DEF Atomic!Abort, Atomic!Clear, Todo, Broken, Refused
<1> QED BY <1>3 DEF AtomicStep, Atomic!Next

(* What the processes have gathered when one of them may write.            *)
LEMMA WriterGathers ==
    ASSUME TransactionAssumption, IInv, NEW p \in Proc, MayWrite(p)
    PROVE  /\ \A q \in Proc \ {p} : lock # q /\ Todo[q] = {} /\ Broken[q] = {}
           /\ Todo[p] = Gained(Seen(p), repo)
           /\ Broken[p] = Unread(Seen(p))
           /\ Stored(repo) \subseteq Stored(Seen(p))
<1>1. /\ lock = p => Seen(p) = work[p]
      /\ lock # p => Seen(p) = repo
      /\ \A q \in Proc \ {p} : lock # q
      /\ Ahead(Seen(p), repo)
  BY SeenBeforeWriting
<1>2. Stored(repo) \subseteq Stored(Seen(p))
  BY <1>1 DEF Ahead, Stored, Rows, IInv, Typed, Database, TransactionAssumption
<1>3. Gained(repo, repo) = {} /\ Unread(repo) = {}
  BY DEF IInv, Gained, Unread
<1> QED BY <1>1, <1>2, <1>3, ShownUnlocked

(* Writing d: the process gathers what is new in it.                       *)
LEMMA WriteGathers ==
    ASSUME TransactionAssumption, IInv, NEW p \in Proc, NEW d, Writes(p, d), repo' = repo
    PROVE  /\ Stored(repo)' = Stored(repo) /\ Refused' = Refused
           /\ Todo' = [Todo EXCEPT ![p] = Gained(d, repo)]
           /\ Broken' = [Broken EXCEPT ![p] = Unread(d)]
<1>1. MayWrite(p) /\ lock' = p /\ work' = [work EXCEPT ![p] = d]
      /\ db' = [db EXCEPT ![p].changed = TRUE]
  BY DEF Writes
<1>2. \A q \in Proc \ {p} : lock # q /\ lock' # q
  BY <1>1, SeenBeforeWriting
<1>3. work'[p] = d
  BY <1>1 DEF IInv, Typed
<1>4. Stored(repo)' = Stored(repo)
  BY DEF Stored, Rows
<1>5. \A q \in Proc : db'[q].doRollback = db[q].doRollback
  BY <1>1 DEF IInv, Typed
<1>6. Refused' = Refused
  BY <1>5 DEF Refused
<1>7. Todo'[p] = Gained(d, repo) /\ Broken'[p] = Unread(d)
  BY <1>1, <1>3, ShownUnlocked
<1>8. \A q \in Proc \ {p} : Todo'[q] = Todo[q] /\ Broken'[q] = Broken[q]
  BY <1>2, ShownUnlocked
<1>9. Todo' = [Todo EXCEPT ![p] = Gained(d, repo)] /\ Broken' = [Broken EXCEPT ![p] = Unread(d)]
  BY <1>7, <1>8, OnProcesses, Update
<1> QED BY <1>4, <1>6, <1>9

LEMMA PutGathers ==
    ASSUME TransactionAssumption, IInv, NEW p \in Proc, NEW art \in Artifact,
           NEW ok \in BOOLEAN, Put(p, art, ok)
    PROVE  AtomicStep
<1> DEFINE d == Seen(p)
           r == FreeRid(d)
           w == IF ok THEN d.wrong ELSE d.wrong \cup {r}
           e == RowOf(d, r, art, w)
<1>1. art \notin Stored(d) /\ Writes(p, e) /\ MayWrite(p) /\ repo' = repo
  BY DEF Put, RowOf, FreeRid, Writes
<1>2. d \in Database /\ Sound(d)
  BY <1>1, SeenBeforeWriting
<1>3. Stored(repo)' = Stored(repo) /\ Refused' = Refused
      /\ Todo' = [Todo EXCEPT ![p] = Gained(e, repo)]
      /\ Broken' = [Broken EXCEPT ![p] = Unread(e)]
  BY <1>1, WriteGathers
<1>4. /\ \A q \in Proc \ {p} : Todo[q] = {} /\ Broken[q] = {}
      /\ Todo[p] = Gained(d, repo)
      /\ Broken[p] = Unread(d)
      /\ Stored(repo) \subseteq Stored(d)
  BY <1>1, WriterGathers
<1> HIDE DEF d
<1>5. r \in Rid /\ r \notin Rows(d)
  BY <1>1, <1>2, FreeRidExists
<1> HIDE DEF r
<1>6. w = d.wrong \/ w = d.wrong \cup {r}
  OBVIOUS
<1> HIDE DEF w
<1>7. Stored(e) = Stored(d) \cup {art}
  BY <1>1, <1>2, <1>5, <1>6, RowAdded
<1>8. e.wrong = w /\ e.blob = [d.blob EXCEPT ![r] = art]
  BY <1>2 DEF RowOf, Database
<1> HIDE DEF e
<1>9. d.wrong \subseteq Rows(d) /\ d.blob \in [Rid -> Artifact \cup {None}]
  BY <1>2 DEF Sound, Database
<1>10. \A s \in d.wrong : e.blob[s] = d.blob[s]
  BY <1>5, <1>8, <1>9
<1>11. e.blob[r] = art
  BY <1>5, <1>8, <1>9
<1>12. Gained(e, repo) = Todo[p] \cup {art}
  BY <1>1, <1>4, <1>7 DEF Gained
<1>13. Unread(e) = Broken[p] \/ Unread(e) = Broken[p] \cup {art}
  <2>1. CASE w = d.wrong
    BY <1>4, <1>8, <1>10, <2>1 DEF Unread
  <2>2. CASE w = d.wrong \cup {r}
    BY <1>4, <1>8, <1>10, <1>11, <2>2 DEF Unread
  <2> QED BY <1>6, <2>1, <2>2
<1>14. Todo' = [Todo EXCEPT ![p] = @ \cup {art}]
  BY <1>3, <1>12
<1>15. Broken' = Broken \/ Broken' = [Broken EXCEPT ![p] = @ \cup {art}]
  BY <1>3, <1>13 DEF Broken
<1>16. Atomic!Gather(p, art)
  BY <1>1, <1>3, <1>4, <1>14, <1>15 DEF Atomic!Gather, Todo, Broken, Refused
<1> QED BY <1>16 DEF AtomicStep, Atomic!Next

LEMMA TouchStutters ==
    ASSUME TransactionAssumption, IInv, NEW p \in Proc, Touch(p)
    PROVE  AtomicStep
<1>1. Writes(p, Seen(p)) /\ MayWrite(p) /\ repo' = repo
  BY DEF Touch, Writes
<1>2. Stored(repo)' = Stored(repo) /\ Refused' = Refused
      /\ Todo' = [Todo EXCEPT ![p] = Gained(Seen(p), repo)]
      /\ Broken' = [Broken EXCEPT ![p] = Unread(Seen(p))]
  BY <1>1, WriteGathers
<1>3. Todo' = Todo /\ Broken' = Broken
  BY <1>1, <1>2, WriterGathers DEF Todo, Broken
<1> QED BY <1>2, <1>3, Stutters

LEMMA CommitCommits ==
    ASSUME TransactionAssumption, IInv, NEW p \in Proc, NEW rollback \in BOOLEAN,
           Commit(p, rollback)
    PROVE  AtomicStep
<1> DEFINE d == Seen(p)
           e == Outcome(p)
           writes == lock = p \/ e # d
<1>1. CASE ~VerifyHook(p, e)
  BY <1>1, Aborts DEF Commit, Outcome, Dies, RolledBack, Release
<1>2. CASE VerifyHook(p, e)
  <2>1. /\ db[p].nBegin = 1 /\ ~db[p].doRollback /\ (writes => MayWrite(p))
        /\ repo' = IF writes THEN e ELSE repo
        /\ work' = [work EXCEPT ![p] = Empty]
        /\ lock' = IF lock = p THEN None ELSE lock
        /\ db' = [db EXCEPT ![p] = NoTxn]
    BY <1>2, CommitGives
  <2>2. Stored(e) = Stored(d) /\ Rows(e) = Rows(d) /\ e.wrong = d.wrong
    BY OutcomeIs
  <2>3. d.wrong \subseteq mem[p].toVerify
    BY SeenByAll
  <2>4. d.wrong = {}
    BY <1>2, <2>2, <2>3 DEF VerifyHook
  <2>5. writes => /\ \A q \in Proc \ {p} : Todo[q] = {} /\ Broken[q] = {} /\ lock # q
                  /\ Todo[p] = Gained(d, repo)
                  /\ Broken[p] = Unread(d)
                  /\ Stored(repo) \subseteq Stored(d)
    BY <2>1, WriterGathers
  <2>6. ~writes => Todo[p] = {} /\ Broken[p] = {}
    BY ShownUnlocked
  <2> HIDE DEF d, e
  <2>7. Stored(repo)' = Stored(repo) \cup Todo[p]
    <3>1. CASE writes
      <4>1. Stored(repo)' = Stored(e)
        BY <2>1, <3>1 DEF Stored, Rows
      <4> QED BY <2>2, <2>5, <3>1, <4>1 DEF Gained
    <3>2. CASE ~writes
      BY <2>1, <2>6, <3>2 DEF Stored, Rows
    <3> QED BY <3>1, <3>2
  <2>8. Broken[p] = {}
    BY <2>4, <2>5, <2>6 DEF Unread
  <2>9. lock \in Proc \ {p} => repo' = repo
    BY <2>1, <2>5
  <2>10. /\ Todo' = [Todo EXCEPT ![p] = {}]
         /\ Broken' = [Broken EXCEPT ![p] = {}]
         /\ Refused' = [Refused EXCEPT ![p] = FALSE]
    BY <2>1, <2>9, Clears
  <2>11. ~Refused[p]
    BY <2>1 DEF Refused
  <2>12. Atomic!Commit(p)
    BY <2>7, <2>8, <2>10, <2>11
       DEF Atomic!Commit, Atomic!Clear, Todo, Broken, Refused
  <2> QED BY <2>12 DEF AtomicStep, Atomic!Next
<1> QED BY <1>1, <1>2

LEMMA InnerRefuses ==
    ASSUME TransactionAssumption, IInv, NEW p \in Proc, NEW rollback \in BOOLEAN,
           Inner(p, rollback)
    PROVE  AtomicStep
<1>1. Stored(repo)' = Stored(repo) /\ Todo' = Todo /\ Broken' = Broken
  BY DEF Inner, Todo, Broken, Gathered, Stored, Rows
<1>2. \A q \in Proc \ {p} : db'[q] = db[q]
  BY DEF Inner, IInv, Typed
<1>3. CASE rollback
  <2>1. Refused'[p] = TRUE
    <3>1. db' = [db EXCEPT ![p].nBegin = @ - 1, ![p].doRollback = db[p].doRollback \/ rollback]
      BY DEF Inner, IInv, Typed
    <3>2. (db[p].doRollback \/ rollback) = TRUE
      BY <1>3
    <3> QED BY <3>1, <3>2 DEF Refused, IInv, Typed
  <2>2. Refused' = [Refused EXCEPT ![p] = TRUE]
    <3>1. \A q \in Proc \ {p} : Refused'[q] = Refused[q]
      BY <1>2 DEF Refused
    <3> QED BY <2>1, <3>1, OnProcesses, Update
  <2>3. Atomic!Refuse(p)
    BY <1>1, <2>2 DEF Atomic!Refuse, Todo, Broken, Refused
  <2> QED BY <2>3 DEF AtomicStep, Atomic!Next
<1>4. CASE ~rollback
  <2>1. db'[p].doRollback = db[p].doRollback
    BY <1>4 DEF Inner, IInv, Typed
  <2>2. Refused' = Refused
    BY <1>2, <2>1 DEF Refused
  <2> QED BY <1>1, <2>2, Stutters
<1> QED BY <1>3, <1>4

(* Entering a transaction shows nothing.                                   *)
LEMMA EntryStutters ==
    ASSUME TransactionAssumption, IInv, repo' = repo,
           \A q \in Proc : db'[q].doRollback = db[q].doRollback,
           \A q \in Proc : lock = q => lock' = q /\ work'[q] = work[q],
           \A q \in Proc : lock # q /\ lock' = q => work'[q] = repo
    PROVE  AtomicStep
<1>1. Stored(repo)' = Stored(repo) /\ Refused' = Refused
  BY DEF Stored, Rows, Refused
<1>2. repo.wrong = {}
  BY DEF IInv
<1>3. ASSUME NEW q \in Proc
      PROVE  Todo'[q] = Todo[q] /\ Broken'[q] = Broken[q]
  <2>1. Gained(repo, repo) = {} /\ Unread(repo) = {}
    BY <1>2 DEF Gained, Unread
  <2>2. CASE lock = q
    <3>1. lock' = q /\ work'[q] = work[q]
      BY <2>2
    <3> QED BY <2>2, <3>1, ShownUnlocked
  <2>3. CASE lock # q /\ lock' = q
    <3>1. work'[q] = repo
      BY <2>3
    <3> QED BY <2>1, <2>3, <3>1, ShownUnlocked
  <2>4. CASE lock # q /\ lock' # q
    BY <2>4, ShownUnlocked
  <2> QED BY <2>2, <2>3, <2>4
<1>4. Todo' = Todo /\ Broken' = Broken
  BY <1>3 DEF Todo, Broken
<1> QED BY <1>1, <1>4, Stutters

LEMMA InitRefines == ASSUME TransactionAssumption, Init
                     PROVE  AtomicInit
<1>1. Stored(repo) = {} /\ \A p \in Proc : lock # p
  BY EmptyDatabase DEF Init, Stored, TransactionAssumption
<1>2. \A p \in Proc : db[p].doRollback = FALSE
  BY DEF Init, NoTxn
<1> QED BY <1>1, <1>2 DEF AtomicInit, Atomic!Init

LEMMA StepRefines == ASSUME TransactionAssumption, IInv, [Next]_vars
                     PROVE  AtomicStep
<1>1. CASE UNCHANGED vars
  BY <1>1, Stutters DEF vars, Stored, Rows, Todo, Broken, Refused, Gathered
<1>2. ASSUME NEW p \in Proc, Start(p) \/ Query(p)
      PROVE  AtomicStep
  <2>1. lock # p /\ repo' = repo /\ db' = db /\ lock' = lock
        /\ \A q \in Proc \ {p} : work'[q] = work[q]
    BY <1>2 DEF Start, Query, IInv, Good, Isolated, Remembered, Typed
  <2> QED BY <2>1, EntryStutters
<1>3. ASSUME NEW p \in Proc, Nested(p)
      PROVE  AtomicStep
  <2>1. \A q \in Proc : db'[q].doRollback = db[q].doRollback
    BY <1>3 DEF Nested, IInv, Typed
  <2> QED BY <1>3, <2>1, EntryStutters DEF Nested
<1>4. ASSUME NEW p \in Proc, NEW writes \in BOOLEAN, Outermost(p, writes), db[p].nBegin = 0
      PROVE  \A q \in Proc : db'[q].doRollback = db[q].doRollback
  <2>1. db[p].doRollback = FALSE
    BY <1>4 DEF IInv, Good, Isolated, NoTxn
  <2>2. db'[p].doRollback = FALSE
    BY <1>4 DEF Outermost, NoTxn, IInv, Typed
  <2>3. \A q \in Proc \ {p} : db'[q] = db[q]
    BY <1>4 DEF Outermost, IInv, Typed
  <2> QED BY <2>1, <2>2, <2>3
<1>5. ASSUME NEW p \in Proc, BeginTransaction(p)
      PROVE  AtomicStep
  <2>1. CASE ~Nested(p)
    <3>1. Outermost(p, FALSE) /\ db[p].nBegin = 0 /\ UNCHANGED <<repo, work, lock, view, mem>>
      BY <1>5, <2>1 DEF BeginTransaction
    <3> QED BY <1>4, <3>1, EntryStutters
  <2> QED BY <1>3, <2>1
<1>6. ASSUME NEW p \in Proc, BeginWrite(p)
      PROVE  AtomicStep
  <2>1. CASE ~Nested(p)
    <3>1. /\ Outermost(p, TRUE) /\ db[p].nBegin = 0 /\ lock = None /\ lock' = p
          /\ work' = [work EXCEPT ![p] = repo] /\ repo' = repo
      BY <1>6, <2>1 DEF BeginWrite
    <3>2. work'[p] = repo /\ \A q \in Proc : lock # q
      BY <3>1 DEF IInv, Typed, TransactionAssumption
    <3> QED BY <1>4, <3>1, <3>2, EntryStutters
  <2> QED BY <1>3, <2>1
<1>7. ASSUME NEW p \in Proc, NEW art \in Artifact, NEW ok \in BOOLEAN, Put(p, art, ok)
      PROVE  AtomicStep
  BY <1>7, PutGathers
<1>8. ASSUME NEW p \in Proc, Touch(p)
      PROVE  AtomicStep
  BY <1>8, TouchStutters
<1>9. ASSUME NEW p \in Proc, EndTransaction(p)
      PROVE  AtomicStep
  <2>1. ASSUME NEW rollback \in BOOLEAN, Rollback(p, rollback)
        PROVE  AtomicStep
    BY <2>1, Aborts DEF Rollback, RolledBack, Release
  <2> QED BY <1>9, <2>1, InnerRefuses, CommitCommits DEF EndTransaction
<1>10. ASSUME NEW p \in Proc, Busy(p) \/ Kill(p)
       PROVE  AtomicStep
  BY <1>10, Aborts DEF Busy, Kill, Dies, RolledBack, Release
<1>11. ASSUME NEW p \in Proc, Close(p)
       PROVE  AtomicStep
  BY <1>11, Aborts DEF Close, Release
<1> QED BY <1>1, <1>2, <1>5, <1>6, <1>7, <1>8, <1>9, <1>10, <1>11 DEF Next

(* The transactions of db.c implement AtomicStore: a rollback asked for at *)
(* any level of nesting undoes the whole, and nothing is committed that    *)
(* cannot be read back.                                                    *)
THEOREM TransactionsAreAtomic == ASSUME TransactionAssumption
                                 PROVE  Spec => IsAtomic
<1>1. Init => AtomicInit
  BY InitRefines
<1>2. IInv /\ [Next]_vars => AtomicStep
  BY StepRefines
<1> QED BY <1>1, <1>2, Invariant, PTL DEF Spec, IsAtomic, AtomicInit, AtomicStep, Atomic!Spec
=============================================================================
