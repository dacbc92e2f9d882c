-------------------------------- MODULE Tags --------------------------------
(***************************************************************************)
(* Propagating tags and the table of leaves (src/src/tag.c, leaf.c and the *)
(* check-in part of manifest_crosslink() in manifest.c), for one tag name: *)
(* "branch", the one on which the leaf table depends.                      *)
(*                                                                         *)
(* Check-ins and control artifacts arrive in any order.  Writers exclude   *)
(* each other and the bag needToCheck is empty between transactions, so    *)
(* one writer stands for all processes.                                    *)
(***************************************************************************)
EXTENDS Naturals, FiniteSets, FiniteSetsExt

CONSTANTS
    CheckIn,    \* the check-ins
    Control,    \* the control artifacts that carry a branch tag
    Nil,        \* no check-in, no tag
    Parent,     \* Parent[c]: the primary parent, or Nil
    Merged,     \* Merged[c]: the merge parents
    Value,      \* the names of branches
    Trunk,      \* 'trunk', what a check-in without the tag counts as
    Card,       \* Card[c]: the tag that manifest c gives itself, or Nil
    Order       \* Order[t]: the check-in and the tag that control t gives it

Tag == [kind: {"cancel", "single", "propagate"}, value: Value, time: Nat]

TagsAssumption ==
    /\ IsFiniteSet(CheckIn) /\ IsFiniteSet(Control)
    /\ CheckIn \cap Control = {} /\ Nil \notin CheckIn \cup Tag
    /\ Parent \in [CheckIn -> CheckIn \cup {Nil}]
    /\ Merged \in [CheckIn -> SUBSET CheckIn]
    /\ Trunk \in Value
    /\ Card \in [CheckIn -> Tag \cup {Nil}]
    /\ Order \in [Control -> CheckIn \X Tag]

VARIABLES
    got,          \* the artifacts that have been crosslinked
    plink,        \* table plink: parent, child, isprim
    tagxref,      \* the row of each check-in for this tag, or Nil
    leaf,         \* table leaf
    early,        \* the check-ins that were tagged before they came
    needToCheck,  \* the bag of leaf.c
    saved         \* the last commit: all of these but the bag

tagsVars == <<got, plink, tagxref, leaf, early, needToCheck, saved>>

(* A row is a tag with own: "srcid<>0", given to this very check-in.       *)
Row == [kind: {"cancel", "single", "propagate"}, value: Value, time: Nat,
        own: BOOLEAN]

State == [got: SUBSET (CheckIn \cup Control),
          plink: SUBSET (CheckIn \X CheckIn \X BOOLEAN),
          tagxref: [CheckIn -> Row \cup {Nil}], leaf: SUBSET CheckIn,
          early: SUBSET CheckIn]
Tables == [got |-> got, plink |-> plink, tagxref |-> tagxref, leaf |-> leaf,
           early |-> early]

TagsTypeOK == Tables \in State /\ saved \in State /\ needToCheck \subseteq CheckIn

TagsInit ==
    /\ got = {} /\ plink = {} /\ leaf = {} /\ early = {} /\ needToCheck = {}
    /\ tagxref = [c \in CheckIn |-> Nil]
    /\ saved = Tables

-----------------------------------------------------------------------------
(* A table of rows together with the bag: what the tag functions change.   *)
Parents(links, c) == {p \in CheckIn : \E isprim \in BOOLEAN : <<p, c, isprim>> \in links}

(* leaf_eventually_check() of the check-ins of S.  Broken variant: the     *)
(* parents are not looked at.                                              *)
LeafEventuallyCheck_Self(links, bag, S) == bag \cup S
LeafEventuallyCheck(links, bag, S) ==
    bag \cup S \cup UNION {Parents(links, c) : c \in S}

(* tag_propagate(): may the tag enter check-in c?                          *)
DoIt(rows, c, kind, time) ==
    IF rows[c] = Nil THEN kind = "propagate"
    ELSE ~rows[c].own /\ rows[c].time < time

Reached(links, rows, pid, kind, time) ==
    LET within[n \in 0 .. Cardinality(CheckIn)] ==
          IF n = 0 THEN {pid}
          ELSE LET S == within[n-1]
               IN  S \cup {c \in CheckIn : /\ \E p \in S : <<p, c, TRUE>> \in links
                                          /\ DoIt(rows, c, kind, time)}
    IN  {c \in CheckIn \ {pid} : c \in within[Cardinality(CheckIn)]}

Propagate(s, links, pid, tag) ==
    LET S == Reached(links, s.rows, pid, tag.kind, tag.time)
        row == IF tag.kind = "propagate"
                 THEN [kind |-> "propagate", value |-> tag.value,
                       time |-> tag.time, own |-> FALSE]
                 ELSE Nil
    IN  [rows |-> [c \in CheckIn |-> IF c \in S THEN row ELSE s.rows[c]],
         bag |-> LeafEventuallyCheck(links, s.bag, S)]

(* tag_propagate_all(): a singleton is propagated as a cancellation.       *)
PropagateAll(s, links, pid) ==
    IF pid = Nil \/ s.rows[pid] = Nil THEN s
    ELSE Propagate(s, links, pid, s.rows[pid])

(* tag_insert().  Broken variant: the older of two tags is not refused.    *)
TagInsert_Last(s, links, c, tag) ==
    LET given == [kind |-> tag.kind, value |-> tag.value, time |-> tag.time,
                  own |-> TRUE]
    IN  Propagate([rows |-> [s.rows EXCEPT ![c] = given],
                   bag |-> LeafEventuallyCheck(links, s.bag, {c})],
                  links, c, tag)

TagInsert(s, links, c, tag) ==
    IF s.rows[c] # Nil /\ s.rows[c].time >= tag.time THEN s
    ELSE LET given == [kind |-> tag.kind, value |-> tag.value,
                       time |-> tag.time, own |-> TRUE]
         IN  Propagate([rows |-> [s.rows EXCEPT ![c] = given],
                        bag |-> LeafEventuallyCheck(links, s.bag, {c})],
                       links, c, tag)

-----------------------------------------------------------------------------
Now == [rows |-> tagxref, bag |-> needToCheck]

(* manifest_crosslink() of a check-in: the links to its parents, its own   *)
(* tag, then the tags of its primary parent.                               *)
CheckinTags(links, c) ==
    LET s == IF Card[c] = Nil THEN Now ELSE TagInsert(Now, links, c, Card[c])
    IN  PropagateAll(s, links, Parent[c])

ReceiveCheckin(c) ==
    LET primary == IF Parent[c] = Nil THEN {} ELSE {<<Parent[c], c, TRUE>>}
        links == plink \cup primary \cup {<<p, c, FALSE>> : p \in Merged[c]}
        s == CheckinTags(links, c)
    IN  /\ c \notin got
        /\ got' = got \cup {c}
        /\ plink' = links
        /\ tagxref' = s.rows /\ needToCheck' = s.bag
        /\ early' = IF tagxref[c] # Nil THEN early \cup {c} ELSE early
        /\ UNCHANGED <<leaf, saved>>

ReceiveControl(t) ==
    LET s == TagInsert(Now, plink, Order[t][1], Order[t][2])
    IN  /\ t \notin got
        /\ got' = got \cup {t}
        /\ tagxref' = s.rows /\ needToCheck' = s.bag
        /\ UNCHANGED <<plink, leaf, early, saved>>

Branch(rows, c) == IF rows[c] = Nil THEN Trunk ELSE rows[c].value

(* leaf_check(), and the query of leaf_rebuild().                          *)
IsLeaf(links, rows, c) ==
    ~ \E k \in CheckIn : /\ c \in Parents(links, k)
                         /\ Branch(rows, c) = Branch(rows, k)

(* db_end_transaction(): leaf_do_pending_checks(), then COMMIT.            *)
DoPendingChecks ==
    /\ Tables # saved
    /\ leaf' = (leaf \ needToCheck)
               \cup {c \in needToCheck : IsLeaf(plink, tagxref, c)}
    /\ needToCheck' = {}
    /\ saved' = [Tables EXCEPT !.leaf = leaf']
    /\ UNCHANGED <<got, plink, tagxref, early>>

(* The process dies: the transaction and the bag are lost.                 *)
Die ==
    /\ Tables # saved
    /\ got' = saved.got /\ plink' = saved.plink
    /\ tagxref' = saved.tagxref /\ leaf' = saved.leaf /\ early' = saved.early
    /\ needToCheck' = {}
    /\ UNCHANGED saved

TagsNext == \/ \E c \in CheckIn : ReceiveCheckin(c)
            \/ \E t \in Control : ReceiveControl(t)
            \/ DoPendingChecks \/ Die

TagsSpec == TagsInit /\ [][TagsNext]_tagsVars

-----------------------------------------------------------------------------
(* What branching.wiki:438-447 says of the tags, from the artifacts alone: *)
(* the newest tag given to a check-in, else what its parent propagates.    *)
Given(have, c) ==
    (IF c \in have /\ Card[c] # Nil THEN {Card[c]} ELSE {})
      \cup {Order[t][2] : t \in {u \in have \cap Control : Order[u][1] = c}}

Newest(S) == CHOOSE t \in S : \A u \in S : u.time <= t.time

Reference(have) ==
    LET given == [c \in CheckIn |->
          IF Given(have, c) = {} THEN Nil
          ELSE LET t == Newest(Given(have, c))
               IN  [kind |-> t.kind, value |-> t.value, time |-> t.time,
                    own |-> TRUE]]
        inherited(row) == IF row # Nil /\ row.kind = "propagate"
                            THEN [row EXCEPT !.own = FALSE] ELSE Nil
        at[n \in 0 .. Cardinality(CheckIn)] ==
          IF n = 0 THEN given
          ELSE LET before == at[n-1]
               IN  [c \in CheckIn |->
                      IF given[c] # Nil \/ c \notin have \/ Parent[c] = Nil
                        THEN given[c] ELSE inherited(before[Parent[c]])]
    IN  at[Cardinality(CheckIn)]

(* "Because artifacts are unordered, the order in which artifacts are      *)
(* received is unimportant" (doc/web/sync.wiki:13-15): at every moment the *)
(* tags are those that the artifacts received so far define.  (The types   *)
(* of the state are checked with it.)                                      *)
TagsMatchArtifacts == TagsTypeOK /\ tagxref = Reference(got)

(* "There is one entry in the following table for each leaf" (schema.c:299)*)
(* whenever a transaction is committed, for a check-in that has a branch,  *)
(* as all have that descend from the first one of a repository, if this is *)
(* so for each of its children, and no child was tagged before it came:    *)
(* the tags of such a child do not change when it is linked to its         *)
(* parents, and then nothing has them looked at.                           *)
IsSettled(s, c) ==
    /\ s.tagxref[c] # Nil
    /\ \A k \in CheckIn : c \in Parents(s.plink, k) =>
           s.tagxref[k] # Nil /\ k \notin s.early
LeafTableExact ==
    \A c \in CheckIn : IsSettled(saved, c) =>
       (c \in saved.leaf <=> IsLeaf(saved.plink, saved.tagxref, c))
=============================================================================
