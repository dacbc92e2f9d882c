------------------------------- MODULE IntBag -------------------------------
(***************************************************************************)
(* The bag of src/src/bag.c: an open-addressing hash table of positive     *)
(* integers in which a deleted entry becomes -1, or 0 when the slot after  *)
(* it is free.  content.c, verify.c, leaf.c and the graph walkers keep     *)
(* their pending and visited sets in such bags.                            *)
(***************************************************************************)
EXTENDS Integers, FiniteSets, FiniteSetsExt

CONSTANTS
    Key,         \* the integers that are put into the bag
    Growth,      \* bag_insert() resizes to 2*sz + Growth (20)
    ShrinkAbove  \* bag_remove() may shrink a table of more slots (40)

BagAssumption ==
    /\ Key \subseteq Nat \ {0} /\ IsFiniteSet(Key)
    /\ Growth \in Nat /\ Growth >= 4 /\ ShrinkAbove \in Nat

VARIABLES
    a,      \* the slots, a function on 0 .. sz-1
    cnt,    \* "number of integers in the bag"
    used,   \* "number of used slots in a[]"
    reply   \* what the last call returned

bagVars == <<a, cnt, used, reply>>

Size(t) == Cardinality(DOMAIN t)
Slots(n) == 0 .. (n - 1)
Zeroed(n) == [i \in Slots(n) |-> 0]
Live(t) == {t[i] : i \in DOMAIN t} \ {0, -1}
LiveSlots(t) == {i \in DOMAIN t : t[i] > 0}
UsedSlots(t) == {i \in DOMAIN t : t[i] # 0}

Hash(e, n) == (e * 101) % n
(* The probe for e reaches slot i after Distance(t,e,i) steps: it starts   *)
(* at the hash and goes on at slot 0 when it comes to the end.             *)
Distance(t, e, i) ==
    IF i >= Hash(e, Size(t)) THEN i - Hash(e, Size(t))
    ELSE i + Size(t) - Hash(e, Size(t))
FirstSlot(t, e, S) ==
    CHOOSE i \in S : \A j \in S : Distance(t, e, i) <= Distance(t, e, j)

(* Where the loop of bag_find(), bag_remove() and bag_next() stops, where  *)
(* that of bag_insert() does, and where a rehashed element goes.           *)
FindSlot(t, e) == FirstSlot(t, e, {i \in DOMAIN t : t[i] \in {0, e}})
InsertSlot(t, e) == FirstSlot(t, e, {i \in DOMAIN t : t[i] <= 0 \/ t[i] = e})
FreeSlot(t, e) == FirstSlot(t, e, {i \in DOMAIN t : t[i] = 0})

(* bag_resize(): the live entries, in slot order, in a fresh table, whose  *)
(* used is cnt again.                                                      *)
Resize(t, n) ==
    LET moved[i \in 0 .. Size(t)] ==
          IF i = 0 THEN Zeroed(n)
          ELSE LET m == moved[i-1]
               IN  IF t[i-1] <= 0 THEN m
                   ELSE [m EXCEPT ![FreeSlot(m, t[i-1])] = t[i-1]]
    IN  moved[Size(t)]

Contains(t, e) == Size(t) > 0 /\ t[FindSlot(t, e)] = e

(* Every probe ends: the loops of bag_find(), bag_insert() and bag_remove()*)
(* stop only at a free slot or at the element.                             *)
ProbesEnd == Size(a) > 0 => \E i \in DOMAIN a : a[i] = 0

(* "Bag.cnt is the number of live entries in the table.  Bag.used is the   *)
(* number of live entries plus the number of deleted entries."             *)
CountersExact == cnt = Cardinality(LiveSlots(a)) /\ used = Cardinality(UsedSlots(a))

(* "An integer can appear in the bag at most once."                        *)
AtMostOnce == \A i, j \in LiveSlots(a) : a[i] = a[j] => i = j

(* The types, and what the table is at any time.                           *)
BagTypeOK ==
    /\ ProbesEnd /\ CountersExact /\ AtMostOnce
    /\ Size(a) \in Nat /\ a \in [Slots(Size(a)) -> Key \cup {0, -1}]
    /\ cnt \in Nat /\ used \in Nat
    /\ reply \in 0 .. Cardinality(Key)

BagInit ==
    /\ a = Zeroed(0)
    /\ cnt = 0 /\ used = 0 /\ reply = 0

-----------------------------------------------------------------------------
(* The growth test of bag_insert().                                        *)
MustGrow(t, c, u) == u + 1 >= Size(t) \div 2

(* No caller inserts an element that is there while the table has marks of *)
(* deletions: it could be put a second time, into a slot before its own.   *)
Insert(e) ==
    LET grow == MustGrow(a, cnt, used)
        t    == IF grow THEN Resize(a, 2 * Size(a) + Growth) ELSE a
        u    == IF grow THEN cnt ELSE used
        h    == InsertSlot(t, e)
    IN  /\ e \notin Live(a) \/ used = cnt
        /\ IF t[h] > 0
             THEN a' = t /\ used' = u /\ reply' = 0 /\ UNCHANGED cnt
             ELSE /\ a' = [t EXCEPT ![h] = e]
                  /\ used' = IF t[h] = 0 THEN u + 1 ELSE u
                  /\ cnt' = cnt + 1
                  /\ reply' = 1

(* The mark that a deletion leaves in slot h.  Broken variant: the slot    *)
(* is always freed, which cuts the probes that went over it.               *)
Tombstone_Never(t, h) == 0
Tombstone(t, h) ==
    LET nx == IF h + 1 >= Size(t) THEN 0 ELSE h + 1
    IN  IF t[nx] = 0 THEN 0 ELSE -1

Remove(e) ==
    /\ reply' = 0
    /\ IF ~Contains(a, e)
         THEN UNCHANGED <<a, cnt, used>>
         ELSE LET h == FindSlot(a, e)
                  t == [a EXCEPT ![h] = Tombstone(a, h)]
                  u == IF Tombstone(a, h) = 0 THEN used - 1 ELSE used
              IN  /\ cnt' = cnt - 1
                  /\ IF cnt' = 0
                       THEN a' = Zeroed(Size(a)) /\ used' = 0
                     ELSE IF Size(a) > ShrinkAbove /\ cnt' < Size(a) \div 8
                       THEN /\ a' = Resize(t, Size(a) \div 2)
                            /\ used' = cnt'
                       ELSE a' = t /\ used' = u

Find(e) ==
    /\ reply' = IF Contains(a, e) THEN 1 ELSE 0
    /\ UNCHANGED <<a, cnt, used>>

Count == reply' = cnt /\ UNCHANGED <<a, cnt, used>>

Clear == a' = Zeroed(0) /\ cnt' = 0 /\ used' = 0 /\ reply' = 0

BagStep == \/ \E e \in Key : Insert(e) \/ Remove(e) \/ Find(e)
           \/ Count \/ Clear

BagSpec == BagInit /\ [][BagStep]_bagVars

-----------------------------------------------------------------------------
(* for(e=bag_first(p); e; e=bag_next(p,e)), followed for as many rounds as *)
(* there are slots.  Broken variant: bag_next() starts again at the slot   *)
(* of its element.                                                         *)
FirstOf(t, S) == IF S = {} THEN 0 ELSE t[Min(S)]
After_Self(t, h) == {i \in LiveSlots(t) : i >= h}
After(t, h) == {i \in LiveSlots(t) : i > h}
BagFirst(t) == FirstOf(t, LiveSlots(t))
BagNext(t, e) == FirstOf(t, After(t, FindSlot(t, e)))
Visited(t) ==
    LET at[n \in 0 .. Size(t)] ==
          IF n = 0 THEN BagFirst(t)
          ELSE LET e == at[n-1] IN IF e = 0 THEN 0 ELSE BagNext(t, e)
    IN  at

(* A loop with bag_first() and bag_next() ends and visits every element.   *)
(* (The types of the state are checked with it.)                           *)
IterationComplete ==
    LET at == Visited(a)
    IN  /\ BagTypeOK
        /\ at[Size(a)] = 0
        /\ {at[n] : n \in DOMAIN at} \ {0} = Live(a)

(* The bag behaves as a set of integers: every call answers as it should.  *)
Set == INSTANCE IntSet WITH members <- Live(a)
BehavesAsSet == Set!Spec
=============================================================================
