---------------------------- MODULE ContentStore ----------------------------
(***************************************************************************)
(* The artifact store of src/src/content.c and what manifest_crosslink()   *)
(* does to its tables (src/src/manifest.c), as operators on a context      *)
(*                                                                         *)
(*     c = [db |-> the tables that one process sees in its transaction,    *)
(*          bag |-> that process's in-memory bags]                         *)
(*                                                                         *)
(* An operator named after a C function returns the context that the       *)
(* function leaves behind.  Content is abstracted to absent, right or wrong *)
(* (db.bad: what can be extracted, or could be if the end of its delta     *)
(* chain were there and right, is not the artifact), which no change of    *)
(* the way in which it is stored alters; record ids are the artifacts.     *)
(***************************************************************************)
EXTENDS Naturals, FiniteSets, FiniteSetsExt

CONSTANTS
    Artifact,   \* the artifacts (hashes) that exist anywhere
    None,       \* rid 0
    Baseline,   \* Baseline[a]: the baseline that delta-manifest a needs
    Parent      \* Parent[a]: the primary parent that manifest a names

VARIABLE
    shun        \* the shun table, which does not change while we look

ASSUME StoreAssumption ==
    /\ IsFiniteSet(Artifact) /\ None \notin Artifact
    /\ Baseline \in [Artifact -> Artifact \cup {None}]
    /\ Parent \in [Artifact -> Artifact \cup {None}]

Tables == [size: [Artifact -> {"absent", "phantom", "real"}],
           src: [Artifact -> Artifact \cup {None}],
           phantom: SUBSET Artifact, private: SUBSET Artifact,
           unclustered: SUBSET Artifact,
           orphan: SUBSET (Artifact \X (Artifact \cup {None})),
           linked: SUBSET Artifact, mlink: SUBSET Artifact,
           bad: SUBSET Artifact]

Bags == [missing: SUBSET Artifact, available: SUBSET Artifact,
         verify: SUBSET Artifact]

EmptyTables == [size |-> [a \in Artifact |-> "absent"],
                src |-> [a \in Artifact |-> None],
                phantom |-> {}, private |-> {}, unclustered |-> {},
                orphan |-> {}, linked |-> {}, mlink |-> {}, bad |-> {}]
EmptyBags == [missing |-> {}, available |-> {}, verify |-> {}]

-----------------------------------------------------------------------------
(* Walking the delta table.                                                *)
Real(db) == {a \in Artifact : db.size[a] = "real"}
Known(db) == {a \in Artifact : db.size[a] # "absent"}
Undeltaed(db) == {a \in Artifact : db.src[a] = None}

(* The delta chain of a: a, its source, the source of that, and so on.     *)
Chain(db, a) ==
    LET closed == {S \in SUBSET Artifact :
                     a \in S /\ \A x \in S : db.src[x] = None \/ db.src[x] \in S}
    IN  IF db.src[a] = None THEN {a}
        ELSE {x \in Artifact : \A S \in closed : x \in S}

(* Its end; a itself if it has none, for it is a loop: the code panics.    *)
Base(db, a) ==
    LET end == Chain(db, a) \cap Undeltaed(db)
    IN  IF end = {} THEN a ELSE CHOOSE x \in end : TRUE

(* Where a walk along the chain first meets the set stop; a if it does not.*)
FirstMet(db, a, stop) ==
    LET met == Chain(db, a) \cap stop
    IN  IF a \in stop \/ met = {} THEN a ELSE CHOOSE x \in met : met \subseteq Chain(db, x)

(* a and everything stored as a delta of it, directly or not.              *)
Dependents(db, a) == {x \in Artifact : a \in Chain(db, x)}

(* What the tables say, as opposed to what a cache believes.               *)
Readable(db, a) ==
    LET chain == Chain(db, a)
    IN  chain \subseteq Real(db) /\ chain \cap Undeltaed(db) # {}
Intact(db, a) == Readable(db, a) /\ a \notin db.bad

-----------------------------------------------------------------------------
(* content_is_available(): walks until a bag or a table knows the answer,  *)
(* and remembers the answer for the artifact where the walk ended.         *)
AvailabilityEnd(c, a) ==
    FirstMet(c.db, a, c.bag.missing \cup c.bag.available
                      \cup (Artifact \ Real(c.db)) \cup Undeltaed(c.db))

(* Broken variant: what no bag knows is taken to be available.             *)
IsAvailable_Guess(c, a) == AvailabilityEnd(c, a) \notin c.bag.missing

IsAvailable(c, a) ==
    LET e == AvailabilityEnd(c, a)
    IN  /\ e \notin c.bag.missing
        /\ e \in c.bag.available \/ e \in Real(c.db) \cap Undeltaed(c.db)

AfterIsAvailable(c, a) ==
    IF IsAvailable(c, a)
      THEN [c EXCEPT !.bag.available = @ \cup {AvailabilityEnd(c, a)}]
      ELSE [c EXCEPT !.bag.missing = @ \cup {AvailabilityEnd(c, a)}]

(* content_mark_available(): the artifact and the deltas that rest on it.  *)
(* Broken variant: with its source in the place of its deltas.             *)
MarkAvailable_Upwards(c, a) ==
    [c EXCEPT !.bag.missing = @ \ {a, c.db.src[a]},
              !.bag.available = @ \cup {a, c.db.src[a]}]

MarkAvailable(c, a) ==
    IF a \in c.bag.available THEN c
    ELSE [c EXCEPT !.bag.missing = @ \ Dependents(c.db, a),
                   !.bag.available = @ \cup Dependents(c.db, a)]

(* content_get(): the bag of missing artifacts is consulted for the        *)
(* artifact and, by the recursive call, for the base of its delta chain.   *)
CanGet(c, a) ==
    /\ {a, Base(c.db, a)} \cap c.bag.missing = {}
    /\ Readable(c.db, a)

AfterGet(c, a) ==
    LET note(x, bag) == IF x \in bag.missing THEN bag
                        ELSE IF CanGet(c, x)
                          THEN [bag EXCEPT !.available = @ \cup {x}]
                          ELSE [bag EXCEPT !.missing = @ \cup {x}]
    IN  IF a \in c.bag.missing THEN c
        ELSE [c EXCEPT !.bag = note(a, note(Base(c.db, a), @))]

-----------------------------------------------------------------------------
(* content_new(), and uuid_to_rid(hash,1): a phantom for an unknown hash.  *)
ContentNew(c, a, isPrivate) ==
    IF a \in shun THEN c
    ELSE [c EXCEPT
            !.db.size[a] = "phantom",
            !.db.phantom = @ \cup {a},
            !.db.private = IF isPrivate THEN @ \cup {a} ELSE @,
            !.db.unclustered = IF isPrivate THEN @ ELSE @ \cup {a},
            !.bag.missing = @ \cup {a}]

(* Broken variant: no phantom for a hash that is not known yet.            *)
Phantomize_Never(c, a, isPrivate) == c

Phantomize(c, a, isPrivate) ==
    IF a \in Known(c.db) THEN c ELSE ContentNew(c, a, isPrivate)

RidOf(c, a) == IF a \in Known(c.db) THEN a ELSE None

MakePublic(c, a) == [c EXCEPT !.db.private = @ \ {a}]
MakePrivate(c, a) == [c EXCEPT !.db.private = @ \cup {a}]

(* content_undelta()                                                       *)
Undelta(c, a) ==
    IF c.db.src[a] = None THEN c
    ELSE IF CanGet(c, a) THEN [AfterGet(c, a) EXCEPT !.db.src[a] = None]
    ELSE AfterGet(c, a)

(* content_deltify() with one candidate source s.  Whether the delta is    *)
(* small enough to be worth it is a property of the data: worth.           *)
(* Broken variant: no look at the ancestors of the source.                 *)
Deltify_Loop(c, a, s, force, worth) ==
    IF /\ force \/ c.db.src[a] = None
       /\ s # a /\ a \in worth /\ CanGet(c, a) /\ CanGet(c, s)
      THEN [c EXCEPT !.db.src[a] = s, !.bag.verify = @ \cup {a}]
      ELSE c

DeltifyTo(c, a, s, worth) ==
    IF s = a \/ (s \in c.db.private /\ a \notin c.db.private) THEN c
    ELSE IF a \in Chain(c.db, s) THEN Undelta(c, s)
    ELSE IF CanGet(c, s) /\ a \in worth
      THEN [AfterGet(c, s) EXCEPT !.db.src[a] = s, !.bag.verify = @ \cup {a}]
      ELSE AfterGet(c, s)

Deltify(c, a, s, force, worth) ==
    IF ~force /\ c.db.src[a] # None THEN c
    ELSE IF ~IsAvailable(c, a) THEN AfterIsAvailable(c, a)
    ELSE DeltifyTo(AfterGet(AfterIsAvailable(c, a), a), a, s, worth)

-----------------------------------------------------------------------------
(* manifest_get(), manifest_parse(): the text is there and is a manifest.  *)
(* A wrong text is none: its Z card does not fit.                          *)
Parsed(c, a) == CanGet(c, a) /\ Intact(c.db, a)

(* manifest.c: fetch_baseline() records an orphan when the baseline of a   *)
(* delta-manifest cannot be read.                                          *)
BaselineOk(c, a) ==
    \/ Baseline[a] = None
    \/ Baseline[a] \in Known(c.db) /\ Parsed(c, Baseline[a])

NoteOrphan(c, a, rid) ==
    [c EXCEPT !.db.orphan = IF \E row \in @ : row[1] = a THEN @
                            ELSE @ \cup {<<a, rid>>}]

ReadBaseline(c, a, b) ==
    IF RidOf(c, b) = None THEN NoteOrphan(c, a, None)
    ELSE IF ~Parsed(c, b) THEN NoteOrphan(AfterGet(c, b), a, b)
    ELSE AfterGet(c, b)

FetchBaseline(c, a) ==
    IF Baseline[a] = None THEN c
    ELSE ReadBaseline(Phantomize(c, Baseline[a], FALSE), a, Baseline[a])

(* add_mlink() for parent p and child k, one of which (other) is read from *)
(* the store: the older of the two becomes a delta of the newer.           *)
Older(p, k) == IF (Baseline[p] = None) = (Baseline[k] = None) THEN p
               ELSE IF Baseline[k] = None THEN Baseline[p] ELSE None

LinkBoth(c, p, k, worth) ==
    IF ~BaselineOk(c, k) THEN FetchBaseline(c, k)
    ELSE LET linked(d) == [d EXCEPT !.db.mlink = @ \cup {k}]
         IN  IF Older(p, k) = None THEN linked(FetchBaseline(c, k))
             ELSE linked(Deltify(FetchBaseline(c, k), Older(p, k), k, FALSE, worth))

LinkParent(c, p, k, worth) ==
    IF BaselineOk(c, p) THEN LinkBoth(FetchBaseline(c, p), p, k, worth)
    ELSE FetchBaseline(c, p)

AddMlink(c, p, k, other, worth) ==
    IF k \in c.db.mlink THEN c
    ELSE IF ~Parsed(c, other) THEN AfterGet(c, other)
    ELSE LinkParent(AfterGet(c, other), p, k, worth)

(* manifest_crosslink() of a manifest whose text is at hand: the link to   *)
(* its parent, then those to the children that came before it.             *)
LinkUp(c, a, worth) ==
    LET p == Parent[a]
    IN  IF p = None THEN [c EXCEPT !.db.mlink = @ \cup {a}]
        ELSE IF p \in shun THEN c
        ELSE AddMlink(Phantomize(c, p, FALSE), p, a, p, worth)

LinkDown(c, a, worth) ==
    FoldSet(LAMBDA k, acc : AddMlink(acc, a, k, k, worth),
            c, {k \in c.db.linked : Parent[k] = a})

LinkCheckin(c, a, worth) ==
    IF a \in c.db.mlink THEN c ELSE LinkDown(LinkUp(c, a, worth), a, worth)

Crosslink(c, a, worth) ==
    IF ~BaselineOk(c, a) THEN FetchBaseline(c, a)
    ELSE LinkCheckin([FetchBaseline(c, a) EXCEPT !.db.linked = @ \cup {a}], a, worth)

(* content_get() followed by manifest_crosslink().                         *)
ReadAndCrosslink(c, a, worth) ==
    IF Parsed(c, a) THEN Crosslink(AfterGet(c, a), a, worth) ELSE AfterGet(c, a)

-----------------------------------------------------------------------------
(* after_dephantomize(): link the delta-manifests that waited for a, then  *)
(* everything that is stored as a delta of a and has not been linked, and  *)
(* so on along the delta table.                                            *)
LinkWaiting(c, a, worth) ==
    FoldSet(LAMBDA o, acc : ReadAndCrosslink(acc, o, worth),
            c, {o \in Artifact : <<o, a>> \in c.db.orphan})

Visit(c, a, link, worth) ==
    [LinkWaiting(IF link THEN ReadAndCrosslink(c, a, worth) ELSE c, a, worth)
       EXCEPT !.db.orphan = {row \in @ : row[2] # a}]

(* Broken variant: the deltas of a are linked, but not the deltas of those.*)
AfterDephantomize_OneLevel(c, a, worth) ==
    LET c1 == Visit(c, a, FALSE, worth)
        kids == {x \in Artifact : c1.db.src[x] = a /\ x \notin c1.db.mlink}
    IN  FoldSet(LAMBDA x, acc : Visit(acc, x, TRUE, worth), c1, kids)

VisitAll(c, S, worth) ==
    FoldSet(LAMBDA x, acc : Visit(acc, x, TRUE, worth), c, S)

AfterDephantomize(c, a, worth) ==
    LET unlinked(d, S) == {x \in Artifact : d.src[x] \in S /\ x \notin d.mlink}
        descend(l) == LET kids == unlinked(l.c.db, l.at)
                      IN  [c |-> VisitAll(l.c, kids, worth), at |-> kids]
        level[n \in 0 .. Cardinality(Artifact)] ==
          IF n = 0 THEN [c |-> Visit(c, a, FALSE, worth), at |-> {a}]
          ELSE descend(level[n-1])
    IN  level[Cardinality(Artifact)].c

(* The content of a arrives in table blob, as a delta of s when s is not   *)
(* None; right tells whether these are the bytes that the artifact has.    *)
(* What is wrong, or a delta of something wrong, expands to something      *)
(* wrong, and so does all that has been stored as a delta of it.           *)
Fill(db, a, s, right) ==
    [db EXCEPT !.size[a] = "real", !.phantom = @ \ {a},
               !.bad = IF right /\ s \notin @ THEN @
                       ELSE @ \cup Dependents(db, a)]

(* content_put_ex(): store a, as a delta of s when s is not None.          *)
NoteDelta(c, a, s, isPrivate) ==
    [c EXCEPT !.db.private = IF isPrivate THEN @ \cup {a} ELSE @,
              !.db.src[a] = IF s = None THEN @ ELSE s]

PutPhantom(c, a, s, isPrivate, worth) ==
    IF s = None \/ IsAvailable(c, s)
      THEN AfterDephantomize(
             NoteDelta(MarkAvailable(IF s = None THEN c ELSE AfterIsAvailable(c, s), a),
                       a, s, isPrivate), a, worth)
      ELSE NoteDelta(AfterIsAvailable(c, s), a, s, isPrivate)

PutNew(c, a, s) ==
    IF a \notin c.bag.missing THEN c
    ELSE IF s = None THEN MarkAvailable(c, a)
    ELSE IF IsAvailable(c, s) THEN MarkAvailable(AfterIsAvailable(c, s), a)
    ELSE AfterIsAvailable(c, s)

ContentPut(c, a, s, isPrivate, right, worth) ==
    LET filled == [c EXCEPT !.db = Fill(@, a, s, right)]
        verified(d) == [d EXCEPT !.bag.verify = @ \cup {a}]
        announced(d) == [d EXCEPT !.db.unclustered =
                           IF isPrivate THEN @ ELSE @ \cup {a}]
    IN  IF a \in Real(c.db) THEN c
        ELSE IF a \in c.db.phantom
          THEN verified(PutPhantom(filled, a, s, isPrivate, worth))
          ELSE verified(announced(PutNew(NoteDelta(filled, a, s, isPrivate), a, s)))
=============================================================================
