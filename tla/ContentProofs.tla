---------------------------- MODULE ContentProofs ----------------------------
(***************************************************************************)
(* Lemmas about the operators of ContentStore, for every set of artifacts  *)
(* and every delta table: what a delta chain is, what can be read of a     *)
(* store, and that crosslinking and deltification leave that alone.  Then  *)
(* theorems about module Content: for every set of processes, whatever     *)
(* peers send as a delta of what.                                          *)
(***************************************************************************)
EXTENDS Content, FiniteLemmas, NaturalsInduction, TLAPS

-----------------------------------------------------------------------------
(* Delta chains.                                                           *)
Sources == [Artifact -> Artifact \cup {None}]

Closed(db, S) == \A x \in S : db.src[x] \in S \cup {None}

LEMMA ChainLeast ==
    ASSUME NEW db, NEW a \in Artifact, NEW S \in SUBSET Artifact, a \in S, Closed(db, S)
    PROVE  Chain(db, a) \subseteq S
BY DEF Chain, Closed

LEMMA ChainClosed ==
    ASSUME NEW db, NEW a \in Artifact, db.src \in Sources
    PROVE  /\ Chain(db, a) \in SUBSET Artifact /\ a \in Chain(db, a)
           /\ Closed(db, Chain(db, a))
<1>1. Chain(db, a) \in SUBSET Artifact /\ a \in Chain(db, a)
  BY DEF Chain
<1>2. ASSUME NEW x \in Chain(db, a), db.src[x] # None
      PROVE  db.src[x] \in Chain(db, a)
  <2>1. db.src[x] \in Artifact
    BY <1>1, <1>2 DEF Sources
  <2>2. ASSUME NEW S \in SUBSET Artifact, a \in S, \A y \in S : db.src[y] \in S \cup {None}
        PROVE  db.src[x] \in S
    <3>1. x \in S
      BY <2>2 DEF Chain
    <3> QED BY <1>2, <2>2, <3>1
  <2> QED BY <2>1, <2>2 DEF Chain
<1> QED BY <1>1, <1>2 DEF Closed

LEMMA ChainTail ==
    ASSUME NEW db, NEW a \in Artifact, db.src \in Sources, NEW x \in Chain(db, a)
    PROVE  x \in Artifact /\ Chain(db, x) \subseteq Chain(db, a)
BY ChainClosed, ChainLeast

LEMMA ChainEnd ==
    ASSUME NEW db, NEW a \in Artifact, db.src[a] = None
    PROVE  Chain(db, a) \subseteq {a}
<1>1. Closed(db, {a})
  BY DEF Closed
<1> QED BY <1>1, ChainLeast

LEMMA ChainStep ==
    ASSUME NEW db, NEW a \in Artifact, db.src \in Sources, db.src[a] # None
    PROVE  db.src[a] \in Artifact /\ Chain(db, a) = {a} \cup Chain(db, db.src[a])
<1>1. db.src[a] \in Artifact
  BY DEF Sources
<1> DEFINE S == {a} \cup Chain(db, db.src[a])
<1>2. S \in SUBSET Artifact /\ Closed(db, S)
  BY <1>1, ChainClosed DEF Closed
<1>3. Chain(db, a) \subseteq S
  BY <1>2, ChainLeast
<1>4. a \in Chain(db, a) /\ db.src[a] \in Chain(db, a)
  BY ChainClosed DEF Closed
<1>5. Chain(db, db.src[a]) \subseteq Chain(db, a)
  BY <1>4, ChainTail
<1> QED BY <1>1, <1>3, <1>4, <1>5

(* A chain depends on the sources of its members only.                     *)
LEMMA SameChain ==
    ASSUME NEW db, NEW d, NEW a \in Artifact, db.src \in Sources, d.src \in Sources,
           \A x \in Chain(db, a) : d.src[x] = db.src[x]
    PROVE  Chain(d, a) = Chain(db, a)
<1>1. Closed(d, Chain(db, a))
  BY ChainClosed DEF Closed
<1>2. Chain(d, a) \subseteq Chain(db, a)
  BY <1>1, ChainClosed, ChainLeast
<1>3. Closed(db, Chain(d, a))
  BY <1>2, ChainClosed DEF Closed
<1> QED BY <1>2, <1>3, ChainClosed, ChainLeast

(* A walk that meets a set meets some member of it first.                  *)
LEMMA SomeFirst ==
    ASSUME NEW db, NEW a \in Artifact, db.src \in Sources, NEW met, met \subseteq Chain(db, a),
           met # {}
    PROVE  \E x \in met : met \subseteq Chain(db, x)
<1> SUFFICES ASSUME \A x \in met : ~(met \subseteq Chain(db, x))
             PROVE  FALSE
  OBVIOUS
<1> DEFINE S == {x \in Chain(db, a) : met \subseteq Chain(db, x)}
<1>1. S \in SUBSET Artifact /\ a \in S /\ S \cap met = {}
  BY ChainClosed
<1>2. ASSUME NEW x \in S, db.src[x] # None
      PROVE  db.src[x] \in S
  <2>1. x \in Artifact /\ db.src[x] \in Chain(db, a)
    BY <1>2, ChainClosed DEF Closed
  <2>2. Chain(db, x) = {x} \cup Chain(db, db.src[x])
    BY <1>2, <2>1, ChainStep
  <2> QED BY <1>1, <2>1, <2>2
<1>3. Closed(db, S)
  BY <1>2 DEF Closed
<1>4. met \subseteq S
  <2> HIDE DEF S
  <2> QED BY <1>1, <1>3, ChainLeast
<1> QED BY <1>1, <1>4

(* The end of a chain is the end of the chains of its members.             *)
LEMMA OneEnd ==
    ASSUME NEW db, NEW a \in Artifact, db.src \in Sources,
           NEW e \in Chain(db, a), db.src[e] = None, NEW x \in Chain(db, a)
    PROVE  e \in Chain(db, x)
<1> DEFINE S == {y \in Chain(db, a) : e \in Chain(db, y)}
<1>1. S \in SUBSET Artifact /\ a \in S
  BY ChainClosed
<1>2. ASSUME NEW y \in S, db.src[y] # None
      PROVE  db.src[y] \in S
  <2>1. y \in Artifact /\ db.src[y] \in Chain(db, a)
    BY <1>2, ChainClosed DEF Closed
  <2>2. Chain(db, y) = {y} \cup Chain(db, db.src[y])
    BY <1>2, <2>1, ChainStep
  <2> QED BY <1>2, <2>1, <2>2
<1>3. Closed(db, S)
  BY <1>2 DEF Closed
<1> HIDE DEF S
<1>4. Chain(db, a) \subseteq S
  BY <1>1, <1>3, ChainLeast
<1> QED BY <1>4 DEF S

-----------------------------------------------------------------------------
(* What can be read.                                                       *)
R(db) == {a \in Artifact : Readable(db, a)}

LEMMA InR ==
    ASSUME NEW db, NEW a \in Artifact
    PROVE  a \in R(db) <=> /\ Chain(db, a) \subseteq Real(db)
                           /\ \E e \in Chain(db, a) : e \in Artifact /\ db.src[e] = None
BY DEF R, Readable, Undeltaed

LEMMA ReadableTail ==
    ASSUME NEW db, db.src \in Sources, NEW a \in R(db), NEW x \in Chain(db, a)
    PROVE  x \in R(db) /\ x \in Real(db)
<1>1. a \in Artifact /\ x \in Artifact /\ Chain(db, x) \subseteq Chain(db, a)
  BY ChainTail DEF R
<1>2. PICK e \in Chain(db, a) : e \in Artifact /\ db.src[e] = None
  BY <1>1, InR
<1>3. e \in Chain(db, x)
  BY <1>1, <1>2, OneEnd
<1> QED BY <1>1, <1>2, <1>3, InR

LEMMA ReadableIsReal ==
    ASSUME NEW db, db.src \in Sources PROVE R(db) \subseteq Real(db)
BY ChainClosed, ReadableTail DEF R

(* A full text is readable.                                                *)
LEMMA FullText ==
    ASSUME NEW db, db.src \in Sources, NEW a \in Real(db), db.src[a] = None PROVE a \in R(db)
<1>1. a \in Artifact
  BY DEF Real
<1> QED BY <1>1, ChainClosed, ChainEnd, InR

(* A delta of what is readable is readable.                                *)
LEMMA DeltaText ==
    ASSUME NEW db, db.src \in Sources, NEW a \in Real(db), db.src[a] \in R(db) PROVE a \in R(db)
<1>1. a \in Artifact /\ db.src[a] \in Artifact
  BY DEF Real, R
<1>2. CASE db.src[a] = None
  BY <1>2, FullText
<1>3. CASE db.src[a] # None
  <2>1. Chain(db, a) = {a} \cup Chain(db, db.src[a])
    BY <1>1, <1>3, ChainStep
  <2> QED BY <1>1, <2>1, InR
<1> QED BY <1>2, <1>3

(* When a gets another source, and can be read before and after, the same  *)
(* artifacts can be read.                                                  *)
LEMMA Swing ==
    ASSUME NEW db, NEW d, db.src \in Sources, d.src \in Sources, d.size = db.size,
           NEW a \in Artifact, \A x \in Artifact \ {a} : d.src[x] = db.src[x], a \in R(db)
    PROVE  R(d) \subseteq R(db)
<1> SUFFICES ASSUME NEW x \in R(d) PROVE x \in R(db)
  OBVIOUS
<1>1. x \in Artifact /\ Real(d) = Real(db)
  BY DEF R, Real
<1>2. Chain(d, x) \in SUBSET Artifact /\ Chain(db, x) \in SUBSET Artifact
      /\ Chain(db, a) \in SUBSET Artifact
  BY <1>1, ChainClosed
<1>3. CASE a \notin Chain(d, x)
  <2>1. Chain(db, x) = Chain(d, x)
    BY <1>1, <1>2, <1>3, SameChain
  <2>2. PICK e \in Chain(d, x) : e \in Artifact /\ d.src[e] = None
    BY <1>1, InR
  <2>3. db.src[e] = None
    BY <1>3, <2>2
  <2> QED BY <1>1, <2>1, <2>2, <2>3, InR
<1>4. CASE a \in Chain(d, x)
  <2> DEFINE S == Chain(d, x) \cup Chain(db, a)
  <2>1. S \in SUBSET Artifact /\ x \in S
    BY <1>1, <1>2, ChainClosed
  <2>2. Closed(db, S)
    <3> SUFFICES ASSUME NEW y \in S, db.src[y] # None PROVE db.src[y] \in S
      BY DEF Closed
    <3>1. CASE y \in Chain(db, a)
      BY <3>1, ChainClosed DEF Closed
    <3>2. CASE y \notin Chain(db, a)
      <4>1. y # a /\ y \in Artifact /\ y \in Chain(d, x)
        BY <1>2, <3>2, ChainClosed
      <4>2. d.src[y] = db.src[y]
        BY <4>1
      <4> QED BY <1>1, <4>1, <4>2, ChainClosed DEF Closed
    <3> QED BY <3>1, <3>2
  <2>3. Chain(db, x) \subseteq S
    <3> HIDE DEF S
    <3> QED BY <1>1, <2>1, <2>2, ChainLeast
  <2>4. Chain(db, x) \subseteq Real(db)
    <3>1. Chain(d, x) \subseteq Real(db)
      BY <1>1, InR
    <3>2. Chain(db, a) \subseteq Real(db)
      BY InR
    <3> QED BY <2>3, <3>1, <3>2
  <2>5. a \in Chain(db, x)
    <3> SUFFICES ASSUME a \notin Chain(db, x) PROVE FALSE
      OBVIOUS
    <3>1. Chain(d, x) = Chain(db, x)
      BY <1>1, <1>2, SameChain
    <3> QED BY <1>4, <3>1
  <2>6. PICK e \in Chain(db, a) : e \in Artifact /\ db.src[e] = None
    BY InR
  <2>7. e \in Chain(db, x)
    BY <1>1, <2>5, <2>6, ChainTail
  <2> QED BY <1>1, <2>4, <2>6, <2>7, InR
<1> QED BY <1>3, <1>4
(* When the content of a arrives, nothing becomes unreadable, and only     *)
(* what has a in its chain becomes readable.                               *)
LEMMA Arrival ==
    ASSUME NEW db, NEW d, db.src \in Sources, d.src \in Sources,
           NEW a \in Artifact, a \notin Real(db), Real(d) = Real(db) \cup {a},
           \A x \in Artifact \ {a} : d.src[x] = db.src[x]
    PROVE  /\ R(db) \subseteq R(d)
           /\ \A x \in R(d) : x \in R(db) \/ a \in Chain(d, x)
<1>1. ASSUME NEW x \in R(db) PROVE x \in R(d)
  <2>1. x \in Artifact /\ Chain(db, x) \subseteq Real(db) /\ Chain(db, x) \in SUBSET Artifact
    BY InR, ChainClosed DEF R
  <2>2. Chain(d, x) = Chain(db, x)
    BY <2>1, SameChain
  <2>3. PICK e \in Chain(db, x) : e \in Artifact /\ db.src[e] = None
    BY <2>1, InR
  <2>4. d.src[e] = None
    BY <2>1, <2>3
  <2> QED BY <2>1, <2>2, <2>3, <2>4, InR
<1>2. ASSUME NEW x \in R(d), a \notin Chain(d, x) PROVE x \in R(db)
  <2>1. x \in Artifact /\ Chain(d, x) \subseteq Real(d) /\ Chain(d, x) \in SUBSET Artifact
    BY InR, ChainClosed DEF R
  <2>2. Chain(db, x) = Chain(d, x)
    BY <1>2, <2>1, SameChain
  <2>3. PICK e \in Chain(d, x) : e \in Artifact /\ d.src[e] = None
    BY <2>1, InR
  <2>4. db.src[e] = None
    BY <1>2, <2>1, <2>3
  <2> QED BY <1>2, <2>1, <2>2, <2>3, <2>4, InR
<1> QED BY <1>1, <1>2

(* What rests on a full text can be read, if all deltas have content.      *)
LEMMA DependentsReadable ==
    ASSUME NEW db, db.src \in Sources, NEW a \in Real(db), db.src[a] = None,
           \A x \in Artifact : db.src[x] # None => x \in Real(db)
    PROVE  Dependents(db, a) \subseteq R(db)
<1> SUFFICES ASSUME NEW x \in Dependents(db, a) PROVE x \in R(db)
  OBVIOUS
<1>1. x \in Artifact /\ a \in Artifact /\ a \in Chain(db, x)
  BY DEF Dependents, Real
<1>2. ASSUME NEW y \in Chain(db, x) PROVE y \in Real(db)
  <2>1. y \in Artifact /\ a \in Chain(db, y)
    BY <1>1, ChainTail, OneEnd
  <2>2. db.src[y] = None => y = a
    BY <2>1, ChainEnd
  <2> QED BY <2>1, <2>2
<1> QED BY <1>1, <1>2, InR

(* A loop has no end.                                                      *)
LEMMA NoLoop ==
    ASSUME NEW db, db.src \in Sources, NEW a \in R(db), db.src[a] # None
    PROVE  a \notin Chain(db, db.src[a])
<1> SUFFICES ASSUME a \in Chain(db, db.src[a]) PROVE FALSE
  OBVIOUS
<1>1. a \in Artifact /\ db.src[a] \in Artifact
  BY ChainStep DEF R
<1> DEFINE S == {y \in Chain(db, a) : a \in Chain(db, y)}
<1>2. S \in SUBSET Artifact /\ a \in S
  BY <1>1, ChainClosed
<1>3. ASSUME NEW y \in S, db.src[y] # None
      PROVE  db.src[y] \in S
  <2>1. y \in Artifact /\ db.src[y] \in Chain(db, a)
    BY <1>1, <1>3, ChainClosed DEF Closed
  <2>2. Chain(db, y) = {y} \cup Chain(db, db.src[y])
    BY <1>3, <2>1, ChainStep
  <2> QED BY <1>3, <2>1, <2>2
<1>4. Closed(db, S)
  BY <1>3 DEF Closed
<1>5. PICK e \in Chain(db, a) : e \in Artifact /\ db.src[e] = None
  BY <1>1, InR
<1>6. e \in S
  <2> HIDE DEF S
  <2> QED BY <1>1, <1>2, <1>4, <1>5, ChainLeast
<1>7. a \in Chain(db, e)
  BY <1>6
<1>8. a = e
  BY <1>5, <1>7, ChainEnd
<1> QED BY <1>5, <1>8

-----------------------------------------------------------------------------
(* What every operator keeps of a context.                                 *)
Contexts == [db : Tables, bag : Bags]

DbGood(db) ==
    /\ db \in Tables
    /\ db.phantom = Known(db) \ Real(db)
    /\ \A x \in Artifact : db.src[x] # None => x \in Real(db) /\ db.src[x] \in Known(db)

Good(c) ==
    /\ c \in Contexts /\ DbGood(c.db)
    /\ c.bag.available \subseteq R(c.db)

Fresh(c) == c.bag.missing \cap R(c.db) = {}

(* What can be read and is right.                                          *)
I(db) == R(db) \ db.bad

SourcesStay(db, e) == \A x \in Artifact \ R(db) : e.src[x] = db.src[x]

(* What leaves the contents alone.                                         *)
Upkeep(c, d) ==
    /\ Good(d)
    /\ R(d.db) = R(c.db) /\ Real(d.db) = Real(c.db) /\ d.db.bad = c.db.bad
    /\ Known(c.db) \subseteq Known(d.db)
    /\ c.bag.verify \subseteq d.bag.verify
    /\ Fresh(c) => Fresh(d)
    /\ SourcesStay(c.db, d.db)

LEMMA UpkeepOfNothing == ASSUME NEW c, Good(c) PROVE Upkeep(c, c)
BY DEF Upkeep, SourcesStay

LEMMA UpkeepOfBoth ==
    ASSUME NEW c, NEW d, NEW e, Upkeep(c, d), Upkeep(d, e) PROVE Upkeep(c, e)
BY DEF Upkeep, SourcesStay

LEMMA GoodTypes ==
    ASSUME NEW c, Good(c)
    PROVE  /\ c \in Contexts /\ c.db \in Tables /\ c.bag \in Bags /\ c.db.src \in Sources
           /\ R(c.db) \subseteq Real(c.db) /\ Real(c.db) \subseteq Known(c.db)
           /\ Known(c.db) \subseteq Artifact
           /\ c.bag.available \subseteq R(c.db) /\ c.bag.missing \subseteq Artifact
<1>1. c \in Contexts /\ c.db \in Tables /\ c.bag \in Bags /\ c.bag.available \subseteq R(c.db)
  BY DEF Good, Contexts
<1>2. c.db.src \in Sources
  BY <1>1 DEF Tables, Sources
<1>3. Real(c.db) \subseteq Known(c.db) /\ Known(c.db) \subseteq Artifact
  BY DEF Real, Known
<1>4. c.bag.missing \subseteq Artifact
  BY <1>1 DEF Bags
<1> QED BY <1>1, <1>2, <1>3, <1>4, ReadableIsReal

(* Other bags, the same tables.                                            *)
LEMMA NewBags ==
    ASSUME NEW c, NEW d, Good(c), d \in Contexts, d.db = c.db,
           d.bag.verify = c.bag.verify, d.bag.available \subseteq R(c.db),
           Fresh(c) => d.bag.missing \cap R(c.db) = {}
    PROVE  Upkeep(c, d)
BY DEF Upkeep, Good, Fresh, SourcesStay

(* Other entries in the tables that say nothing about contents.            *)
LEMMA SameContents ==
    ASSUME NEW db, NEW d, d.size = db.size, d.src = db.src
    PROVE  R(d) = R(db) /\ Real(d) = Real(db) /\ Known(d) = Known(db)
BY DEF R, Readable, Chain, Real, Known, Undeltaed

LEMMA Aside ==
    ASSUME NEW c, NEW d, Good(c), d \in Contexts, d.bag = c.bag,
           d.db.size = c.db.size, d.db.src = c.db.src, d.db.phantom = c.db.phantom,
           d.db.bad = c.db.bad
    PROVE  Upkeep(c, d)
<1>1. R(d.db) = R(c.db) /\ Real(d.db) = Real(c.db) /\ Known(d.db) = Known(c.db)
  BY SameContents
<1>2. d.db \in Tables
  BY DEF Contexts
<1>3. DbGood(d.db)
  BY <1>1, <1>2 DEF Good, DbGood
<1> QED BY <1>1, <1>3 DEF Upkeep, Good, Fresh, SourcesStay

-----------------------------------------------------------------------------
(* The bags.                                                               *)
LEMMA FirstMetIs ==
    ASSUME NEW db, db.src \in Sources, NEW a \in Artifact, NEW stop
    PROVE  LET e == FirstMet(db, a, stop) IN
           /\ e \in Chain(db, a) /\ e \in Artifact
           /\ a \in stop => e = a
           /\ e \notin stop => e = a /\ Chain(db, a) \cap stop = {}
           /\ e \in stop => (Chain(db, a) \cap stop) \subseteq Chain(db, e)
<1> DEFINE met == Chain(db, a) \cap stop
<1>1. a \in Chain(db, a) /\ Chain(db, a) \in SUBSET Artifact
  BY ChainClosed
<1>2. CASE a \in stop \/ met = {}
  <2>1. FirstMet(db, a, stop) = a
    BY <1>2 DEF FirstMet
  <2> QED BY <1>1, <1>2, <2>1
<1>3. CASE a \notin stop /\ met # {}
  <2> DEFINE e == CHOOSE x \in met : met \subseteq Chain(db, x)
  <2>1. FirstMet(db, a, stop) = e
    BY <1>3 DEF FirstMet
  <2>2. \E x \in met : met \subseteq Chain(db, x)
    <3>1. met \subseteq Chain(db, a)
      OBVIOUS
    <3> HIDE DEF met
    <3> QED BY <1>3, <3>1, SomeFirst
  <2>3. e \in met /\ met \subseteq Chain(db, e)
    <3> HIDE DEF met
    <3> QED BY <2>2
  <2> HIDE DEF e
  <2> QED BY <1>1, <1>3, <2>1, <2>3
<1> QED BY <1>2, <1>3

LEMMA BaseIs ==
    ASSUME NEW db, db.src \in Sources, NEW a \in Artifact
    PROVE  /\ Base(db, a) \in Chain(db, a) /\ Base(db, a) \in Artifact
           /\ a \in R(db) => Base(db, a) \in R(db)
<1>1. a \in Chain(db, a) /\ Chain(db, a) \in SUBSET Artifact
  BY ChainClosed
<1>2. Base(db, a) \in Chain(db, a)
  BY <1>1 DEF Base
<1> QED BY <1>1, <1>2, ReadableTail

(* content_is_available() is right about what it finds, and so is what it  *)
(* remembers.                                                              *)
LEMMA IsAvailableStep ==
    ASSUME NEW c, Good(c), NEW a \in Artifact
    PROVE  /\ Upkeep(c, AfterIsAvailable(c, a))
           /\ IsAvailable(c, a) => a \in R(c.db)
           /\ AfterIsAvailable(c, a).db = c.db
<1>1. /\ c \in Contexts /\ c.db.src \in Sources /\ R(c.db) \subseteq Real(c.db)
      /\ c.bag.available \subseteq R(c.db) /\ c.bag.missing \subseteq Artifact
  BY GoodTypes
<1> DEFINE stop == c.bag.missing \cup c.bag.available \cup (Artifact \ Real(c.db)) \cup Undeltaed(c.db)
           e == FirstMet(c.db, a, stop)
<1>2. AvailabilityEnd(c, a) = e
  BY DEF AvailabilityEnd
<1>3. /\ e \in Chain(c.db, a) /\ e \in Artifact
      /\ e \notin stop => e = a /\ Chain(c.db, a) \cap stop = {}
      /\ e \in stop => (Chain(c.db, a) \cap stop) \subseteq Chain(c.db, e)
  <2> HIDE DEF stop
  <2> QED BY <1>1, FirstMetIs
<1> HIDE DEF e
<1>4. ASSUME IsAvailable(c, a)
      PROVE  e \in R(c.db) /\ a \in R(c.db)
  <2>1. e \notin c.bag.missing /\ (e \in c.bag.available \/ e \in Real(c.db) \cap Undeltaed(c.db))
    BY <1>2, <1>4 DEF IsAvailable
  <2>2. e \in stop
    BY <2>1
  <2>3. e \in R(c.db)
    BY <1>1, <2>1, FullText DEF Undeltaed
  <2>4. ASSUME NEW x \in Chain(c.db, a) PROVE x \in Real(c.db)
    <3>1. x \in Artifact
      BY <1>1, ChainTail
    <3>2. CASE x \in stop
      <4>1. x \in Chain(c.db, e)
        BY <1>3, <2>2, <3>2
      <4> QED BY <1>1, <2>3, <4>1, ReadableTail
    <3>3. CASE x \notin stop
      BY <3>1, <3>3
    <3> QED BY <3>2, <3>3
  <2>5. PICK z \in Chain(c.db, e) : z \in Artifact /\ c.db.src[z] = None
    BY <1>3, <2>3, InR
  <2>6. z \in Chain(c.db, a)
    BY <1>1, <1>3, <2>5, ChainTail
  <2> QED BY <2>3, <2>4, <2>5, <2>6, InR
<1>5. ASSUME ~IsAvailable(c, a), Fresh(c)
      PROVE  e \notin R(c.db)
  <2>1. CASE e \in c.bag.missing
    BY <1>5, <2>1 DEF Fresh
  <2>2. CASE e \notin c.bag.missing
    <3>1. e \notin c.bag.available /\ ~(e \in Real(c.db) \cap Undeltaed(c.db))
      BY <1>2, <1>5, <2>2 DEF IsAvailable
    <3>2. CASE e \in stop
      BY <1>1, <2>2, <3>1, <3>2
    <3>3. CASE e \notin stop
      <4>1. e = a /\ Chain(c.db, a) \cap stop = {}
        BY <1>3, <3>3
      <4>2. \A z \in Chain(c.db, a) : z \in Artifact => c.db.src[z] # None
        BY <4>1 DEF Undeltaed
      <4> QED BY <4>1, <4>2, InR
    <3> QED BY <3>2, <3>3
  <2> QED BY <2>1, <2>2
<1> PICK S \in SUBSET Artifact : S = {e}
  BY <1>3
<1> PICK d : d = AfterIsAvailable(c, a)
  OBVIOUS
<1>7. CASE IsAvailable(c, a)
  <2>1. d = [c EXCEPT !.bag.available = @ \cup S]
    BY <1>2, <1>7 DEF AfterIsAvailable
  <2>2. /\ d \in Contexts /\ d.db = c.db /\ d.bag.verify = c.bag.verify
        /\ d.bag.missing = c.bag.missing /\ d.bag.available = c.bag.available \cup {e}
    <3>1. c \in Contexts
      BY <1>1
    <3>2. /\ d \in Contexts /\ d.db = c.db /\ d.bag.verify = c.bag.verify
          /\ d.bag.available = c.bag.available \cup S
          /\ d.bag.missing = c.bag.missing
      BY <2>1, <3>1 DEF Contexts, Bags
    <3> QED BY <3>2
  <2>3. e \in R(c.db) /\ a \in R(c.db)
    BY <1>4, <1>7
  <2>4. Upkeep(c, d)
    BY <1>1, <2>2, <2>3, NewBags DEF Fresh
  <2> QED BY <2>2, <2>3, <2>4
<1>8. CASE ~IsAvailable(c, a)
  <2>1. d = [c EXCEPT !.bag.missing = @ \cup S]
    BY <1>2, <1>8 DEF AfterIsAvailable
  <2>2. /\ d \in Contexts /\ d.db = c.db /\ d.bag.verify = c.bag.verify
        /\ d.bag.missing = c.bag.missing \cup {e} /\ d.bag.available = c.bag.available
    <3>1. c \in Contexts
      BY <1>1
    <3>2. /\ d \in Contexts /\ d.db = c.db /\ d.bag.verify = c.bag.verify
          /\ d.bag.missing = c.bag.missing \cup S
          /\ d.bag.available = c.bag.available
      BY <2>1, <3>1 DEF Contexts, Bags
    <3> QED BY <3>2
  <2>3. Fresh(c) => e \notin R(c.db)
    BY <1>5, <1>8
  <2>4. Upkeep(c, d)
    BY <1>1, <2>2, <2>3, NewBags DEF Fresh
  <2> QED BY <1>8, <2>2, <2>4
<1> QED BY <1>7, <1>8

(* content_get(): what it notes about one artifact.                        *)
Noted(c, x, have) == IF x \in have.missing THEN have
                    ELSE IF CanGet(c, x) THEN [have EXCEPT !.available = @ \cup {x}]
                    ELSE [have EXCEPT !.missing = @ \cup {x}]

LEMMA NotedIs ==
    ASSUME NEW c, Good(c), NEW x \in Artifact, NEW have \in Bags,
           have.available \subseteq R(c.db),
           Fresh(c) => have.missing \cap R(c.db) = {}
    PROVE  LET b == Noted(c, x, have) IN
           /\ b \in Bags /\ b.available \subseteq R(c.db) /\ b.verify = have.verify
           /\ Fresh(c) => b.missing \cap R(c.db) = {}
           /\ have.missing \subseteq b.missing
           /\ x \in b.missing \/ CanGet(c, x)
<1>1. CanGet(c, x) => x \in R(c.db)
  BY DEF CanGet, R
<1>2. Fresh(c) /\ ~CanGet(c, x) => x \notin R(c.db)
  BY GoodTypes, BaseIs DEF CanGet, Fresh, R
<1>3. CASE x \in have.missing
  BY <1>3 DEF Noted
<1>4. CASE x \notin have.missing /\ CanGet(c, x)
  <2> PICK b : b = [have EXCEPT !.available = @ \cup {x}]
    OBVIOUS
  <2>1. b \in Bags /\ b.available = have.available \cup {x} /\ b.verify = have.verify
        /\ b.missing = have.missing
    BY DEF Bags
  <2>2. Noted(c, x, have) = b
    BY <1>4 DEF Noted
  <2> QED BY <1>1, <1>4, <2>1, <2>2
<1>5. CASE x \notin have.missing /\ ~CanGet(c, x)
  <2> PICK b : b = [have EXCEPT !.missing = @ \cup {x}]
    OBVIOUS
  <2>1. b \in Bags /\ b.available = have.available /\ b.verify = have.verify
        /\ b.missing = have.missing \cup {x}
    BY DEF Bags
  <2>2. Noted(c, x, have) = b
    BY <1>5 DEF Noted
  <2> QED BY <1>2, <1>5, <2>1, <2>2
<1> QED BY <1>3, <1>4, <1>5

LEMMA GetStep ==
    ASSUME NEW c, Good(c), NEW a \in Artifact
    PROVE  /\ Upkeep(c, AfterGet(c, a))
           /\ CanGet(c, a) => a \in R(c.db)
           /\ AfterGet(c, a).db = c.db
           /\ ~CanGet(c, a) => a \in AfterGet(c, a).bag.missing
           /\ AfterGet(c, a).bag.verify = c.bag.verify
<1>1. /\ c \in Contexts /\ c.bag \in Bags /\ c.db.src \in Sources /\ c.db \in Tables
      /\ c.bag.available \subseteq R(c.db)
  BY GoodTypes
<1>2. CanGet(c, a) => a \in R(c.db)
  BY DEF CanGet, R
<1>3. CASE a \in c.bag.missing
  <2>1. AfterGet(c, a) = c
    BY <1>3 DEF AfterGet
  <2> QED BY <1>2, <1>3, <2>1, UpkeepOfNothing
<1>4. CASE a \notin c.bag.missing
  <2> PICK x \in Artifact : x = Base(c.db, a)
    BY <1>1, BaseIs
  <2> PICK b1 : b1 = Noted(c, x, c.bag)
    OBVIOUS
  <2> PICK b2 : b2 = Noted(c, a, b1)
    OBVIOUS
  <2>1. AfterGet(c, a) = [c EXCEPT !.bag = b2]
    BY <1>4 DEF AfterGet, Noted
  <2>2. /\ b1 \in Bags /\ b1.available \subseteq R(c.db) /\ b1.verify = c.bag.verify
        /\ Fresh(c) => b1.missing \cap R(c.db) = {}
    <3>1. Fresh(c) => c.bag.missing \cap R(c.db) = {}
      BY DEF Fresh
    <3> QED BY <1>1, <3>1, NotedIs
  <2>3. /\ b2 \in Bags /\ b2.available \subseteq R(c.db) /\ b2.verify = b1.verify
        /\ Fresh(c) => b2.missing \cap R(c.db) = {}
        /\ a \in b2.missing \/ CanGet(c, a)
    BY <2>2, NotedIs
  <2> PICK d : d = [c EXCEPT !.bag = b2]
    OBVIOUS
  <2>4. d \in Contexts /\ d.db = c.db /\ d.bag = b2
    BY <1>1, <2>3 DEF Contexts
  <2>5. Upkeep(c, d)
    BY <2>2, <2>3, <2>4, NewBags
  <2>6. AfterGet(c, a) = d /\ d.bag.verify = c.bag.verify
    BY <2>1, <2>2, <2>3, <2>4
  <2> QED BY <1>2, <2>3, <2>4, <2>5, <2>6
<1> QED BY <1>3, <1>4
-----------------------------------------------------------------------------
(* Phantoms.                                                               *)
LEMMA SameRealAndSource ==
    ASSUME NEW db, NEW d, Real(d) = Real(db), d.src = db.src
    PROVE  R(d) = R(db)
BY DEF R, Readable, Chain, Undeltaed

LEMMA ContentNewIs ==
    ASSUME NEW c \in Contexts, NEW a \in Artifact, NEW priv, a \notin shun
    PROVE  LET d == ContentNew(c, a, priv) IN
           /\ d \in Contexts /\ d.db.src = c.db.src /\ d.db.bad = c.db.bad
           /\ d.db.size = [c.db.size EXCEPT ![a] = "phantom"]
           /\ d.db.phantom = c.db.phantom \cup {a}
           /\ d.bag.missing = c.bag.missing \cup {a}
           /\ d.bag.available = c.bag.available /\ d.bag.verify = c.bag.verify
<1>1. c.db \in Tables /\ c.bag \in Bags
  BY DEF Contexts
<1> PICK P \in SUBSET Artifact : P = IF priv THEN c.db.private \cup {a} ELSE c.db.private
  BY <1>1 DEF Tables
<1> PICK U \in SUBSET Artifact : U = IF priv THEN c.db.unclustered ELSE c.db.unclustered \cup {a}
  BY <1>1 DEF Tables
<1> DEFINE d == [c EXCEPT !.db.size[a] = "phantom", !.db.phantom = @ \cup {a},
                          !.db.private = P, !.db.unclustered = U,
                          !.bag.missing = @ \cup {a}]
<1>2. ContentNew(c, a, priv) = d
  BY DEF ContentNew
<1>3. d.db \in Tables /\ d.bag \in Bags
  BY <1>1 DEF Tables, Bags, Contexts
<1>4. /\ d \in Contexts /\ d.db.src = c.db.src /\ d.db.bad = c.db.bad
      /\ d.db.size = [c.db.size EXCEPT ![a] = "phantom"]
      /\ d.db.phantom = c.db.phantom \cup {a}
      /\ d.bag.missing = c.bag.missing \cup {a}
      /\ d.bag.available = c.bag.available /\ d.bag.verify = c.bag.verify
  BY <1>1, <1>3 DEF Tables, Bags, Contexts
<1> QED BY <1>2, <1>4

(* uuid_to_rid() with a new phantom.                                       *)
LEMMA PhantomizeStep ==
    ASSUME NEW c, Good(c), NEW a \in Artifact, NEW priv
    PROVE  /\ Upkeep(c, Phantomize(c, a, priv))
           /\ a \in Known(Phantomize(c, a, priv).db) \/ a \in shun
<1>1. /\ c \in Contexts /\ c.db \in Tables /\ c.bag \in Bags /\ c.db.src \in Sources
      /\ R(c.db) \subseteq Real(c.db) /\ Real(c.db) \subseteq Known(c.db) /\ DbGood(c.db)
      /\ c.bag.available \subseteq R(c.db)
  BY GoodTypes DEF Good
<1>2. CASE a \in Known(c.db) \/ a \in shun
  <2>1. Phantomize(c, a, priv) = c
    BY <1>2 DEF Phantomize, ContentNew
  <2> QED BY <1>2, <2>1, UpkeepOfNothing
<1>3. CASE a \notin Known(c.db) /\ a \notin shun
  <2> PICK d : d = ContentNew(c, a, priv)
    OBVIOUS
  <2>1. Phantomize(c, a, priv) = d
    BY <1>3 DEF Phantomize
  <2>2. /\ d \in Contexts /\ d.db.src = c.db.src /\ d.db.bad = c.db.bad
        /\ d.db.size = [c.db.size EXCEPT ![a] = "phantom"]
        /\ d.db.phantom = c.db.phantom \cup {a}
        /\ d.bag.missing = c.bag.missing \cup {a}
        /\ d.bag.available = c.bag.available /\ d.bag.verify = c.bag.verify
    BY <1>1, <1>3, ContentNewIs
  <2>3. c.db.size \in [Artifact -> {"absent", "phantom", "real"}] /\ d.db \in Tables
    BY <1>1, <2>2 DEF Tables, Contexts
  <2>4. Real(d.db) = Real(c.db) /\ Known(d.db) = Known(c.db) \cup {a} /\ a \notin Real(c.db)
    BY <1>3, <2>2, <2>3 DEF Real, Known
  <2>5. R(d.db) = R(c.db)
    BY <2>2, <2>4, SameRealAndSource
  <2>6. DbGood(d.db)
    <3>1. d.db.phantom = Known(d.db) \ Real(d.db)
      BY <1>1, <2>2, <2>4 DEF DbGood
    <3> QED BY <1>1, <2>2, <2>3, <2>4, <3>1 DEF DbGood
  <2>7. Good(d)
    BY <1>1, <2>2, <2>5, <2>6 DEF Good
  <2>8. Fresh(c) => Fresh(d)
    BY <1>1, <2>2, <2>4, <2>5 DEF Fresh
  <2>9. Upkeep(c, d)
    BY <2>2, <2>4, <2>5, <2>7, <2>8 DEF Upkeep, SourcesStay
  <2> QED BY <2>1, <2>4, <2>9
<1> QED BY <1>2, <1>3

-----------------------------------------------------------------------------
(* Entries that say nothing about contents.                                *)
LEMMA PublicStep ==
    ASSUME NEW c, Good(c), NEW a \in Artifact PROVE Upkeep(c, MakePublic(c, a))
<1>1. c \in Contexts
  BY GoodTypes
<1> PICK d : d = MakePublic(c, a)
  OBVIOUS
<1>2. d \in Contexts /\ d.bag = c.bag /\ d.db.size = c.db.size /\ d.db.src = c.db.src
      /\ d.db.phantom = c.db.phantom /\ d.db.bad = c.db.bad
  BY <1>1 DEF MakePublic, Contexts, Tables
<1> QED BY <1>2, Aside

LEMMA PrivateStep ==
    ASSUME NEW c, Good(c), NEW a \in Artifact PROVE Upkeep(c, MakePrivate(c, a))
<1>1. c \in Contexts
  BY GoodTypes
<1> PICK d : d = MakePrivate(c, a)
  OBVIOUS
<1>2. d \in Contexts /\ d.bag = c.bag /\ d.db.size = c.db.size /\ d.db.src = c.db.src
      /\ d.db.phantom = c.db.phantom /\ d.db.bad = c.db.bad
  BY <1>1 DEF MakePrivate, Contexts, Tables
<1> QED BY <1>2, Aside

LEMMA OrphanStep ==
    ASSUME NEW c, Good(c), NEW a \in Artifact, NEW rid \in Artifact \cup {None}
    PROVE  Upkeep(c, NoteOrphan(c, a, rid))
<1>1. c \in Contexts
  BY GoodTypes
<1> PICK O \in SUBSET (Artifact \X (Artifact \cup {None})) :
      O = IF \E row \in c.db.orphan : row[1] = a THEN c.db.orphan
          ELSE c.db.orphan \cup {<<a, rid>>}
  <2>1. c.db.orphan \subseteq Artifact \X (Artifact \cup {None})
    BY <1>1 DEF Contexts, Tables
  <2>2. <<a, rid>> \in Artifact \X (Artifact \cup {None})
    OBVIOUS
  <2> QED BY <2>1, <2>2
<1> PICK d : d = [c EXCEPT !.db.orphan = O]
  OBVIOUS
<1>2. NoteOrphan(c, a, rid) = d
  BY DEF NoteOrphan
<1>3. d \in Contexts /\ d.bag = c.bag /\ d.db.size = c.db.size /\ d.db.src = c.db.src
      /\ d.db.phantom = c.db.phantom /\ d.db.bad = c.db.bad
  BY <1>1 DEF Contexts, Tables
<1> QED BY <1>2, <1>3, Aside

LEMMA MlinkStep ==
    ASSUME NEW c, Good(c), NEW a \in Artifact
    PROVE  Upkeep(c, [c EXCEPT !.db.mlink = @ \cup {a}])
<1>1. c \in Contexts
  BY GoodTypes
<1> PICK d : d = [c EXCEPT !.db.mlink = @ \cup {a}]
  OBVIOUS
<1>2. d \in Contexts /\ d.bag = c.bag /\ d.db.size = c.db.size /\ d.db.src = c.db.src
      /\ d.db.phantom = c.db.phantom /\ d.db.bad = c.db.bad
  BY <1>1 DEF Contexts, Tables
<1> QED BY <1>2, Aside

LEMMA LinkedStep ==
    ASSUME NEW c, Good(c), NEW a \in Artifact
    PROVE  Upkeep(c, [c EXCEPT !.db.linked = @ \cup {a}])
<1>1. c \in Contexts
  BY GoodTypes
<1> PICK d : d = [c EXCEPT !.db.linked = @ \cup {a}]
  OBVIOUS
<1>2. d \in Contexts /\ d.bag = c.bag /\ d.db.size = c.db.size /\ d.db.src = c.db.src
      /\ d.db.phantom = c.db.phantom /\ d.db.bad = c.db.bad
  BY <1>1 DEF Contexts, Tables
<1> QED BY <1>2, Aside

LEMMA UnclusteredStep ==
    ASSUME NEW c, Good(c), NEW a \in Artifact
    PROVE  Upkeep(c, [c EXCEPT !.db.unclustered = @ \cup {a}])
<1>1. c \in Contexts
  BY GoodTypes
<1> PICK d : d = [c EXCEPT !.db.unclustered = @ \cup {a}]
  OBVIOUS
<1>2. d \in Contexts /\ d.bag = c.bag /\ d.db.size = c.db.size /\ d.db.src = c.db.src
      /\ d.db.phantom = c.db.phantom /\ d.db.bad = c.db.bad
  BY <1>1 DEF Contexts, Tables
<1> QED BY <1>2, Aside

-----------------------------------------------------------------------------
(* Another way to store what can be read.                                  *)
Redirected(db, d, a, s) ==
    d.src[a] = s /\ \A x \in Artifact \ {a} : d.src[x] = db.src[x]

LEMMA Restored ==
    ASSUME NEW c, NEW d, Good(c), d \in Contexts, NEW a \in R(c.db),
           NEW s, Redirected(c.db, d.db, a, s),
           d.db.size = c.db.size, d.db.phantom = c.db.phantom, d.db.bad = c.db.bad,
           d.bag.missing = c.bag.missing, d.bag.available = c.bag.available,
           c.bag.verify \subseteq d.bag.verify,
           s # None => s \in R(c.db) /\ a \notin Chain(c.db, s)
    PROVE  Upkeep(c, d)
<1>1. /\ c \in Contexts /\ c.db \in Tables /\ c.db.src \in Sources /\ DbGood(c.db)
      /\ R(c.db) \subseteq Real(c.db) /\ Known(c.db) \subseteq Artifact /\ Real(c.db) \subseteq Known(c.db)
      /\ c.bag.available \subseteq R(c.db)
  BY GoodTypes DEF Good
<1>2. d.db \in Tables /\ d.db.src \in Sources /\ a \in Artifact /\ a \in Real(c.db)
  BY <1>1 DEF Contexts, Tables, Sources
<1>3. Real(d.db) = Real(c.db) /\ Known(d.db) = Known(c.db)
  BY DEF Real, Known
<1>4. d.db.src[a] = s /\ \A x \in Artifact \ {a} : d.db.src[x] = c.db.src[x]
  BY DEF Redirected
<1>5. a \in R(d.db)
  <2>1. CASE s = None
    BY <1>2, <1>3, <1>4, <2>1, FullText
  <2>2. CASE s # None
    <3>1. s \in R(c.db) /\ a \notin Chain(c.db, s) /\ s \in Artifact
      BY <1>1, <2>2
    <3>2. Chain(c.db, s) \in SUBSET Artifact
      BY <1>1, <3>1, ChainClosed
    <3>3. Chain(d.db, s) = Chain(c.db, s)
      <4> PICK f, g : f = c.db /\ g = d.db
        OBVIOUS
      <4>1. \A x \in Chain(f, s) : g.src[x] = f.src[x]
        BY <1>4, <3>1, <3>2
      <4>2. f.src \in Sources /\ g.src \in Sources /\ s \in Artifact
        BY <1>1, <1>2, <3>1
      <4>3. Chain(g, s) = Chain(f, s)
        BY <4>1, <4>2, SameChain
      <4> QED BY <4>3
    <3>4. PICK e \in Chain(c.db, s) : e \in Artifact /\ c.db.src[e] = None
      BY <3>1, InR
    <3>5. d.db.src[e] = None
      BY <1>4, <3>1, <3>4
    <3>6. s \in R(d.db)
      <4>1. Chain(c.db, s) \subseteq Real(d.db)
        BY <1>3, <3>1, InR
      <4> QED BY <3>1, <3>3, <3>4, <3>5, <4>1, InR
    <3> QED BY <1>2, <1>3, <1>4, <3>6, DeltaText
  <2> QED BY <2>1, <2>2
<1>6. R(d.db) = R(c.db)
  <2>1. R(d.db) \subseteq R(c.db)
    BY <1>1, <1>2, <1>4, Swing
  <2>2. R(c.db) \subseteq R(d.db)
    <3>1. c.db.size = d.db.size /\ \A x \in Artifact \ {a} : c.db.src[x] = d.db.src[x]
      BY <1>4
    <3> QED BY <1>1, <1>2, <1>5, <3>1, Swing
  <2> QED BY <2>1, <2>2
<1>7. DbGood(d.db)
  BY <1>1, <1>2, <1>3, <1>4 DEF DbGood
<1>8. SourcesStay(c.db, d.db)
  BY <1>4 DEF SourcesStay
<1> QED BY <1>1, <1>3, <1>6, <1>7, <1>8 DEF Upkeep, Good, Fresh

LEMMA UndeltaStep ==
    ASSUME NEW c, Good(c), NEW a \in Artifact
    PROVE  Upkeep(c, Undelta(c, a))
<1> PICK d : d = AfterGet(c, a)
  OBVIOUS
<1>1. Upkeep(c, d) /\ (CanGet(c, a) => a \in R(c.db))
  BY GetStep
<1>2. CASE c.db.src[a] = None \/ ~CanGet(c, a)
  <2>1. Undelta(c, a) = c \/ Undelta(c, a) = d
    BY <1>2 DEF Undelta
  <2> QED BY <1>1, <2>1, UpkeepOfNothing
<1>3. CASE c.db.src[a] # None /\ CanGet(c, a)
  <2> PICK e : e = [d EXCEPT !.db.src[a] = None]
    OBVIOUS
  <2> PICK s : s = None
    OBVIOUS
  <2>1. Undelta(c, a) = e
    BY <1>3 DEF Undelta
  <2>2. Good(d) /\ a \in R(d.db) /\ d \in Contexts
    BY <1>1, <1>3, GoodTypes DEF Upkeep
  <2>3. /\ e \in Contexts /\ e.db.src = [d.db.src EXCEPT ![a] = s] /\ e.db.size = d.db.size
        /\ e.db.phantom = d.db.phantom /\ e.db.bad = d.db.bad /\ e.bag = d.bag
    BY <2>2 DEF Contexts, Tables
  <2>4. /\ d.bag.verify \subseteq e.bag.verify
        /\ e.bag.missing = d.bag.missing /\ e.bag.available = d.bag.available
    BY <2>3
  <2>5. Upkeep(d, e)
    <3>1. /\ Good(d) /\ e \in Contexts /\ a \in R(d.db)
          /\ Redirected(d.db, e.db, a, s)
      BY <2>2, <2>3, <2>4, GoodTypes DEF Sources, Redirected
    <3>2. /\ e.db.size = d.db.size /\ e.db.phantom = d.db.phantom /\ e.db.bad = d.db.bad
          /\ e.bag.missing = d.bag.missing /\ e.bag.available = d.bag.available
          /\ d.bag.verify \subseteq e.bag.verify
      BY <2>3, <2>4
    <3>3. s # None => s \in R(d.db) /\ a \notin Chain(d.db, s)
      OBVIOUS
    <3> HIDE <1>1, <1>3
    <3> QED BY <3>1, <3>2, <3>3, Restored
  <2> QED BY <1>1, <2>1, <2>5, UpkeepOfBoth
<1> QED BY <1>2, <1>3

(* content_deltify(): a can be read, and becomes a delta of s if s can,    *)
(* unless s rests on a.                                                    *)
LEMMA DeltifyToStep ==
    ASSUME NEW c, Good(c), NEW a \in R(c.db), NEW s \in Artifact, NEW worth
    PROVE  Upkeep(c, DeltifyTo(c, a, s, worth))
<1> PICK d : d = AfterGet(c, s)
  OBVIOUS
<1>1. Upkeep(c, d) /\ (CanGet(c, s) => s \in R(c.db)) /\ d.db = c.db
  BY GetStep
<1>2. CASE s = a \/ (s \in c.db.private /\ a \notin c.db.private)
  <2>1. DeltifyTo(c, a, s, worth) = c
    BY <1>2 DEF DeltifyTo
  <2> QED BY <2>1, UpkeepOfNothing
<1>3. CASE ~(s = a \/ (s \in c.db.private /\ a \notin c.db.private))
  <2>1. CASE a \in Chain(c.db, s)
    <3>1. DeltifyTo(c, a, s, worth) = Undelta(c, s)
      BY <1>3, <2>1 DEF DeltifyTo
    <3> QED BY <3>1, UndeltaStep
  <2>2. CASE a \notin Chain(c.db, s) /\ ~(CanGet(c, s) /\ a \in worth)
    <3>1. DeltifyTo(c, a, s, worth) = d
      BY <1>3, <2>2 DEF DeltifyTo
    <3> QED BY <1>1, <3>1
  <2>3. CASE a \notin Chain(c.db, s) /\ CanGet(c, s) /\ a \in worth
    <3> PICK e : e = [d EXCEPT !.db.src[a] = s, !.bag.verify = @ \cup {a}]
      OBVIOUS
    <3>1. DeltifyTo(c, a, s, worth) = e
      BY <1>3, <2>3 DEF DeltifyTo
    <3>2. Good(d) /\ a \in R(d.db) /\ s \in R(d.db) /\ d \in Contexts /\ a \in Artifact
          /\ a \notin Chain(d.db, s) /\ s \in Known(d.db)
      <4>1. Good(d) /\ d \in Contexts
        BY <1>1, GoodTypes DEF Upkeep
      <4> QED BY <1>1, <2>3, <4>1, GoodTypes DEF R
    <3>3. /\ e \in Contexts /\ e.db.src = [d.db.src EXCEPT ![a] = s] /\ e.db.size = d.db.size
          /\ e.db.phantom = d.db.phantom /\ e.db.bad = d.db.bad
          /\ e.bag.missing = d.bag.missing /\ e.bag.available = d.bag.available
          /\ e.bag.verify = d.bag.verify \cup {a}
      BY <3>2 DEF Contexts, Tables, Bags
    <3>4. Redirected(d.db, e.db, a, s)
      BY <3>2, <3>3, GoodTypes DEF Sources, Redirected
    <3>5. Upkeep(d, e)
      BY <3>2, <3>3, <3>4, Restored
    <3> QED BY <1>1, <3>1, <3>5, UpkeepOfBoth
  <2> QED BY <2>1, <2>2, <2>3
<1> QED BY <1>2, <1>3

LEMMA DeltifyStep ==
    ASSUME NEW c, Good(c), NEW a \in Artifact, NEW s \in Artifact, NEW force, NEW worth
    PROVE  Upkeep(c, Deltify(c, a, s, force, worth))
<1> PICK d : d = AfterIsAvailable(c, a)
  OBVIOUS
<1> PICK e : e = AfterGet(d, a)
  OBVIOUS
<1>1. Upkeep(c, d) /\ (IsAvailable(c, a) => a \in R(c.db))
  BY IsAvailableStep
<1>2. Upkeep(d, e)
  BY <1>1, GetStep DEF Upkeep
<1>3. Upkeep(c, e) /\ Good(e) /\ R(e.db) = R(c.db)
  BY <1>1, <1>2, UpkeepOfBoth DEF Upkeep
<1>4. CASE ~IsAvailable(c, a) \/ Deltify(c, a, s, force, worth) = c
  <2>1. Deltify(c, a, s, force, worth) = c \/ Deltify(c, a, s, force, worth) = d
    BY <1>4 DEF Deltify
  <2> QED BY <1>1, <2>1, UpkeepOfNothing
<1>5. CASE IsAvailable(c, a) /\ Deltify(c, a, s, force, worth) # c
  <2>1. Deltify(c, a, s, force, worth) = DeltifyTo(e, a, s, worth)
    BY <1>5 DEF Deltify
  <2>2. Upkeep(e, DeltifyTo(e, a, s, worth))
    BY <1>1, <1>3, <1>5, DeltifyToStep
  <2> QED BY <1>3, <2>1, <2>2, UpkeepOfBoth
<1> QED BY <1>4, <1>5

-----------------------------------------------------------------------------
(* Crosslinking.                                                           *)
LEMMA ReadBaselineStep ==
    ASSUME NEW c, Good(c), NEW a \in Artifact, NEW b \in Artifact
    PROVE  Upkeep(c, ReadBaseline(c, a, b))
<1> PICK d : d = AfterGet(c, b)
  OBVIOUS
<1>1. Upkeep(c, d) /\ Good(d)
  BY GetStep DEF Upkeep
<1>2. Upkeep(c, NoteOrphan(c, a, None)) /\ Upkeep(d, NoteOrphan(d, a, b))
  BY <1>1, OrphanStep
<1>3. Upkeep(c, NoteOrphan(d, a, b))
  BY <1>1, <1>2, UpkeepOfBoth
<1> QED BY <1>1, <1>2, <1>3 DEF ReadBaseline

LEMMA FetchBaselineStep ==
    ASSUME NEW c, Good(c), NEW a \in Artifact
    PROVE  Upkeep(c, FetchBaseline(c, a))
<1>1. CASE Baseline[a] = None
  <2>1. FetchBaseline(c, a) = c
    BY <1>1 DEF FetchBaseline
  <2> QED BY <2>1, UpkeepOfNothing
<1>2. CASE Baseline[a] # None
  <2> PICK b \in Artifact : b = Baseline[a]
    BY <1>2, StoreAssumption
  <2> PICK d : d = Phantomize(c, b, FALSE)
    OBVIOUS
  <2>1. Upkeep(c, d) /\ Good(d)
    BY PhantomizeStep DEF Upkeep
  <2>2. Upkeep(d, ReadBaseline(d, a, b))
    BY <2>1, ReadBaselineStep
  <2>3. FetchBaseline(c, a) = ReadBaseline(d, a, b)
    BY <1>2 DEF FetchBaseline
  <2> QED BY <2>1, <2>2, <2>3, UpkeepOfBoth
<1> QED BY <1>1, <1>2

LEMMA LinkBothStep ==
    ASSUME NEW c, Good(c), NEW p \in Artifact, NEW k \in Artifact, NEW worth
    PROVE  Upkeep(c, LinkBoth(c, p, k, worth))
<1> PICK d : d = FetchBaseline(c, k)
  OBVIOUS
<1>1. Upkeep(c, d) /\ Good(d)
  BY FetchBaselineStep DEF Upkeep
<1>2. CASE ~BaselineOk(c, k)
  BY <1>1, <1>2 DEF LinkBoth
<1>3. CASE BaselineOk(c, k) /\ Older(p, k) = None
  <2>1. LinkBoth(c, p, k, worth) = [d EXCEPT !.db.mlink = @ \cup {k}]
    BY <1>3 DEF LinkBoth
  <2>2. Upkeep(d, [d EXCEPT !.db.mlink = @ \cup {k}])
    BY <1>1, MlinkStep
  <2> QED BY <1>1, <2>1, <2>2, UpkeepOfBoth
<1>4. CASE BaselineOk(c, k) /\ Older(p, k) # None
  <2> PICK o \in Artifact : o = Older(p, k)
    BY <1>4, StoreAssumption DEF Older
  <2> PICK e : e = Deltify(d, o, k, FALSE, worth)
    OBVIOUS
  <2>1. Upkeep(d, e) /\ Good(e)
    <3>1. Upkeep(d, e)
      BY <1>1, DeltifyStep
    <3> QED BY <3>1 DEF Upkeep
  <2>2. LinkBoth(c, p, k, worth) = [e EXCEPT !.db.mlink = @ \cup {k}]
    BY <1>4 DEF LinkBoth
  <2>3. Upkeep(e, [e EXCEPT !.db.mlink = @ \cup {k}])
    BY <2>1, MlinkStep
  <2>4. Upkeep(c, e)
    BY <1>1, <2>1, UpkeepOfBoth
  <2> QED BY <2>2, <2>3, <2>4, UpkeepOfBoth
<1> QED BY <1>2, <1>3, <1>4

LEMMA AddMlinkStep ==
    ASSUME NEW c, Good(c), NEW p \in Artifact, NEW k \in Artifact, NEW other \in Artifact, NEW worth
    PROVE  Upkeep(c, AddMlink(c, p, k, other, worth))
<1> PICK d : d = AfterGet(c, other)
  OBVIOUS
<1> PICK e : e = FetchBaseline(d, p)
  OBVIOUS
<1>1. Upkeep(c, d) /\ Good(d)
  BY GetStep DEF Upkeep
<1>2. Upkeep(d, e) /\ Good(e)
  BY <1>1, FetchBaselineStep DEF Upkeep
<1>3. Upkeep(c, e) /\ Upkeep(e, LinkBoth(e, p, k, worth))
  BY <1>1, <1>2, LinkBothStep, UpkeepOfBoth
<1>4. Upkeep(c, LinkBoth(e, p, k, worth))
  BY <1>3, UpkeepOfBoth
<1>5. LinkParent(d, p, k, worth) = e \/ LinkParent(d, p, k, worth) = LinkBoth(e, p, k, worth)
  BY DEF LinkParent
<1>6. AddMlink(c, p, k, other, worth) \in {c, d, LinkParent(d, p, k, worth)}
  BY DEF AddMlink
<1> QED BY <1>1, <1>3, <1>4, <1>5, <1>6, UpkeepOfNothing

LEMMA LinkUpStep ==
    ASSUME NEW c, Good(c), NEW a \in Artifact, NEW worth
    PROVE  Upkeep(c, LinkUp(c, a, worth))
<1>1. CASE Parent[a] = None
  <2>1. LinkUp(c, a, worth) = [c EXCEPT !.db.mlink = @ \cup {a}]
    BY <1>1 DEF LinkUp
  <2> QED BY <2>1, MlinkStep
<1>2. CASE Parent[a] # None
  <2> PICK p \in Artifact : p = Parent[a]
    BY <1>2, StoreAssumption
  <2> PICK d : d = Phantomize(c, p, FALSE)
    OBVIOUS
  <2>1. Upkeep(c, d) /\ Good(d)
    BY PhantomizeStep DEF Upkeep
  <2>2. Upkeep(d, AddMlink(d, p, a, p, worth))
    BY <2>1, AddMlinkStep
  <2>3. Upkeep(c, AddMlink(d, p, a, p, worth))
    BY <2>1, <2>2, UpkeepOfBoth
  <2>4. LinkUp(c, a, worth) \in {c, AddMlink(d, p, a, p, worth)}
    BY <1>2 DEF LinkUp
  <2> QED BY <2>3, <2>4, UpkeepOfNothing
<1> QED BY <1>1, <1>2

(* The loop over the children that are linked stays in a set that each     *)
(* turn keeps.                                                             *)
LEMMA LinkDownFold ==
    ASSUME NEW c, c.db.linked \subseteq Artifact, NEW a, NEW worth, NEW X, c \in X,
           \A k \in c.db.linked : Parent[k] = a => \A d \in X : AddMlink(d, a, k, k, worth) \in X
    PROVE  LinkDown(c, a, worth) \in X
<1> DEFINE T == {k \in c.db.linked : Parent[k] = a}
           G == [p \in T \X X |-> AddMlink(p[2], a, p[1], p[1], worth)]
           Turns(f) == [s \in SUBSET T |->
                         IF s = {} THEN c
                         ELSE AddMlink(f[s \ {CHOOSE x \in s : TRUE}], a, CHOOSE x \in s : TRUE, CHOOSE x \in s : TRUE, worth)]
           iter == CHOOSE f : f = Turns(f)
<1>1. LinkDown(c, a, worth) = iter[T]
  BY DEF LinkDown, FoldSet, MapThenFoldSet
<1>2. IsFiniteSet(T)
  BY StoreAssumption, FS_Subset
<1>4. ASSUME NEW x \in T, NEW d \in X PROVE AddMlink(d, a, x, x, worth) \in X
  OBVIOUS
<1> HIDE DEF T
<1>5. G \in [T \X X -> X]
  BY <1>4
<1>6. PICK f \in [SUBSET T -> X] : Folds(f, T, c, G)
  <2> HIDE DEF G
  <2> QED BY <1>2, <1>5, FoldExists
<1>7. f = Turns(f)
  <2>1. \A s \in SUBSET T : f[s] = IF s = {} THEN c ELSE AddMlink(f[s \ {Pick(s)}], a, Pick(s), Pick(s), worth)
    <3> SUFFICES ASSUME NEW s \in SUBSET T, s # {}
                 PROVE  f[s] = AddMlink(f[s \ {Pick(s)}], a, Pick(s), Pick(s), worth)
      BY <1>6 DEF Folds
    <3>1. Pick(s) \in T /\ f[s \ {Pick(s)}] \in X
      BY <1>6, Picked
    <3>2. f[s] = G[<<Pick(s), f[s \ {Pick(s)}]>>]
      BY <1>6 DEF Folds
    <3> QED BY <3>1, <3>2
  <2> QED BY <1>6, <2>1 DEF Pick
<1>8. iter = Turns(iter)
  <2> HIDE DEF Turns
  <2> QED BY <1>7
<1> HIDE DEF iter
<1>9. \A s \in SUBSET T : (s = {} \/ iter[s \ {Pick(s)}] \in X) => iter[s] \in X
  <2> SUFFICES ASSUME NEW s \in SUBSET T, s = {} \/ iter[s \ {Pick(s)}] \in X PROVE iter[s] \in X
    OBVIOUS
  <2>1. iter[s] = IF s = {} THEN c ELSE AddMlink(iter[s \ {Pick(s)}], a, Pick(s), Pick(s), worth)
    BY <1>8 DEF Pick
  <2>2. CASE s = {}
    BY <2>1, <2>2
  <2>3. CASE s # {}
    <3> PICK x \in T : x = Pick(s)
      BY <2>3, Picked
    <3> PICK d \in X : d = iter[s \ {Pick(s)}]
      BY <2>3
    <3>1. AddMlink(d, a, x, x, worth) \in X
      BY <1>4
    <3> QED BY <2>1, <2>3, <3>1
  <2> QED BY <2>2, <2>3
<1>10. iter[T] \in X
  BY <1>2, <1>9, FoldRange
<1> QED BY <1>1, <1>10

LEMMA LinkDownStep ==
    ASSUME NEW c, Good(c), NEW a \in Artifact, NEW worth
    PROVE  Upkeep(c, LinkDown(c, a, worth))
<1> DEFINE X == {d \in Contexts : Upkeep(c, d)}
<1>1. c \in X /\ c.db.linked \subseteq Artifact
  BY UpkeepOfNothing, GoodTypes DEF Tables
<1>2. ASSUME NEW x \in Artifact, NEW d \in X PROVE AddMlink(d, a, x, x, worth) \in X
  <2>1. Upkeep(c, d) /\ Good(d)
    BY DEF Upkeep
  <2>2. Upkeep(d, AddMlink(d, a, x, x, worth))
    BY <2>1, AddMlinkStep
  <2>3. Upkeep(c, AddMlink(d, a, x, x, worth))
    BY <2>1, <2>2, UpkeepOfBoth
  <2> QED BY <2>3 DEF Upkeep, Good
<1>3. LinkDown(c, a, worth) \in X
  <2> HIDE DEF X
  <2>1. \A k \in c.db.linked : Parent[k] = a => \A d \in X : AddMlink(d, a, k, k, worth) \in X
    BY <1>1, <1>2
  <2> QED BY <1>1, <2>1, LinkDownFold
<1> QED BY <1>3

LEMMA CrosslinkStep ==
    ASSUME NEW c, Good(c), NEW a \in Artifact, NEW worth
    PROVE  Upkeep(c, Crosslink(c, a, worth))
<1> PICK d : d = FetchBaseline(c, a)
  OBVIOUS
<1> PICK e : e = [d EXCEPT !.db.linked = @ \cup {a}]
  OBVIOUS
<1> PICK f : f = LinkUp(e, a, worth)
  OBVIOUS
<1>1. Upkeep(c, d) /\ Good(d)
  BY FetchBaselineStep DEF Upkeep
<1>2. Upkeep(d, e) /\ Good(e)
  BY <1>1, LinkedStep DEF Upkeep
<1>3. Upkeep(e, f) /\ Good(f)
  <2>1. Upkeep(e, f)
    BY <1>2, LinkUpStep
  <2> QED BY <2>1 DEF Upkeep
<1>4. Upkeep(f, LinkDown(f, a, worth))
  BY <1>3, LinkDownStep
<1>5. Upkeep(c, e) /\ Upkeep(e, LinkDown(f, a, worth))
  BY <1>1, <1>2, <1>3, <1>4, UpkeepOfBoth
<1>6. Upkeep(c, LinkDown(f, a, worth))
  BY <1>5, UpkeepOfBoth
<1>7. LinkCheckin(e, a, worth) \in {e, LinkDown(f, a, worth)}
  BY DEF LinkCheckin
<1>8. Crosslink(c, a, worth) \in {d, LinkCheckin(e, a, worth)}
  BY DEF Crosslink
<1> QED BY <1>1, <1>5, <1>6, <1>7, <1>8

LEMMA ReadAndCrosslinkStep ==
    ASSUME NEW c, Good(c), NEW a \in Artifact, NEW worth
    PROVE  Upkeep(c, ReadAndCrosslink(c, a, worth))
<1> PICK d : d = AfterGet(c, a)
  OBVIOUS
<1>1. Upkeep(c, d) /\ Good(d)
  BY GetStep DEF Upkeep
<1>2. Upkeep(d, Crosslink(d, a, worth))
  BY <1>1, CrosslinkStep
<1>3. Upkeep(c, Crosslink(d, a, worth))
  BY <1>1, <1>2, UpkeepOfBoth
<1>4. ReadAndCrosslink(c, a, worth) \in {d, Crosslink(d, a, worth)}
  BY DEF ReadAndCrosslink
<1> QED BY <1>1, <1>3, <1>4

(* The loop over what waits for a, with what has been done so far.          *)
LEMMA LinkWaitingFold ==
    ASSUME NEW c, NEW a, NEW worth, NEW Z, <<{}, c>> \in Z,
           \A x \in {o \in Artifact : <<o, a>> \in c.db.orphan}, z \in Z : <<z[1] \cup {x}, ReadAndCrosslink(z[2], x, worth)>> \in Z
    PROVE  <<{o \in Artifact : <<o, a>> \in c.db.orphan}, LinkWaiting(c, a, worth)>> \in Z
<1> DEFINE T == {o \in Artifact : <<o, a>> \in c.db.orphan}
           X == {z[2] : z \in Z}
           G == [p \in T \X X |-> ReadAndCrosslink(p[2], p[1], worth)]
           Turns(f) == [s \in SUBSET T |->
                         IF s = {} THEN c
                         ELSE ReadAndCrosslink(f[s \ {CHOOSE x \in s : TRUE}], CHOOSE x \in s : TRUE, worth)]
           iter == CHOOSE f : f = Turns(f)
<1>1. LinkWaiting(c, a, worth) = iter[T]
  BY DEF LinkWaiting, FoldSet, MapThenFoldSet
<1>2. IsFiniteSet(T)
  BY StoreAssumption, FS_Subset
<1>3. c \in X
  OBVIOUS
<1>4. ASSUME NEW x \in T, NEW z \in Z PROVE <<z[1] \cup {x}, ReadAndCrosslink(z[2], x, worth)>> \in Z
  OBVIOUS
<1> HIDE DEF T
<1>5. G \in [T \X X -> X]
  <2> SUFFICES ASSUME NEW x \in T, NEW z \in Z PROVE ReadAndCrosslink(z[2], x, worth) \in X
    OBVIOUS
  <2> PICK d : d = ReadAndCrosslink(z[2], x, worth)
    OBVIOUS
  <2>1. <<z[1] \cup {x}, d>> \in Z
    BY <1>4
  <2>2. <<z[1] \cup {x}, d>>[2] = d
    OBVIOUS
  <2> QED BY <2>1, <2>2
<1>6. PICK f \in [SUBSET T -> X] : Folds(f, T, c, G)
  <2> HIDE DEF X, G
  <2> QED BY <1>2, <1>3, <1>5, FoldExists
<1>7. f = Turns(f)
  <2>1. \A s \in SUBSET T : f[s] = IF s = {} THEN c ELSE ReadAndCrosslink(f[s \ {Pick(s)}], Pick(s), worth)
    <3> SUFFICES ASSUME NEW s \in SUBSET T, s # {}
                 PROVE  f[s] = ReadAndCrosslink(f[s \ {Pick(s)}], Pick(s), worth)
      BY <1>6 DEF Folds
    <3>1. Pick(s) \in T /\ f[s \ {Pick(s)}] \in X
      <4> HIDE DEF X
      <4> QED BY <1>6, Picked
    <3>2. f[s] = G[<<Pick(s), f[s \ {Pick(s)}]>>]
      BY <1>6 DEF Folds
    <3> HIDE DEF X
    <3> QED BY <3>1, <3>2
  <2> HIDE DEF X
  <2> QED BY <1>6, <2>1 DEF Pick
<1>8. iter = Turns(iter)
  <2> HIDE DEF Turns
  <2> QED BY <1>7
<1> HIDE DEF iter, X, G
<1> DEFINE F == [s \in SUBSET T |-> <<s, iter[s]>>]
<1>9. \A s \in SUBSET T : (s = {} \/ F[s \ {Pick(s)}] \in Z) => F[s] \in Z
  <2> SUFFICES ASSUME NEW s \in SUBSET T, s = {} \/ F[s \ {Pick(s)}] \in Z PROVE <<s, iter[s]>> \in Z
    OBVIOUS
  <2>1. iter[s] = IF s = {} THEN c ELSE ReadAndCrosslink(iter[s \ {Pick(s)}], Pick(s), worth)
    BY <1>8 DEF Pick
  <2>2. CASE s = {}
    BY <2>1, <2>2
  <2>3. CASE s # {}
    <3> PICK x \in T : x = Pick(s)
      BY <2>3, Picked
    <3> PICK r \in SUBSET T : r = s \ {Pick(s)}
      OBVIOUS
    <3> PICK d : d = iter[r]
      OBVIOUS
    <3>1. <<r, d>> \in Z
      BY <2>3
    <3>2. <<r \cup {x}, ReadAndCrosslink(d, x, worth)>> \in Z
      BY <1>4, <3>1
    <3>3. r \cup {x} = s
      BY <2>3, Picked
    <3> QED BY <2>1, <2>3, <3>2, <3>3
  <2> QED BY <2>2, <2>3
<1>10. F[T] \in Z
  <2> HIDE DEF F
  <2> QED BY <1>2, <1>9, FoldRange
<1> QED BY <1>1, <1>10 DEF T

LEMMA LinkWaitingStep ==
    ASSUME NEW c, Good(c), NEW a \in Artifact, NEW worth
    PROVE  Upkeep(c, LinkWaiting(c, a, worth))
<1> DEFINE Z == (SUBSET Artifact) \X {d \in Contexts : Upkeep(c, d)}
<1>1. <<{}, c>> \in Z
  BY UpkeepOfNothing, GoodTypes
<1>2. ASSUME NEW x \in {o \in Artifact : <<o, a>> \in c.db.orphan}, NEW z \in Z PROVE <<z[1] \cup {x}, ReadAndCrosslink(z[2], x, worth)>> \in Z
  <2> PICK d : d = z[2]
    OBVIOUS
  <2>1. Upkeep(c, d) /\ Good(d)
    BY DEF Upkeep
  <2>2. Upkeep(d, ReadAndCrosslink(d, x, worth))
    BY <2>1, ReadAndCrosslinkStep
  <2>3. Upkeep(c, ReadAndCrosslink(d, x, worth))
    BY <2>1, <2>2, UpkeepOfBoth
  <2> QED BY <2>3 DEF Upkeep, Good
<1>3. <<{o \in Artifact : <<o, a>> \in c.db.orphan}, LinkWaiting(c, a, worth)>> \in Z
  <2> HIDE DEF Z
  <2> QED BY <1>1, <1>2, LinkWaitingFold
<1> QED BY <1>3

LEMMA VisitStep ==
    ASSUME NEW c, Good(c), NEW a \in Artifact, NEW link, NEW worth
    PROVE  Upkeep(c, Visit(c, a, link, worth))
<1> PICK d : d = IF link THEN ReadAndCrosslink(c, a, worth) ELSE c
  OBVIOUS
<1> PICK e : e = LinkWaiting(d, a, worth)
  OBVIOUS
<1>1. Upkeep(c, d) /\ Good(d)
  <2>1. d \in {c, ReadAndCrosslink(c, a, worth)}
    OBVIOUS
  <2> QED BY <2>1, UpkeepOfNothing, ReadAndCrosslinkStep DEF Upkeep
<1>2. Upkeep(d, e) /\ Good(e)
  BY <1>1, LinkWaitingStep DEF Upkeep
<1> PICK f : f = [e EXCEPT !.db.orphan = {row \in @ : row[2] # a}]
  OBVIOUS
<1>3. e \in Contexts
  BY <1>2, GoodTypes
<1>4. f \in Contexts /\ f.bag = e.bag /\ f.db.size = e.db.size /\ f.db.src = e.db.src
      /\ f.db.phantom = e.db.phantom /\ f.db.bad = e.db.bad
  BY <1>3 DEF Contexts, Tables
<1>5. Upkeep(e, f)
  BY <1>2, <1>4, Aside
<1>6. Visit(c, a, link, worth) = f
  BY DEF Visit
<1> QED BY <1>1, <1>2, <1>5, <1>6, UpkeepOfBoth

(* The loop over what is stored as a delta of the level above.             *)
LEMMA VisitAllFold ==
    ASSUME NEW c, NEW S \in SUBSET Artifact, NEW worth, NEW Z, <<{}, c>> \in Z,
           \A x \in S, z \in Z : <<z[1] \cup {x}, Visit(z[2], x, TRUE, worth)>> \in Z
    PROVE  <<S, VisitAll(c, S, worth)>> \in Z
<1> DEFINE T == S
           X == {z[2] : z \in Z}
           G == [p \in T \X X |-> Visit(p[2], p[1], TRUE, worth)]
           Turns(f) == [s \in SUBSET T |->
                         IF s = {} THEN c
                         ELSE Visit(f[s \ {CHOOSE x \in s : TRUE}], CHOOSE x \in s : TRUE, TRUE, worth)]
           iter == CHOOSE f : f = Turns(f)
<1>1. VisitAll(c, S, worth) = iter[T]
  BY DEF VisitAll, FoldSet, MapThenFoldSet
<1>2. IsFiniteSet(T)
  BY StoreAssumption, FS_Subset
<1>3. c \in X
  OBVIOUS
<1>4. ASSUME NEW x \in T, NEW z \in Z PROVE <<z[1] \cup {x}, Visit(z[2], x, TRUE, worth)>> \in Z
  OBVIOUS
<1> HIDE DEF T
<1>5. G \in [T \X X -> X]
  <2> SUFFICES ASSUME NEW x \in T, NEW z \in Z PROVE Visit(z[2], x, TRUE, worth) \in X
    OBVIOUS
  <2> PICK d : d = Visit(z[2], x, TRUE, worth)
    OBVIOUS
  <2>1. <<z[1] \cup {x}, d>> \in Z
    BY <1>4
  <2>2. <<z[1] \cup {x}, d>>[2] = d
    OBVIOUS
  <2> QED BY <2>1, <2>2
<1>6. PICK f \in [SUBSET T -> X] : Folds(f, T, c, G)
  <2> HIDE DEF X, G
  <2> QED BY <1>2, <1>3, <1>5, FoldExists
<1>7. f = Turns(f)
  <2>1. \A s \in SUBSET T : f[s] = IF s = {} THEN c ELSE Visit(f[s \ {Pick(s)}], Pick(s), TRUE, worth)
    <3> SUFFICES ASSUME NEW s \in SUBSET T, s # {}
                 PROVE  f[s] = Visit(f[s \ {Pick(s)}], Pick(s), TRUE, worth)
      BY <1>6 DEF Folds
    <3>1. Pick(s) \in T /\ f[s \ {Pick(s)}] \in X
      <4> HIDE DEF X
      <4> QED BY <1>6, Picked
    <3>2. f[s] = G[<<Pick(s), f[s \ {Pick(s)}]>>]
      BY <1>6 DEF Folds
    <3> HIDE DEF X
    <3> QED BY <3>1, <3>2
  <2> HIDE DEF X
  <2> QED BY <1>6, <2>1 DEF Pick
<1>8. iter = Turns(iter)
  <2> HIDE DEF Turns
  <2> QED BY <1>7
<1> HIDE DEF iter, X, G
<1> DEFINE F == [s \in SUBSET T |-> <<s, iter[s]>>]
<1>9. \A s \in SUBSET T : (s = {} \/ F[s \ {Pick(s)}] \in Z) => F[s] \in Z
  <2> SUFFICES ASSUME NEW s \in SUBSET T, s = {} \/ F[s \ {Pick(s)}] \in Z PROVE <<s, iter[s]>> \in Z
    OBVIOUS
  <2>1. iter[s] = IF s = {} THEN c ELSE Visit(iter[s \ {Pick(s)}], Pick(s), TRUE, worth)
    BY <1>8 DEF Pick
  <2>2. CASE s = {}
    BY <2>1, <2>2
  <2>3. CASE s # {}
    <3> PICK x \in T : x = Pick(s)
      BY <2>3, Picked
    <3> PICK r \in SUBSET T : r = s \ {Pick(s)}
      OBVIOUS
    <3> PICK d : d = iter[r]
      OBVIOUS
    <3>1. <<r, d>> \in Z
      BY <2>3
    <3>2. <<r \cup {x}, Visit(d, x, TRUE, worth)>> \in Z
      BY <1>4, <3>1
    <3>3. r \cup {x} = s
      BY <2>3, Picked
    <3> QED BY <2>1, <2>3, <3>2, <3>3
  <2> QED BY <2>2, <2>3
<1>10. F[T] \in Z
  <2> HIDE DEF F
  <2> QED BY <1>2, <1>9, FoldRange
<1> QED BY <1>1, <1>10 DEF T

LEMMA VisitAllStep ==
    ASSUME NEW c, Good(c), NEW S \in SUBSET Artifact, NEW worth
    PROVE  Upkeep(c, VisitAll(c, S, worth))
<1> DEFINE Z == (SUBSET Artifact) \X {d \in Contexts : Upkeep(c, d)}
<1>1. <<{}, c>> \in Z
  BY UpkeepOfNothing, GoodTypes
<1>2. ASSUME NEW x \in S, NEW z \in Z PROVE <<z[1] \cup {x}, Visit(z[2], x, TRUE, worth)>> \in Z
  <2> PICK d : d = z[2]
    OBVIOUS
  <2>1. Upkeep(c, d) /\ Good(d)
    BY DEF Upkeep
  <2>2. Upkeep(d, Visit(d, x, TRUE, worth))
    BY <2>1, VisitStep
  <2>3. Upkeep(c, Visit(d, x, TRUE, worth))
    BY <2>1, <2>2, UpkeepOfBoth
  <2> QED BY <2>3 DEF Upkeep, Good
<1>3. <<S, VisitAll(c, S, worth)>> \in Z
  <2> HIDE DEF Z
  <2> QED BY <1>1, <1>2, VisitAllFold
<1> QED BY <1>3
-----------------------------------------------------------------------------
(* A function on 0 .. N whose value at n is made from the value at n-1.    *)
LEMMA Levels ==
    ASSUME NEW N \in Nat, NEW X, NEW b \in X, NEW g \in [X -> X]
    PROVE  \E f \in [0 .. N -> X] :
             f = [n \in 0 .. N |-> IF n = 0 THEN b ELSE g[f[n-1]]]
<1> DEFINE Value(f, n) == IF n = 0 THEN b ELSE g[f[n-1]]
           Upto(m) == \E f \in [0 .. m -> X] : \A n \in 0 .. m : f[n] = Value(f, n)
           B == {m \in Nat : ~Upto(m)}
<1>1. ASSUME B # {} PROVE FALSE
  <2>1. PICK m \in B : \A k \in B : m <= k
    <3>1. B \subseteq Nat
      OBVIOUS
    <3> HIDE DEF B
    <3> QED BY <1>1, <3>1, Least
  <2>2. m \in Nat /\ ~Upto(m)
    OBVIOUS
  <2>3. CASE m = 0
    <3> DEFINE f == [n \in 0 .. 0 |-> b]
    <3>1. f \in [0 .. 0 -> X] /\ \A n \in 0 .. 0 : f[n] = Value(f, n)
      OBVIOUS
    <3>2. Upto(0)
      BY <3>1
    <3> QED BY <2>2, <2>3, <3>2
  <2>4. CASE m # 0
    <3>1. m - 1 \in Nat /\ m - 1 \notin B
      <4>1. m \in Nat /\ m - 1 \in Nat /\ ~ (m <= m - 1)
        BY <2>2, <2>4
      <4> HIDE DEF B
      <4> QED BY <2>1, <4>1
    <3>2. PICK f \in [0 .. m-1 -> X] : \A n \in 0 .. m-1 : f[n] = Value(f, n)
      BY <3>1
    <3> DEFINE h == [n \in 0 .. m |-> IF n = m THEN g[f[m-1]] ELSE f[n]]
    <3>3. m - 1 \in 0 .. m-1 /\ f[m-1] \in X
      BY <2>2, <3>1
    <3>4. \A n \in 0 .. m : n # m => n \in 0 .. m-1 /\ h[n] = f[n]
      BY <2>2
    <3>5. h[m] = g[f[m-1]] /\ g[f[m-1]] \in X
      BY <2>2, <3>3
    <3>6. ASSUME NEW n \in 0 .. m PROVE h[n] = Value(h, n) /\ h[n] \in X
      <4>1. CASE n = m
        <5>1. h[m-1] = f[m-1]
          BY <2>2, <2>4, <3>4
        <5> HIDE DEF h
        <5> QED BY <2>4, <3>5, <4>1, <5>1
      <4>2. CASE n # m
        <5>1. h[n] = f[n] /\ f[n] \in X /\ f[n] = Value(f, n)
          BY <3>2, <3>4, <4>2
        <5>2. n # 0 => h[n-1] = f[n-1]
          BY <2>2, <3>4, <4>2
        <5> HIDE DEF h
        <5> QED BY <5>1, <5>2
      <4> QED BY <4>1, <4>2
    <3>7. h \in [0 .. m -> X]
      BY <3>6
    <3>8. Upto(m)
      <4> HIDE DEF h
      <4> QED BY <3>6, <3>7
    <3> QED BY <2>2, <3>8
  <2> QED BY <2>3, <2>4
<1>2. Upto(N)
  <2> HIDE DEF Upto
  <2> QED BY <1>1
<1> QED BY <1>2

LEMMA LevelsRange ==
    ASSUME NEW N \in Nat, NEW X, NEW f,
           f[0] \in X, \A n \in 1 .. N : f[n-1] \in X => f[n] \in X
    PROVE  f[N] \in X
<1> SUFFICES ASSUME f[N] \notin X PROVE FALSE
  OBVIOUS
<1> DEFINE B == {n \in 0 .. N : f[n] \notin X}
<1>1. B \subseteq Nat /\ B # {}
  OBVIOUS
<1>2. PICK n \in B : \A m \in B : n <= m
  <2> HIDE DEF B
  <2> QED BY <1>1, Least
<1>3. n \in 1 .. N /\ n - 1 \in 0 .. N /\ ~ (n <= n - 1)
  OBVIOUS
<1>4. f[n-1] \in X
  BY <1>2, <1>3
<1> QED BY <1>3, <1>4

(* The levels of after_dephantomize(), with their numbers.                 *)
Kids(l) == {x \in Artifact : l.c.db.src[x] \in l.at /\ x \notin l.c.db.mlink}
Descend(l, worth) == [c |-> VisitAll(l.c, Kids(l), worth), at |-> Kids(l)]

LevelsStay(Z, c, a, worth) ==
    /\ <<0, [c |-> Visit(c, a, FALSE, worth), at |-> {a}]>> \in Z
    /\ \A z \in Z : z[1] \in Nat /\ <<z[1] + 1, Descend(z[2], worth)>> \in Z

LEMMA DephantomizeLevels ==
    ASSUME NEW c, NEW a, NEW worth, NEW Z, LevelsStay(Z, c, a, worth)
    PROVE  \E l : <<Cardinality(Artifact), l>> \in Z /\ AfterDephantomize(c, a, worth) = l.c
<1> DEFINE N == Cardinality(Artifact)
           X == {z[2] : z \in Z}
           kids(l) == {x \in Artifact : l.c.db.src[x] \in l.at /\ x \notin l.c.db.mlink}
           next(l) == [c |-> VisitAll(l.c, kids(l), worth), at |-> kids(l)]
           first == [c |-> Visit(c, a, FALSE, worth), at |-> {a}]
           g == [l \in X |-> next(l)]
           Turns(f) == [n \in 0 .. N |-> IF n = 0 THEN first ELSE next(f[n-1])]
           level == CHOOSE f : f = Turns(f)
<1>1. AfterDephantomize(c, a, worth) = level[N].c
  BY DEF AfterDephantomize
<1>2. N \in Nat
  BY StoreAssumption, FS_CardinalityType
<1>3. \A l : Descend(l, worth) = next(l)
  BY DEF Descend, Kids
<1> HIDE DEF N, next
<1>4. first \in X /\ <<0, first>> \in Z
  <2>1. <<0, first>> \in Z
    BY DEF LevelsStay
  <2> HIDE DEF first
  <2> QED BY <2>1
<1> HIDE DEF first
<1>5. ASSUME NEW z \in Z PROVE z[1] \in Nat /\ <<z[1] + 1, next(z[2])>> \in Z /\ next(z[2]) \in X
  <2>1. z[1] \in Nat /\ <<z[1] + 1, next(z[2])>> \in Z
    BY <1>3 DEF LevelsStay
  <2> QED BY <2>1
<1>6. g \in [X -> X]
  BY <1>5
<1> HIDE DEF X
<1>7. PICK f \in [0 .. N -> X] : f = [n \in 0 .. N |-> IF n = 0 THEN first ELSE g[f[n-1]]]
  <2> HIDE DEF g
  <2>1. first \in X
    BY <1>4
  <2> QED BY <1>2, <1>6, <2>1, Levels
<1>8. f = Turns(f)
  <2>1. \A n \in 0 .. N : n # 0 => f[n-1] \in X
    BY <1>2
  <2>2. \A n \in 0 .. N : n # 0 => g[f[n-1]] = next(f[n-1])
    BY <2>1
  <2> HIDE DEF g
  <2>3. \A n \in 0 .. N : f[n] = IF n = 0 THEN first ELSE next(f[n-1])
    <3> SUFFICES ASSUME NEW n \in 0 .. N PROVE f[n] = IF n = 0 THEN first ELSE next(f[n-1])
      OBVIOUS
    <3>1. f[n] = IF n = 0 THEN first ELSE g[f[n-1]]
      BY <1>7
    <3> QED BY <2>2, <3>1
  <2> QED BY <1>7, <2>3
<1>9. level = Turns(level)
  <2> HIDE DEF Turns
  <2> QED BY <1>8
<1> HIDE DEF level
<1> DEFINE F == [n \in 0 .. N |-> <<n, level[n]>>]
<1>10. F[0] \in Z
  <2>1. level[0] = first /\ 0 \in 0 .. N
    BY <1>2, <1>9
  <2> QED BY <1>4, <2>1
<1>11. ASSUME NEW n \in 1 .. N, F[n-1] \in Z PROVE F[n] \in Z
  <2>1. level[n] = next(level[n-1]) /\ n - 1 \in 0 .. N /\ n \in 0 .. N /\ (n - 1) + 1 = n
    BY <1>2, <1>9
  <2>2. <<n - 1, level[n-1]>> \in Z
    BY <1>11, <2>1
  <2>3. <<(n - 1) + 1, next(level[n-1])>> \in Z
    BY <1>5, <2>2
  <2> QED BY <2>1, <2>3
<1>12. F[N] \in Z
  <2> HIDE DEF F
  <2> QED BY <1>2, <1>10, <1>11, LevelsRange
<1>13. <<N, level[N]>> \in Z
  BY <1>2, <1>12
<1> QED BY <1>1, <1>13 DEF N

(* after_dephantomize() links, and links what rests on that, level by      *)
(* level, deltifying as it goes: as much can be read afterwards as before, *)
(* nothing becomes wrong, and the bags stay right.                         *)
THEOREM AfterDephantomizeStep ==
    ASSUME NEW c, Good(c), NEW a \in Artifact, NEW worth
    PROVE  Upkeep(c, AfterDephantomize(c, a, worth))
<1> DEFINE Z == Nat \X [c : {d \in Contexts : Upkeep(c, d)}, at : SUBSET Artifact]
<1>1. <<0, [c |-> Visit(c, a, FALSE, worth), at |-> {a}]>> \in Z
  <2>1. Upkeep(c, Visit(c, a, FALSE, worth))
    BY VisitStep
  <2>2. Visit(c, a, FALSE, worth) \in Contexts
    BY <2>1 DEF Upkeep, Good
  <2> QED BY <2>1, <2>2
<1>2. ASSUME NEW z \in Z PROVE z[1] \in Nat /\ <<z[1] + 1, Descend(z[2], worth)>> \in Z
  <2> PICK l : l = z[2]
    OBVIOUS
  <2> PICK S \in SUBSET Artifact : S = Kids(l)
    BY DEF Kids
  <2> PICK d : d = l.c
    OBVIOUS
  <2>1. Upkeep(c, d) /\ Good(d)
    BY DEF Upkeep
  <2>2. Upkeep(d, VisitAll(d, S, worth))
    BY <2>1, VisitAllStep
  <2>3. Upkeep(c, VisitAll(d, S, worth))
    BY <2>1, <2>2, UpkeepOfBoth
  <2>4. VisitAll(d, S, worth) \in Contexts
    BY <2>3 DEF Upkeep, Good
  <2>5. Descend(l, worth) = [c |-> VisitAll(d, S, worth), at |-> S]
    BY DEF Descend
  <2> QED BY <2>3, <2>4, <2>5
<1>3. PICK l : <<Cardinality(Artifact), l>> \in Z /\ AfterDephantomize(c, a, worth) = l.c
  <2> HIDE DEF Z
  <2>1. LevelsStay(Z, c, a, worth)
    BY <1>1, <1>2 DEF LevelsStay
  <2> QED BY <2>1, DephantomizeLevels
<1> QED BY <1>3
-----------------------------------------------------------------------------
(* Content arrives: that of a, stored as a delta of s (in full if None).   *)
Stores(db, e, a, s) ==
    /\ e.size = [db.size EXCEPT ![a] = "real"]
    /\ e.phantom = db.phantom \ {a}
    /\ e.src = [db.src EXCEPT ![a] = s]

Grown(db, e, a, s) ==
    /\ DbGood(e) /\ e.src \in Sources
    /\ Real(e) = Real(db) \cup {a} /\ Known(e) = Known(db) \cup {a}
    /\ R(db) \subseteq R(e)
    /\ \A x \in R(e) : x \in R(db) \/ a \in Chain(e, x)
    /\ e.src[a] = s /\ \A x \in Artifact \ {a} : e.src[x] = db.src[x]

LEMMA Stored ==
    ASSUME NEW c, Good(c), NEW a \in Artifact, a \notin Real(c.db), NEW d \in Contexts,
           NEW s \in Artifact \cup {None}, s # None => s \in Known(c.db),
           Stores(c.db, d.db, a, s)
    PROVE  Grown(c.db, d.db, a, s)
<1>1. /\ c.db \in Tables /\ c.db.src \in Sources /\ DbGood(c.db) /\ d.db \in Tables
      /\ d.db.src \in Sources /\ c.db.size \in [Artifact -> {"absent", "phantom", "real"}]
      /\ Real(c.db) \subseteq Known(c.db) /\ Known(c.db) \subseteq Artifact
  BY GoodTypes DEF Good, Contexts, Tables, Sources
<1>2. /\ d.db.size = [c.db.size EXCEPT ![a] = "real"] /\ d.db.phantom = c.db.phantom \ {a}
      /\ d.db.src = [c.db.src EXCEPT ![a] = s]
  BY DEF Stores
<1>3. d.db.src[a] = s /\ \A x \in Artifact \ {a} : d.db.src[x] = c.db.src[x]
  BY <1>1, <1>2 DEF Sources
<1>4. Real(d.db) = Real(c.db) \cup {a} /\ Known(d.db) = Known(c.db) \cup {a}
  BY <1>1, <1>2 DEF Real, Known
<1>5. DbGood(d.db)
  <2>1. d.db.phantom = Known(d.db) \ Real(d.db)
    BY <1>1, <1>2, <1>4 DEF DbGood
  <2>2. ASSUME NEW x \in Artifact, d.db.src[x] # None
        PROVE  x \in Real(d.db) /\ d.db.src[x] \in Known(d.db)
    <3>1. CASE x = a
      BY <1>3, <1>4, <2>2, <3>1
    <3>2. CASE x # a
      BY <1>1, <1>3, <1>4, <2>2, <3>2 DEF DbGood
    <3> QED BY <3>1, <3>2
  <2> QED BY <1>1, <2>1, <2>2 DEF DbGood
<1>6. R(c.db) \subseteq R(d.db) /\ \A x \in R(d.db) : x \in R(c.db) \/ a \in Chain(d.db, x)
  <2> PICK db, e : db = c.db /\ e = d.db
    OBVIOUS
  <2>1. /\ db.src \in Sources /\ e.src \in Sources /\ a \notin Real(db) /\ Real(e) = Real(db) \cup {a}
        /\ \A x \in Artifact \ {a} : e.src[x] = db.src[x]
    BY <1>1, <1>3, <1>4
  <2>2. R(db) \subseteq R(e) /\ \A x \in R(e) : x \in R(db) \/ a \in Chain(e, x)
    BY <2>1, Arrival
  <2> QED BY <2>2
<1> QED BY <1>1, <1>3, <1>4, <1>5, <1>6 DEF Grown

(* In full: what rests on it can be read now, and the bags are told so.    *)
LEMMA PutMarked ==
    ASSUME NEW c, Good(c), NEW a \in Artifact, a \notin Real(c.db), NEW d \in Contexts,
           Stores(c.db, d.db, a, None),
           d.bag.missing = c.bag.missing \ Dependents(d.db, a),
           d.bag.available = c.bag.available \cup Dependents(d.db, a)
    PROVE  /\ Good(d) /\ R(c.db) \subseteq R(d.db) /\ Known(c.db) \subseteq Known(d.db)
           /\ Fresh(c) => Fresh(d)
           /\ a \in R(d.db) /\ a \in Real(d.db)
<1>1. /\ DbGood(d.db) /\ d.db.src \in Sources /\ a \in Real(d.db) /\ Known(c.db) \subseteq Known(d.db)
      /\ R(c.db) \subseteq R(d.db) /\ \A x \in R(d.db) : x \in R(c.db) \/ a \in Chain(d.db, x)
      /\ d.db.src[a] = None
  <2> PICK s \in Artifact \cup {None} : s = None
    OBVIOUS
  <2>1. Stores(c.db, d.db, a, s) /\ (s # None => s \in Known(c.db))
    OBVIOUS
  <2>2. Grown(c.db, d.db, a, s)
    BY <2>1, Stored
  <2> QED BY <2>2 DEF Grown
<1>2. \A x \in Artifact : d.db.src[x] # None => x \in Real(d.db)
  BY <1>1 DEF DbGood
<1>3. Dependents(d.db, a) \subseteq R(d.db)
  BY <1>1, <1>2, DependentsReadable
<1>4. a \in R(d.db)
  BY <1>1, FullText
<1>5. Good(d)
  BY <1>1, <1>3, GoodTypes DEF Good
<1>6. ASSUME Fresh(c) PROVE Fresh(d)
  <2> SUFFICES ASSUME NEW x \in d.bag.missing, x \in R(d.db) PROVE FALSE
    BY DEF Fresh
  <2>1. x \in c.bag.missing /\ x \in Artifact /\ a \notin Chain(d.db, x)
    BY DEF Dependents, R
  <2> QED BY <1>1, <1>6, <2>1 DEF Fresh
<1> QED BY <1>1, <1>4, <1>5, <1>6

(* As a delta of what is missing: that changes nothing for a reader.       *)
LEMMA PutDangling ==
    ASSUME NEW c, Good(c), NEW a \in Artifact, a \notin Real(c.db), NEW d \in Contexts,
           NEW s \in Artifact, s \in Known(c.db), s \in c.bag.missing,
           Stores(c.db, d.db, a, s),
           d.bag.missing = c.bag.missing, d.bag.available = c.bag.available
    PROVE  /\ Good(d) /\ R(c.db) \subseteq R(d.db) /\ Known(c.db) \subseteq Known(d.db)
           /\ Fresh(c) => Fresh(d)
           /\ a \in Real(d.db)
<1>1. /\ DbGood(d.db) /\ d.db.src \in Sources /\ a \in Real(d.db) /\ Known(c.db) \subseteq Known(d.db)
      /\ R(c.db) \subseteq R(d.db) /\ \A x \in R(d.db) : x \in R(c.db) \/ a \in Chain(d.db, x)
      /\ d.db.src[a] = s
  <2>1. Grown(c.db, d.db, a, s)
    BY Stored
  <2> QED BY <2>1 DEF Grown
<1>2. Good(d)
  BY <1>1, GoodTypes DEF Good
<1>3. ASSUME Fresh(c) PROVE Fresh(d)
  <2> SUFFICES ASSUME NEW x \in R(d.db), x \in c.bag.missing PROVE FALSE
    BY DEF Fresh
  <2>1. a \in Chain(d.db, x)
    BY <1>1, <1>3 DEF Fresh
  <2>2. a \in R(d.db)
    BY <1>1, <2>1, ReadableTail
  <2>3. a \notin Chain(d.db, s) /\ s # None
    BY <1>1, <2>2, NoLoop, StoreAssumption
  <2>4. s \in Chain(d.db, a)
    BY <1>1, <2>3, ChainClosed DEF Closed
  <2>5. s \in R(d.db)
    BY <1>1, <2>2, <2>4, ReadableTail
  <2> QED BY <1>1, <1>3, <2>3, <2>5 DEF Fresh
<1> QED BY <1>1, <1>2, <1>3

(* Unannounced: nothing rests on it, and no bag knows of it.               *)
LEMMA PutUnnoticed ==
    ASSUME NEW c, Good(c), NEW a \in Artifact, a \notin Known(c.db), a \notin c.bag.missing,
           NEW d \in Contexts,
           NEW s \in Artifact \cup {None}, s # None => s \in Known(c.db),
           Stores(c.db, d.db, a, s),
           d.bag.missing = c.bag.missing, d.bag.available = c.bag.available
    PROVE  /\ Good(d) /\ R(c.db) \subseteq R(d.db) /\ Known(c.db) \subseteq Known(d.db)
           /\ Fresh(c) => Fresh(d)
           /\ a \in Real(d.db)
<1>1. a \notin Real(c.db) /\ DbGood(c.db)
  BY GoodTypes DEF Good
<1>2. /\ DbGood(d.db) /\ d.db.src \in Sources /\ a \in Real(d.db) /\ Known(c.db) \subseteq Known(d.db)
      /\ R(c.db) \subseteq R(d.db) /\ \A x \in R(d.db) : x \in R(c.db) \/ a \in Chain(d.db, x)
      /\ \A x \in Artifact \ {a} : d.db.src[x] = c.db.src[x]
  <2>1. a \notin Real(c.db) /\ (s # None => s \in Known(c.db))
    BY <1>1
  <2> HIDE <1>1
  <2>2. Grown(c.db, d.db, a, s)
    BY <2>1, Stored
  <2> QED BY <2>2 DEF Grown
<1>3. Good(d)
  BY <1>2, GoodTypes DEF Good
<1>4. ASSUME Fresh(c) PROVE Fresh(d)
  <2> SUFFICES ASSUME NEW x \in R(d.db), x \in c.bag.missing PROVE FALSE
    BY DEF Fresh
  <2>1. a \in Chain(d.db, x) /\ x \in Artifact \ {a}
    BY <1>2, <1>4 DEF Fresh, R
  <2> PICK S \in SUBSET Artifact : S = Artifact \ {a}
    OBVIOUS
  <2>2. Closed(d.db, S)
    <3> SUFFICES ASSUME NEW y \in S, d.db.src[y] # None PROVE d.db.src[y] \in S
      BY DEF Closed
    <3>1. d.db.src[y] = c.db.src[y] /\ y \in Artifact
      BY <1>2
    <3>2. c.db.src[y] \in Known(c.db)
      BY <1>1, <3>1 DEF DbGood
    <3> QED BY <3>1, <3>2, GoodTypes
  <2>3. Chain(d.db, x) \subseteq S
    BY <2>1, <2>2, ChainLeast
  <2> QED BY <2>1, <2>3
<1> QED BY <1>2, <1>3, <1>4

-----------------------------------------------------------------------------
(* What is wrong has its cause in W, and what cannot be read is stored as  *)
(* a peer has sent it.                                                     *)
Caused(db, W) ==
    /\ \A x \in db.bad : SentFrom(x) \cap W # {}
    /\ \A x \in Real(db) \ R(db) : <<x, db.src[x]>> \in DeltaSource

SentClosed(S) == \A e \in DeltaSource : e[1] \in S => e[2] \in S

LEMMA SentFromIs ==
    ASSUME NEW a \in Artifact, NEW b
    PROVE  b \in SentFrom(a) <=> /\ b \in Artifact
                                 /\ \A S \in SUBSET Artifact : a \in S /\ SentClosed(S) => b \in S
BY DEF SentFrom, SentClosed

LEMMA SentFromTail ==
    ASSUME NEW a \in Artifact, NEW b \in SentFrom(a)
    PROVE  b \in Artifact /\ SentFrom(b) \subseteq SentFrom(a)
BY SentFromIs

LEMMA SentFromSource ==
    ASSUME NEW a \in Artifact, NEW s, <<a, s>> \in DeltaSource
    PROVE  a \in SentFrom(a) /\ s \in SentFrom(a) /\ SentFrom(s) \subseteq SentFrom(a)
<1>1. s \in Artifact
  BY ContentAssumption
<1>2. a \in SentFrom(a)
  BY SentFromIs
<1>3. s \in SentFrom(a)
  <2> SUFFICES ASSUME NEW S \in SUBSET Artifact, a \in S, SentClosed(S) PROVE s \in S
    BY <1>1, SentFromIs
  <2> QED BY DEF SentClosed
<1> QED BY <1>2, <1>3, SentFromTail

(* What waits for a has come from a.                                       *)
LEMMA WaitsFrom ==
    ASSUME NEW db, DbGood(db), NEW W, Caused(db, W), NEW a \in Artifact, a \notin Real(db),
           NEW x \in Dependents(db, a)
    PROVE  x \in Artifact /\ SentFrom(a) \subseteq SentFrom(x)
<1>1. x \in Artifact /\ a \in Chain(db, x) /\ db.src \in Sources
  BY DEF Dependents, DbGood, Tables, Sources
<1>2. a \in SentFrom(x)
  <2> SUFFICES ASSUME NEW S \in SUBSET Artifact, x \in S, SentClosed(S) PROVE a \in S
    BY <1>1, SentFromIs
  <2> PICK T \in SUBSET Artifact : T = S \cup R(db)
    BY DEF R
  <2>1. Closed(db, T)
    <3> SUFFICES ASSUME NEW y \in T, db.src[y] # None PROVE db.src[y] \in T
      BY DEF Closed
    <3>1. y \in Artifact /\ y \in Real(db)
      BY DEF DbGood
    <3>2. CASE y \in R(db)
      <4>1. db.src[y] \in Chain(db, y)
        BY <1>1, <3>1, ChainClosed DEF Closed
      <4> QED BY <1>1, <3>2, <4>1, ReadableTail
    <3>3. CASE y \notin R(db)
      <4>1. <<y, db.src[y]>> \in DeltaSource /\ y \in S
        BY <3>1, <3>3 DEF Caused
      <4> QED BY <4>1 DEF SentClosed
    <3> QED BY <3>2, <3>3
  <2>2. a \in T
    BY <1>1, <2>1, ChainLeast
  <2> QED BY <1>1, <2>2, ReadableIsReal
<1> QED BY <1>1, <1>2, SentFromTail

(* The content of a, stored as a delta of s, is wrong for a reason.        *)
Explained(db, a, s, right, W) ==
    /\ Caused(db, W)
    /\ s = None \/ <<a, s>> \in DeltaSource
    /\ right \/ SentFrom(a) \cap W # {}

NewBad(c, a, s, right) ==
    IF right /\ s \notin c.db.bad THEN c.db.bad ELSE c.db.bad \cup Dependents(c.db, a)

LEMMA PutCaused ==
    ASSUME NEW c, Good(c), NEW a \in Artifact, a \notin Real(c.db), NEW d \in Contexts,
           NEW s \in Artifact \cup {None}, Stores(c.db, d.db, a, s), R(c.db) \subseteq R(d.db),
           NEW right \in BOOLEAN, d.db.bad = NewBad(c, a, s, right),
           NEW W, Explained(c.db, a, s, right, W)
    PROVE  Caused(d.db, W)
<1>1. /\ Caused(c.db, W) /\ DbGood(c.db) /\ c.db \in Tables /\ d.db.src \in Sources
      /\ d.db.src = [c.db.src EXCEPT ![a] = s] /\ c.db.src \in Sources
      /\ Real(d.db) = Real(c.db) \cup {a}
  BY GoodTypes DEF Explained, Good, Stores, Contexts, Tables, Sources, Real
<1>2. ASSUME NEW x \in d.db.bad PROVE SentFrom(x) \cap W # {}
  <2>1. CASE x \in c.db.bad
    BY <1>1, <2>1 DEF Caused
  <2>2. CASE x \notin c.db.bad
    <3>1. x \in Dependents(c.db, a) /\ ~(right /\ s \notin c.db.bad)
      BY <1>2, <2>2 DEF NewBad
    <3>2. SentFrom(a) \cap W # {}
      <4>1. CASE ~right
        BY <4>1 DEF Explained
      <4>2. CASE s \in c.db.bad
        <5>1. s # None /\ s \in Artifact
          BY <1>1, <4>2, StoreAssumption DEF Tables
        <5>2. <<a, s>> \in DeltaSource /\ SentFrom(s) \cap W # {}
          BY <1>1, <4>2, <5>1 DEF Explained, Caused
        <5> QED BY <5>2, SentFromSource
      <4> QED BY <3>1, <4>1, <4>2
    <3>3. SentFrom(a) \subseteq SentFrom(x)
      BY <1>1, <3>1, WaitsFrom
    <3> QED BY <3>2, <3>3
  <2> QED BY <2>1, <2>2
<1>3. ASSUME NEW x \in Real(d.db), x \notin R(d.db) PROVE <<x, d.db.src[x]>> \in DeltaSource
  <2>1. x \in Artifact
    BY DEF Real
  <2>2. CASE x = a
    <3>1. d.db.src[a] = s
      BY <1>1 DEF Sources
    <3>2. s # None
      BY <1>1, <1>3, <2>2, <3>1, FullText
    <3> QED BY <2>2, <3>1, <3>2 DEF Explained
  <2>3. CASE x # a
    <3>1. x \in Real(c.db) /\ x \notin R(c.db) /\ d.db.src[x] = c.db.src[x]
      BY <1>1, <1>3, <2>1, <2>3 DEF Sources
    <3> QED BY <1>1, <3>1 DEF Caused
  <2> QED BY <2>2, <2>3
<1> QED BY <1>2, <1>3 DEF Caused

LEMMA UpkeepCaused ==
    ASSUME NEW c, NEW d, Upkeep(c, d), NEW W, Caused(c.db, W) PROVE Caused(d.db, W)
<1>1. Real(c.db) \subseteq Artifact
  BY DEF Real
<1> QED BY <1>1 DEF Upkeep, Caused, SourcesStay

-----------------------------------------------------------------------------
Filled(c, a, s, right) == [c EXCEPT !.db = Fill(@, a, s, right)]

SameRows(c, d) ==
    d.db.orphan = c.db.orphan /\ d.db.linked = c.db.linked /\ d.db.mlink = c.db.mlink

Fills(c, d, a, s, right) ==
    /\ d \in Contexts /\ d.bag = c.bag /\ d.db.src = c.db.src /\ SameRows(c, d)
    /\ d.db.size = [c.db.size EXCEPT ![a] = "real"]
    /\ d.db.phantom = c.db.phantom \ {a}
    /\ d.db.bad = NewBad(c, a, s, right)

LEMMA FillIs ==
    ASSUME NEW c \in Contexts, NEW a \in Artifact, NEW s, NEW right \in BOOLEAN
    PROVE  Fills(c, Filled(c, a, s, right), a, s, right)
<1> PICK B \in SUBSET Artifact : B = NewBad(c, a, s, right)
  BY DEF Contexts, Tables, NewBad, Dependents
<1> PICK db : db = [c.db EXCEPT !.size[a] = "real", !.phantom = @ \ {a}, !.bad = B]
  OBVIOUS
<1>1. /\ db \in Tables /\ db.src = c.db.src /\ db.size = [c.db.size EXCEPT ![a] = "real"]
      /\ db.phantom = c.db.phantom \ {a} /\ db.bad = B
      /\ db.orphan = c.db.orphan /\ db.linked = c.db.linked /\ db.mlink = c.db.mlink
  BY DEF Contexts, Tables
<1>2. Fill(c.db, a, s, right) = db
  BY DEF Fill, NewBad
<1> PICK d : d = Filled(c, a, s, right)
  OBVIOUS
<1>3. d \in Contexts /\ d.bag = c.bag /\ d.db = db
  BY <1>1, <1>2 DEF Contexts, Filled
<1> QED BY <1>1, <1>3 DEF Fills, SameRows

LEMMA NoteDeltaIs ==
    ASSUME NEW c \in Contexts, NEW a \in Artifact, NEW s \in Artifact \cup {None}, NEW priv,
           c.db.src[a] = None
    PROVE  LET d == NoteDelta(c, a, s, priv) IN
           /\ d \in Contexts /\ d.bag = c.bag /\ d.db.src = [c.db.src EXCEPT ![a] = s]
           /\ d.db.size = c.db.size /\ d.db.phantom = c.db.phantom /\ d.db.bad = c.db.bad
           /\ SameRows(c, d)
<1> PICK P \in SUBSET Artifact : P = IF priv THEN c.db.private \cup {a} ELSE c.db.private
  BY DEF Contexts, Tables
<1> PICK t \in Artifact \cup {None} : t = IF s = None THEN c.db.src[a] ELSE s
  OBVIOUS
<1>1. t = s
  OBVIOUS
<1> PICK e : e = [c EXCEPT !.db.private = P, !.db.src[a] = t]
  OBVIOUS
<1>2. /\ e \in Contexts /\ e.bag = c.bag /\ e.db.src = [c.db.src EXCEPT ![a] = t]
      /\ e.db.size = c.db.size /\ e.db.phantom = c.db.phantom /\ e.db.bad = c.db.bad
      /\ SameRows(c, e)
  BY DEF Contexts, Tables, SameRows
<1>3. NoteDelta(c, a, s, priv) = e
  BY DEF NoteDelta
<1> QED BY <1>1, <1>2, <1>3

LEMMA MarkAvailableIs ==
    ASSUME NEW c \in Contexts, NEW a \in Artifact, a \notin c.bag.available
    PROVE  LET d == MarkAvailable(c, a) IN
           /\ d \in Contexts /\ d.db = c.db /\ d.bag.verify = c.bag.verify
           /\ d.bag.missing = c.bag.missing \ Dependents(c.db, a)
           /\ d.bag.available = c.bag.available \cup Dependents(c.db, a)
<1> PICK D \in SUBSET Artifact : D = Dependents(c.db, a)
  BY DEF Dependents
<1> PICK e : e = [c EXCEPT !.bag.missing = @ \ D, !.bag.available = @ \cup D]
  OBVIOUS
<1>1. /\ e \in Contexts /\ e.db = c.db /\ e.bag.verify = c.bag.verify
      /\ e.bag.missing = c.bag.missing \ D
      /\ e.bag.available = c.bag.available \cup D
  BY DEF Contexts, Bags
<1>2. MarkAvailable(c, a) = e
  BY DEF MarkAvailable
<1> QED BY <1>1, <1>2

LEMMA UnavailableIs ==
    ASSUME NEW c \in Contexts, NEW s \in Artifact, s \in c.bag.missing
    PROVE  LET d == AfterIsAvailable(c, s) IN
           /\ ~IsAvailable(c, s)
           /\ d \in Contexts /\ d.db = c.db /\ d.bag.verify = c.bag.verify
           /\ d.bag.missing = c.bag.missing /\ d.bag.available = c.bag.available
<1>1. AvailabilityEnd(c, s) = s
  BY DEF AvailabilityEnd, FirstMet
<1>2. ~IsAvailable(c, s)
  BY <1>1 DEF IsAvailable
<1> PICK e : e = [c EXCEPT !.bag.missing = @ \cup {s}]
  OBVIOUS
<1>3. /\ e \in Contexts /\ e.db = c.db /\ e.bag.verify = c.bag.verify
      /\ e.bag.missing = c.bag.missing \cup {s} /\ e.bag.available = c.bag.available
  BY DEF Contexts, Bags
<1>4. AfterIsAvailable(c, s) = e
  BY <1>1, <1>2 DEF AfterIsAvailable
<1> QED BY <1>2, <1>3, <1>4

(* What a call that stores the content of a leaves behind: more to read,   *)
(* what was right stays right, and what is wrong is wrong for a reason.    *)
Put(c, d, a, s, right) ==
    /\ Good(d)
    /\ R(c.db) \subseteq R(d.db) /\ Known(c.db) \subseteq Known(d.db)
    /\ c.bag.verify \subseteq d.bag.verify
    /\ Fresh(c) => Fresh(d)
    /\ Real(d.db) = Real(c.db) \cup {a} /\ a \in Artifact
    /\ I(c.db) \subseteq I(d.db)
    /\ \A W : Explained(c.db, a, s, right, W) => Caused(d.db, W)

LEMMA StaysRight ==
    ASSUME NEW c, Good(c), NEW a \in Artifact, a \notin Real(c.db), NEW d, NEW s, NEW right,
           d.db.bad = NewBad(c, a, s, right), R(c.db) \subseteq R(d.db)
    PROVE  I(c.db) \subseteq I(d.db)
<1> SUFFICES ASSUME NEW x \in R(c.db), x \notin c.db.bad, x \in d.db.bad PROVE FALSE
  BY DEF I
<1>1. a \in Chain(c.db, x)
  BY DEF NewBad, Dependents
<1> QED BY <1>1, GoodTypes, ReadableTail

LEMMA PutIs ==
    ASSUME NEW c, Good(c), NEW a \in Artifact, a \notin Real(c.db), NEW d, Good(d),
           NEW s \in Artifact \cup {None}, Stores(c.db, d.db, a, s),
           NEW right \in BOOLEAN, d.db.bad = NewBad(c, a, s, right),
           R(c.db) \subseteq R(d.db), Known(c.db) \subseteq Known(d.db),
           c.bag.verify \subseteq d.bag.verify, Fresh(c) => Fresh(d)
    PROVE  Put(c, d, a, s, right)
<1>1. d \in Contexts /\ c.db \in Tables
  BY GoodTypes
<1>2. Real(d.db) = Real(c.db) \cup {a}
  BY <1>1 DEF Stores, Tables, Real
<1>3. I(c.db) \subseteq I(d.db)
  BY StaysRight
<1>4. ASSUME NEW W, Explained(c.db, a, s, right, W) PROVE Caused(d.db, W)
  BY <1>1, <1>4, PutCaused
<1> QED BY <1>2, <1>3, <1>4 DEF Put

LEMMA PutUpkeep ==
    ASSUME NEW c, NEW d, NEW e, NEW a, NEW s, NEW right, Put(c, d, a, s, right), Upkeep(d, e)
    PROVE  Put(c, e, a, s, right)
<1>1. ASSUME NEW W, Explained(c.db, a, s, right, W) PROVE Caused(e.db, W)
  BY <1>1, UpkeepCaused DEF Put
<1> QED BY <1>1 DEF Put, Upkeep, I

(* Before after_dephantomize(), what waits for a phantom goes on waiting.  *)
PutHere(c, d, a, s, right) ==
    /\ Put(c, d, a, s, right) /\ Stores(c.db, d.db, a, s) /\ SameRows(c, d)
    /\ d.db.bad = NewBad(c, a, s, right)

LEMMA PutPhantomIs ==
    ASSUME NEW c, Good(c), NEW a \in Artifact, a \notin Real(c.db),
           NEW s \in Artifact \cup {None}, s # None => s \in Known(c.db) /\ s \in c.bag.missing,
           NEW priv, NEW worth, NEW right \in BOOLEAN,
           NEW f, f = Filled(c, a, s, right)
    PROVE  \E d : /\ PutHere(c, d, a, s, right)
                  /\ PutPhantom(f, a, s, priv, worth) = IF s = None THEN AfterDephantomize(d, a, worth)
                                                        ELSE d
<1>1. c \in Contexts /\ c.db \in Tables /\ DbGood(c.db) /\ c.bag.available \subseteq Real(c.db)
  BY GoodTypes DEF Good
<1>2. /\ f \in Contexts /\ f.bag = c.bag /\ f.db.src = c.db.src
      /\ f.db.size = [c.db.size EXCEPT ![a] = "real"]
      /\ f.db.phantom = c.db.phantom \ {a}
      /\ f.db.bad = NewBad(c, a, s, right)
      /\ SameRows(c, f)
  <2>1. c \in Contexts
    BY <1>1
  <2>2. Fills(c, f, a, s, right)
    BY <2>1, FillIs
  <2> QED BY <2>2 DEF Fills
<1>3. f.db.src[a] = None
  BY <1>1, <1>2 DEF DbGood
<1>4. CASE s = None
  <2> PICK m : m = MarkAvailable(f, a)
    OBVIOUS
  <2> PICK d : d = NoteDelta(m, a, s, priv)
    OBVIOUS
  <2>1. /\ m \in Contexts /\ m.db = f.db /\ m.bag.verify = c.bag.verify
        /\ m.bag.missing = c.bag.missing \ Dependents(f.db, a)
        /\ m.bag.available = c.bag.available \cup Dependents(f.db, a)
    <3>1. a \notin f.bag.available
      BY <1>1, <1>2
    <3> QED BY <1>2, <3>1, MarkAvailableIs
  <2>2. /\ d \in Contexts /\ d.bag = m.bag /\ d.db.src = [f.db.src EXCEPT ![a] = s]
        /\ d.db.size = f.db.size /\ d.db.phantom = f.db.phantom /\ d.db.bad = f.db.bad
        /\ SameRows(m, d)
    BY <1>3, <2>1, NoteDeltaIs
  <2>10. SameRows(c, d)
    BY <1>2, <2>1, <2>2 DEF SameRows
  <2>3. d.db.src = f.db.src
    BY <1>1, <1>2, <1>3, <1>4, <2>2 DEF Tables
  <2>4. Dependents(d.db, a) = Dependents(f.db, a)
    BY <2>3 DEF Dependents, Chain
  <2>5. Stores(c.db, d.db, a, None)
    BY <1>2, <1>4, <2>2 DEF Stores
  <2>6. /\ Good(d) /\ R(c.db) \subseteq R(d.db) /\ Known(c.db) \subseteq Known(d.db)
        /\ Fresh(c) => Fresh(d)
        /\ a \in R(d.db) /\ a \in Real(d.db)
    <3>1. /\ d.bag.missing = c.bag.missing \ Dependents(d.db, a)
          /\ d.bag.available = c.bag.available \cup Dependents(d.db, a)
      BY <2>1, <2>2, <2>4
    <3> QED BY <2>2, <2>5, <3>1, PutMarked
  <2>11. d.db.bad = NewBad(c, a, s, right)
    BY <1>2, <2>1, <2>2
  <2>7. Put(c, d, a, s, right)
    <3>1. c.bag.verify \subseteq d.bag.verify /\ Stores(c.db, d.db, a, s)
      BY <1>4, <2>1, <2>2, <2>5
    <3> QED BY <2>6, <2>11, <3>1, PutIs
  <2>8. PutPhantom(f, a, s, priv, worth) = AfterDephantomize(d, a, worth)
    BY <1>4 DEF PutPhantom
  <2>9. PutHere(c, d, a, s, right)
    BY <1>4, <2>5, <2>7, <2>10, <2>11 DEF PutHere
  <2> QED BY <1>4, <2>8, <2>9
<1>5. CASE s # None
  <2> PICK m : m = AfterIsAvailable(f, s)
    OBVIOUS
  <2> PICK d : d = NoteDelta(m, a, s, priv)
    OBVIOUS
  <2>1. /\ ~IsAvailable(f, s)
        /\ m \in Contexts /\ m.db = f.db /\ m.bag.verify = c.bag.verify
        /\ m.bag.missing = c.bag.missing /\ m.bag.available = c.bag.available
    <3>1. s \in Artifact /\ s \in f.bag.missing
      BY <1>2, <1>5
    <3> QED BY <1>2, <3>1, UnavailableIs
  <2>2. /\ d \in Contexts /\ d.bag = m.bag /\ d.db.src = [f.db.src EXCEPT ![a] = s]
        /\ d.db.size = f.db.size /\ d.db.phantom = f.db.phantom /\ d.db.bad = f.db.bad
        /\ SameRows(m, d)
    BY <1>3, <2>1, NoteDeltaIs
  <2>7. SameRows(c, d)
    BY <1>2, <2>1, <2>2 DEF SameRows
  <2>3. Stores(c.db, d.db, a, s)
    BY <1>2, <2>2 DEF Stores
  <2>4. /\ Good(d) /\ R(c.db) \subseteq R(d.db) /\ Known(c.db) \subseteq Known(d.db)
        /\ Fresh(c) => Fresh(d)
        /\ a \in Real(d.db)
    <3>1. d.bag.missing = c.bag.missing /\ d.bag.available = c.bag.available
      BY <2>1, <2>2
    <3>2. s \in Artifact /\ s \in Known(c.db) /\ s \in c.bag.missing
      BY <1>5
    <3> QED BY <2>2, <2>3, <3>1, <3>2, PutDangling
  <2>9. d.db.bad = NewBad(c, a, s, right)
    BY <1>2, <2>1, <2>2
  <2>5. Put(c, d, a, s, right)
    <3>1. c.bag.verify \subseteq d.bag.verify
      BY <2>1, <2>2
    <3> QED BY <2>3, <2>4, <2>9, <3>1, PutIs
  <2>6. PutPhantom(f, a, s, priv, worth) = d
    BY <1>5, <2>1 DEF PutPhantom
  <2>8. PutHere(c, d, a, s, right)
    BY <2>3, <2>5, <2>7, <2>9 DEF PutHere
  <2> QED BY <1>5, <2>6, <2>8
<1> QED BY <1>4, <1>5

LEMMA PutPhantomStep ==
    ASSUME NEW c, Good(c), NEW a \in Artifact, a \notin Real(c.db),
           NEW s \in Artifact \cup {None}, s # None => s \in Known(c.db) /\ s \in c.bag.missing,
           NEW priv, NEW worth, NEW right \in BOOLEAN,
           NEW f, f = Filled(c, a, s, right)
    PROVE  Put(c, PutPhantom(f, a, s, priv, worth), a, s, right)
<1>1. PICK d : /\ PutHere(c, d, a, s, right)
               /\ PutPhantom(f, a, s, priv, worth) = IF s = None THEN AfterDephantomize(d, a, worth)
                                                     ELSE d
  BY PutPhantomIs
<1>2. Put(c, d, a, s, right) /\ Good(d)
  BY <1>1 DEF PutHere, Put
<1>3. Upkeep(d, AfterDephantomize(d, a, worth))
  BY <1>2, AfterDephantomizeStep
<1> QED BY <1>1, <1>2, <1>3, PutUpkeep

LEMMA PutNewIs ==
    ASSUME NEW c, Good(c), NEW a \in Artifact, a \notin Known(c.db),
           NEW s \in Artifact \cup {None}, s # None => s \in Known(c.db) /\ s \in c.bag.missing,
           NEW priv, NEW right \in BOOLEAN,
           NEW f, f = Filled(c, a, s, right)
    PROVE  PutHere(c, PutNew(NoteDelta(f, a, s, priv), a, s), a, s, right)
<1>1. /\ c \in Contexts /\ c.db \in Tables /\ DbGood(c.db) /\ c.bag.available \subseteq Real(c.db)
      /\ a \notin Real(c.db) /\ c.db.src \in Sources
  BY GoodTypes DEF Good
<1>2. /\ f \in Contexts /\ f.bag = c.bag /\ f.db.src = c.db.src
      /\ f.db.size = [c.db.size EXCEPT ![a] = "real"]
      /\ f.db.phantom = c.db.phantom \ {a}
      /\ f.db.bad = NewBad(c, a, s, right)
      /\ SameRows(c, f)
  <2>1. c \in Contexts
    BY <1>1
  <2>2. Fills(c, f, a, s, right)
    BY <2>1, FillIs
  <2> QED BY <2>2 DEF Fills
<1>3. f.db.src[a] = None
  BY <1>1, <1>2 DEF DbGood
<1> PICK n : n = NoteDelta(f, a, s, priv)
  OBVIOUS
<1>4. /\ n \in Contexts /\ n.bag = c.bag /\ n.db.src = [f.db.src EXCEPT ![a] = s]
      /\ n.db.size = f.db.size /\ n.db.phantom = f.db.phantom /\ n.db.bad = f.db.bad
      /\ SameRows(f, n)
  BY <1>2, <1>3, NoteDeltaIs
<1>5. Stores(c.db, n.db, a, s) /\ SameRows(c, n) /\ n.db.bad = NewBad(c, a, s, right)
  BY <1>2, <1>4 DEF Stores, SameRows
<1>6. CASE a \notin c.bag.missing
  <2>1. PutNew(n, a, s) = n
    BY <1>4, <1>6 DEF PutNew
  <2>2. /\ Good(n) /\ R(c.db) \subseteq R(n.db) /\ Known(c.db) \subseteq Known(n.db)
        /\ Fresh(c) => Fresh(n)
        /\ a \in Real(n.db)
    <3>1. n.bag.missing = c.bag.missing /\ n.bag.available = c.bag.available
      BY <1>4
    <3>2. s # None => s \in Known(c.db)
      OBVIOUS
    <3> HIDE <1>1, <1>2, <1>3
    <3> QED BY <1>4, <1>5, <1>6, <3>1, <3>2, PutUnnoticed
  <2>4. Put(c, n, a, s, right)
    <3>1. c.bag.verify \subseteq n.bag.verify
      BY <1>4
    <3> QED BY <1>1, <1>5, <2>2, <3>1, PutIs
  <2> QED BY <1>5, <2>1, <2>4 DEF PutHere
<1>7. CASE a \in c.bag.missing /\ s = None
  <2> PICK d : d = MarkAvailable(n, a)
    OBVIOUS
  <2>1. PutNew(n, a, s) = d
    BY <1>4, <1>7 DEF PutNew
  <2>2. /\ d \in Contexts /\ d.db = n.db /\ d.bag.verify = c.bag.verify
        /\ d.bag.missing = c.bag.missing \ Dependents(n.db, a)
        /\ d.bag.available = c.bag.available \cup Dependents(n.db, a)
    BY <1>1, <1>4, MarkAvailableIs
  <2>3. /\ Good(d) /\ R(c.db) \subseteq R(d.db) /\ Known(c.db) \subseteq Known(d.db)
        /\ Fresh(c) => Fresh(d)
        /\ a \in R(d.db) /\ a \in Real(d.db)
    <3>1. /\ Stores(c.db, d.db, a, None)
          /\ d.bag.missing = c.bag.missing \ Dependents(d.db, a)
          /\ d.bag.available = c.bag.available \cup Dependents(d.db, a)
      BY <1>5, <1>7, <2>2
    <3> QED BY <1>1, <2>2, <3>1, PutMarked
  <2>4. Put(c, d, a, s, right)
    <3>1. c.bag.verify \subseteq d.bag.verify /\ d.db.bad = NewBad(c, a, s, right)
          /\ Stores(c.db, d.db, a, s)
      BY <1>4, <1>5, <2>2
    <3> QED BY <1>1, <2>3, <3>1, PutIs
  <2> QED BY <1>5, <2>1, <2>2, <2>4 DEF PutHere, SameRows
<1>8. CASE a \in c.bag.missing /\ s # None
  <2> PICK d : d = AfterIsAvailable(n, s)
    OBVIOUS
  <2>1. /\ ~IsAvailable(n, s)
        /\ d \in Contexts /\ d.db = n.db /\ d.bag.verify = c.bag.verify
        /\ d.bag.missing = c.bag.missing /\ d.bag.available = c.bag.available
    <3>1. s \in Artifact /\ s \in n.bag.missing
      BY <1>4, <1>8
    <3> QED BY <1>4, <3>1, UnavailableIs
  <2>2. PutNew(n, a, s) = d
    BY <1>4, <1>8, <2>1 DEF PutNew
  <2>3. /\ Good(d) /\ R(c.db) \subseteq R(d.db) /\ Known(c.db) \subseteq Known(d.db)
        /\ Fresh(c) => Fresh(d)
        /\ a \in Real(d.db)
    <3>1. s \in Artifact /\ s \in Known(c.db) /\ s \in c.bag.missing /\ Stores(c.db, d.db, a, s)
      BY <1>5, <1>8, <2>1
    <3> QED BY <1>1, <2>1, <3>1, PutDangling
  <2>4. Put(c, d, a, s, right)
    <3>1. c.bag.verify \subseteq d.bag.verify /\ d.db.bad = NewBad(c, a, s, right)
          /\ Stores(c.db, d.db, a, s)
      BY <1>4, <1>5, <2>1
    <3> QED BY <1>1, <2>3, <3>1, PutIs
  <2> QED BY <1>5, <2>1, <2>2, <2>4 DEF PutHere, SameRows
<1> QED BY <1>6, <1>7, <1>8

(* How a context may change: nothing that could be read is lost, or gone   *)
(* wrong, verify_at_commit() will read back what has content now, and what *)
(* is wrong has its cause in W.                                            *)
Grow(c, d, W) ==
    /\ Good(d)
    /\ R(c.db) \subseteq R(d.db) /\ Known(c.db) \subseteq Known(d.db)
    /\ c.bag.verify \subseteq d.bag.verify
    /\ Fresh(c) => Fresh(d)
    /\ I(c.db) \subseteq I(d.db)
    /\ Real(c.db) \subseteq Real(d.db)
    /\ Real(d.db) \ Real(c.db) \subseteq d.bag.verify
    /\ Caused(c.db, W) => Caused(d.db, W)

LEMMA GrowUpkeep == ASSUME NEW c, NEW d, Upkeep(c, d), NEW W PROVE Grow(c, d, W)
<1>1. Caused(c.db, W) => Caused(d.db, W)
  BY UpkeepCaused
<1> QED BY <1>1 DEF Grow, Upkeep, I

LEMMA GrowOfBoth ==
    ASSUME NEW c, NEW d, NEW e, NEW W, Grow(c, d, W), Grow(d, e, W) PROVE Grow(c, e, W)
BY DEF Grow

(* verify_before_commit()                                                  *)
Verified(e, a) == [e EXCEPT !.bag.verify = @ \cup {a}]

LEMMA PutVerified ==
    ASSUME NEW c, NEW a \in Artifact, NEW e, NEW s, NEW right, Put(c, e, a, s, right), NEW W,
           Caused(c.db, W) => Explained(c.db, a, s, right, W)
    PROVE  Grow(c, Verified(e, a), W) /\ a \in Real(Verified(e, a).db)
<1>1. e \in Contexts /\ Good(e)
  BY DEF Put, Good
<1> PICK d : d = Verified(e, a)
  OBVIOUS
<1>2. /\ d \in Contexts /\ d.db = e.db /\ d.bag.verify = e.bag.verify \cup {a}
      /\ d.bag.missing = e.bag.missing /\ d.bag.available = e.bag.available
  BY <1>1 DEF Contexts, Bags, Verified
<1>3. Good(d) /\ (Fresh(e) => Fresh(d))
  BY <1>1, <1>2 DEF Good, Fresh
<1>4. Grow(c, d, W)
  BY <1>2, <1>3 DEF Grow, Put
<1>5. a \in Real(d.db)
  BY <1>2 DEF Put
<1> QED BY <1>4, <1>5

Announced(e, a, priv) ==
    [e EXCEPT !.db.unclustered = IF priv THEN @ ELSE @ \cup {a}]

LEMMA AnnouncedStep ==
    ASSUME NEW c, Good(c), NEW a \in Artifact, NEW priv
    PROVE  Upkeep(c, Announced(c, a, priv))
<1>1. c \in Contexts
  BY GoodTypes
<1> PICK U \in SUBSET Artifact : U = IF priv THEN c.db.unclustered ELSE c.db.unclustered \cup {a}
  BY <1>1 DEF Contexts, Tables
<1> PICK d : d = [c EXCEPT !.db.unclustered = U]
  OBVIOUS
<1>2. d \in Contexts /\ d.bag = c.bag /\ d.db.size = c.db.size /\ d.db.src = c.db.src
      /\ d.db.phantom = c.db.phantom /\ d.db.bad = c.db.bad
  BY <1>1 DEF Contexts, Tables
<1>3. Announced(c, a, priv) = d
  BY DEF Announced
<1> QED BY <1>2, <1>3, Aside

(* content_put_ex() loses nothing that could be read, makes nothing wrong  *)
(* that was right, and keeps the bags right: of full texts, and of deltas  *)
(* whose source is in the bag of what is missing, whether the bytes are    *)
(* right or wrong.  If they are wrong, so is what rests on them; the cause *)
(* of that is in W, be it the sender of these bytes or of earlier ones,    *)
(* and the commit will read back what is stored.                           *)
THEOREM ContentPutStep ==
    ASSUME NEW c, Good(c), NEW a \in Artifact,
           NEW s \in Artifact \cup {None}, s # None => s \in Known(c.db) /\ s \in c.bag.missing,
           NEW priv, NEW worth, NEW right \in BOOLEAN, NEW W,
           a \notin Real(c.db) /\ Caused(c.db, W) => Explained(c.db, a, s, right, W)
    PROVE  /\ Grow(c, ContentPut(c, a, s, priv, right, worth), W)
           /\ a \in Real(ContentPut(c, a, s, priv, right, worth).db)
<1> PICK f : f = Filled(c, a, s, right)
  OBVIOUS
<1> PICK d : d = ContentPut(c, a, s, priv, right, worth)
  OBVIOUS
<1>1. CASE a \in Real(c.db)
  <2>1. d = c
    BY <1>1 DEF ContentPut
  <2> QED BY <1>1, <2>1, UpkeepOfNothing, GrowUpkeep
<1>2. CASE a \notin Real(c.db) /\ a \in c.db.phantom
  <2> PICK e : e = PutPhantom(f, a, s, priv, worth)
    OBVIOUS
  <2>1. Put(c, e, a, s, right)
    BY <1>2, PutPhantomStep
  <2>2. d = Verified(e, a)
    BY <1>2 DEF ContentPut, Filled, Verified
  <2> QED BY <1>2, <2>1, <2>2, PutVerified
<1>3. CASE a \notin Real(c.db) /\ a \notin c.db.phantom
  <2> PICK e : e = PutNew(NoteDelta(f, a, s, priv), a, s)
    OBVIOUS
  <2>1. a \notin Known(c.db)
    BY <1>3 DEF Good, DbGood
  <2>2. Put(c, e, a, s, right)
    BY <2>1, PutNewIs DEF PutHere
  <2> PICK g : g = Announced(e, a, priv)
    OBVIOUS
  <2>3. Put(c, g, a, s, right)
    <3>1. Good(e)
      BY <2>2 DEF Put
    <3>2. Upkeep(e, g)
      BY <3>1, AnnouncedStep
    <3> QED BY <2>2, <3>2, PutUpkeep
  <2>4. d = Verified(g, a)
    BY <1>3 DEF ContentPut, Filled, Verified, Announced
  <2> QED BY <1>3, <2>3, <2>4, PutVerified
<1> QED BY <1>1, <1>2, <1>3

(* Redundant: the phantom table does not list what has content.            *)
NoPhantom(c, a) == [c EXCEPT !.db.phantom = @ \ {a}]

LEMMA NoPhantomStep ==
    ASSUME NEW c, Good(c), NEW a \in Real(c.db)
    PROVE  Upkeep(c, NoPhantom(c, a))
<1>1. c \in Contexts /\ a \in Artifact /\ a \notin c.db.phantom
  BY DEF Good, DbGood, Real
<1> PICK d : d = NoPhantom(c, a)
  OBVIOUS
<1>2. d \in Contexts /\ d.bag = c.bag /\ d.db.size = c.db.size /\ d.db.src = c.db.src
      /\ d.db.phantom = c.db.phantom \ {a} /\ d.db.bad = c.db.bad
  BY <1>1 DEF Contexts, Tables, NoPhantom
<1>3. d.db.phantom = c.db.phantom
  BY <1>1, <1>2
<1> QED BY <1>2, <1>3, Aside

-----------------------------------------------------------------------------
(* xfer_accept_file().                                                     *)
LEMMA KeepDeltaStep ==
    ASSUME NEW c, Good(c), NEW a \in Artifact,
           NEW rid \in Artifact \cup {None},
           rid # None => rid \in Known(c.db) /\ ~CanGet(c, rid),
           NEW priv, NEW right \in BOOLEAN, NEW worth, NEW W,
           a \notin Real(c.db) /\ Caused(c.db, W)
             => Explained(c.db, a, rid, right /\ rid # None, W)
    PROVE  /\ Grow(c, KeepDelta(c, a, rid, priv, right, worth), W)
           /\ a \in Real(KeepDelta(c, a, rid, priv, right, worth).db)
<1> PICK d : d = IF rid = None THEN c ELSE AfterGet(c, rid)
  OBVIOUS
<1> PICK good \in BOOLEAN : good = (right /\ rid # None)
  OBVIOUS
<1> PICK e : e = ContentPut(d, a, rid, priv, good, worth)
  OBVIOUS
<1>1. /\ Upkeep(c, d) /\ d.db = c.db
      /\ rid # None => rid \in d.bag.missing
  <2>1. CASE rid = None
    BY <2>1, UpkeepOfNothing
  <2>2. CASE rid # None
    BY <2>2, GetStep
  <2> QED BY <2>1, <2>2
<1>2. Good(d) /\ (rid # None => rid \in Known(d.db))
  BY <1>1 DEF Upkeep
<1>3. Grow(d, e, W) /\ a \in Real(e.db)
  <2>1. a \notin Real(d.db) /\ Caused(d.db, W) => Explained(d.db, a, rid, good, W)
    BY <1>1
  <2>2. rid # None => rid \in Known(d.db) /\ rid \in d.bag.missing
    BY <1>1, <1>2
  <2> HIDE <1>1
  <2> QED BY <1>2, <2>1, <2>2, ContentPutStep
<1>4. Upkeep(e, NoPhantom(e, a))
  BY <1>3, NoPhantomStep DEF Grow
<1>5. KeepDelta(c, a, rid, priv, right, worth) = NoPhantom(e, a)
  BY DEF KeepDelta, NoPhantom
<1>6. Grow(c, d, W) /\ Grow(e, NoPhantom(e, a), W)
  BY <1>1, <1>4, GrowUpkeep
<1>7. Grow(c, e, W)
  BY <1>3, <1>6, GrowOfBoth
<1>8. a \in Real(NoPhantom(e, a).db)
  BY <1>3, <1>4 DEF Upkeep
<1> QED BY <1>5, <1>6, <1>7, <1>8, GrowOfBoth

LEMMA KeepFileStep ==
    ASSUME NEW c, Good(c), NEW a \in Artifact, NEW s \in Artifact \cup {None},
           NEW priv, NEW good \in BOOLEAN, NEW worth, NEW W,
           a \notin Real(c.db) /\ Caused(c.db, W) => Explained(c.db, a, None, good, W)
    PROVE  Grow(c, KeepFile(c, a, s, priv, good, worth), W)
<1> PICK d : d = IF s = None THEN c ELSE AfterGet(c, s)
  OBVIOUS
<1>1. Upkeep(c, d) /\ d.db = c.db
  <2>1. CASE s = None
    BY <2>1, UpkeepOfNothing
  <2>2. CASE s # None
    BY <2>2, GetStep
  <2> QED BY <2>1, <2>2
<1> PICK t \in Artifact \cup {None} : t = None
  OBVIOUS
<1> PICK e : e = ContentPut(d, a, t, priv, good, worth)
  OBVIOUS
<1>2. Grow(d, e, W)
  <2>1. Good(d)
    BY <1>1 DEF Upkeep
  <2>2. t # None => t \in Known(d.db) /\ t \in d.bag.missing
    OBVIOUS
  <2>3. a \notin Real(d.db) /\ Caused(d.db, W) => Explained(d.db, a, t, good, W)
    BY <1>1
  <2> HIDE <1>1
  <2> QED BY <2>1, <2>2, <2>3, ContentPutStep
<1>3. KeepFile(c, a, s, priv, good, worth) = e
  BY DEF KeepFile
<1>4. Grow(c, d, W)
  BY <1>1, GrowUpkeep
<1>5. Grow(c, e, W)
  BY <1>2, <1>4, GrowOfBoth
<1> QED BY <1>3, <1>5

LEMMA ReceivedStep ==
    ASSUME NEW c, Good(c), NEW a \in Artifact, NEW priv
    PROVE  Upkeep(c, Received(c, a, priv))
<1>1. Received(c, a, priv) \in {c, MakePublic(c, a)}
  BY DEF Received
<1> QED BY <1>1, UpkeepOfNothing, PublicStep

(* What makes a received file wrong: its bytes, a source that is not there *)
(* because it is shunned, or a source that is wrong itself.                *)
LEMMA ReceivedWrong ==
    ASSUME NEW c, Good(c), NEW a \in Artifact, NEW s \in Artifact \cup {None},
           s = None \/ <<a, s>> \in DeltaSource,
           NEW right \in BOOLEAN, NEW W, Caused(c.db, W), right \/ a \in W
    PROVE  /\ Explained(c.db, a, None, HashFits(c, s, right), W)
           /\ s # None => Explained(c.db, a, s, right, W)
           /\ s \in W \cap Artifact => Explained(c.db, a, None, FALSE, W)
<1>1. a \in SentFrom(a)
  BY SentFromIs
<1>2. right \/ SentFrom(a) \cap W # {}
  BY <1>1
<1>3. ASSUME ~HashFits(c, s, right) PROVE SentFrom(a) \cap W # {}
  <2>1. CASE ~right
    BY <1>2, <2>1
  <2>2. CASE s \in c.db.bad
    <3>1. s \in Artifact /\ SentFrom(s) \cap W # {}
      BY <2>2, GoodTypes DEF Tables, Caused
    <3> QED BY <3>1, SentFromSource, StoreAssumption
  <2> QED BY <1>3, <2>1, <2>2 DEF HashFits
<1>4. s \in W \cap Artifact => SentFrom(a) \cap W # {}
  BY SentFromSource, StoreAssumption
<1> QED BY <1>2, <1>3, <1>4 DEF Explained

LEMMA CrosslinkTextStep ==
    ASSUME NEW c, Good(c), NEW a \in Artifact, NEW good, NEW worth
    PROVE  Upkeep(c, CrosslinkText(c, a, good, worth))
<1>1. CrosslinkText(c, a, good, worth) \in {c, Crosslink(c, a, worth)}
  BY DEF CrosslinkText
<1> QED BY <1>1, UpkeepOfNothing, CrosslinkStep

LEMMA AcceptFromStep ==
    ASSUME NEW c, Good(c), NEW a \in Artifact, NEW s \in Artifact \cup {None},
           s = None \/ <<a, s>> \in DeltaSource,
           NEW priv, NEW right \in BOOLEAN, NEW worth, NEW W,
           right \/ a \in Real(c.db) \/ a \in W,
           s = None \/ s \in Known(c.db) \/ s \in W
    PROVE  Grow(c, AcceptFrom(c, a, s, priv, right, worth), W)
<1> PICK good \in BOOLEAN : good = HashFits(c, s, right)
  BY DEF HashFits
<1>1. CASE Dangling(c, s)
  <2> PICK rid \in Artifact \cup {None} : rid = RidOf(c, s)
    BY DEF RidOf, Known
  <2> PICK d : d = KeepDelta(c, a, rid, priv, right, worth)
    OBVIOUS
  <2>1. s # None /\ (rid # None => rid \in Known(c.db) /\ ~CanGet(c, rid))
    BY <1>1, StoreAssumption DEF Dangling, RidOf, Known
  <2>2. rid = s \/ (rid = None /\ s \in W \cap Artifact)
    BY <2>1 DEF RidOf
  <2>3. ASSUME a \notin Real(c.db), Caused(c.db, W)
        PROVE  Explained(c.db, a, rid, right /\ rid # None, W)
    <3>1. /\ s # None => Explained(c.db, a, s, right, W)
          /\ s \in W \cap Artifact => Explained(c.db, a, None, FALSE, W)
      BY <2>3, ReceivedWrong
    <3>2. CASE rid = s
      <4>1. (right /\ rid # None) = right
        BY <2>1, <3>2
      <4> QED BY <2>1, <3>1, <3>2, <4>1
    <3>3. CASE rid = None /\ s \in W \cap Artifact
      <4>1. (right /\ rid # None) = FALSE
        BY <3>3
      <4> QED BY <3>1, <3>3, <4>1
    <3> QED BY <2>2, <3>2, <3>3
  <2>4. Grow(c, d, W)
    BY <2>1, <2>3, KeepDeltaStep
  <2>5. Upkeep(d, Received(d, a, priv))
    BY <2>4, ReceivedStep DEF Grow
  <2>6. AcceptFrom(c, a, s, priv, right, worth) = Received(d, a, priv)
    BY <1>1 DEF AcceptFrom
  <2> QED BY <2>4, <2>5, <2>6, GrowUpkeep, GrowOfBoth
<1>2. CASE ~Dangling(c, s)
  <2> PICK d : d = KeepFile(c, a, s, priv, good, worth)
    OBVIOUS
  <2> PICK e : e = Received(d, a, priv)
    OBVIOUS
  <2> PICK f : f = CrosslinkText(e, a, good, worth)
    OBVIOUS
  <2>0. a \notin Real(c.db) /\ Caused(c.db, W) => Explained(c.db, a, None, good, W)
    BY ReceivedWrong
  <2>1. Grow(c, d, W)
    BY <2>0, KeepFileStep
  <2>2. Upkeep(d, e)
    BY <2>1, ReceivedStep DEF Grow
  <2>3. Upkeep(e, f)
    BY <2>2, CrosslinkTextStep DEF Upkeep
  <2>4. Upkeep(d, f)
    BY <2>2, <2>3, UpkeepOfBoth
  <2>5. AcceptFrom(c, a, s, priv, right, worth) = f
    BY <1>2 DEF AcceptFrom
  <2> QED BY <2>1, <2>4, <2>5, GrowUpkeep, GrowOfBoth
<1> QED BY <1>1, <1>2

LEMMA AcceptFileStep ==
    ASSUME NEW c, Good(c), NEW a \in Artifact, NEW s \in Artifact \cup {None},
           s = None \/ <<a, s>> \in DeltaSource,
           NEW priv, NEW right \in BOOLEAN, NEW worth, NEW W,
           right \/ a \in Real(c.db) \/ a \in W, shun \subseteq W
    PROVE  Grow(c, AcceptFile(c, a, s, priv, right, worth), W)
<1> PICK d : d = IF s = None THEN c ELSE Phantomize(c, s, priv)
  OBVIOUS
<1>1. Upkeep(c, d) /\ (s = None \/ s \in Known(d.db) \/ s \in W)
  <2>1. CASE s = None
    BY <2>1, UpkeepOfNothing
  <2>2. CASE s # None
    BY <2>2, PhantomizeStep
  <2> QED BY <2>1, <2>2
<1>2. Good(d) /\ Real(d.db) = Real(c.db)
  BY <1>1 DEF Upkeep
<1>3. Grow(d, AcceptFrom(d, a, s, priv, right, worth), W)
  BY <1>1, <1>2, AcceptFromStep
<1>4. AcceptFile(c, a, s, priv, right, worth) = AcceptFrom(d, a, s, priv, right, worth)
  BY DEF AcceptFile
<1> QED BY <1>1, <1>3, <1>4, GrowUpkeep, GrowOfBoth

-----------------------------------------------------------------------------
(* verify_at_commit(): the bags afterwards are made of what it has read.   *)
BagsRead(db, S) ==
    FoldSet(LAMBDA a, acc : AfterGet([db |-> db, bag |-> acc], a).bag, EmptyBags, S)

ReadBags(db) ==
    {b \in Bags : b.available \subseteq R(db) /\ b.missing \cap R(db) = {} /\ b.verify = {}}

LEMMA BagsReadStep ==
    ASSUME NEW db, DbGood(db), NEW S \in SUBSET Artifact
    PROVE  BagsRead(db, S) \in ReadBags(db)
<1> DEFINE T == S
           X == ReadBags(db)
           G == [p \in T \X X |-> AfterGet([db |-> db, bag |-> p[2]], p[1]).bag]
           Turns(f) == [s \in SUBSET T |->
                         IF s = {} THEN EmptyBags
                         ELSE AfterGet([db |-> db, bag |-> f[s \ {CHOOSE x \in s : TRUE}]], CHOOSE x \in s : TRUE).bag]
           iter == CHOOSE f : f = Turns(f)
<1>1. BagsRead(db, S) = iter[T]
  BY DEF BagsRead, FoldSet, MapThenFoldSet
<1>2. IsFiniteSet(T)
  BY StoreAssumption, FS_Subset
<1>3. EmptyBags \in X
  BY DEF ReadBags, EmptyBags, Bags
<1>4. ASSUME NEW x \in T, NEW d \in X PROVE AfterGet([db |-> db, bag |-> d], x).bag \in X
  <2> PICK c : c = [db |-> db, bag |-> d]
    OBVIOUS
  <2>1. c \in Contexts /\ c.db = db /\ c.bag = d
    BY DEF ReadBags, DbGood, Contexts
  <2>2. Good(c) /\ Fresh(c)
    BY <2>1 DEF Good, Fresh, ReadBags
  <2>3. /\ Upkeep(c, AfterGet(c, x)) /\ AfterGet(c, x).db = db
        /\ AfterGet(c, x).bag.verify = {}
    BY <2>1, <2>2, GetStep DEF ReadBags
  <2> QED BY <2>2, <2>3 DEF ReadBags, Upkeep, Good, Fresh, Contexts
<1> HIDE DEF T
<1>5. G \in [T \X X -> X]
  BY <1>4
<1>6. PICK f \in [SUBSET T -> X] : Folds(f, T, EmptyBags, G)
  <2> HIDE DEF X, G
  <2> QED BY <1>2, <1>3, <1>5, FoldExists
<1>7. f = Turns(f)
  <2>1. \A s \in SUBSET T : f[s] = IF s = {} THEN EmptyBags ELSE AfterGet([db |-> db, bag |-> f[s \ {Pick(s)}]], Pick(s)).bag
    <3> SUFFICES ASSUME NEW s \in SUBSET T, s # {}
                 PROVE  f[s] = AfterGet([db |-> db, bag |-> f[s \ {Pick(s)}]], Pick(s)).bag
      BY <1>6 DEF Folds
    <3>1. Pick(s) \in T /\ f[s \ {Pick(s)}] \in X
      BY <1>6, Picked
    <3>2. f[s] = G[<<Pick(s), f[s \ {Pick(s)}]>>]
      BY <1>6 DEF Folds
    <3> QED BY <3>1, <3>2
  <2> HIDE DEF X
  <2> QED BY <1>6, <2>1 DEF Pick
<1>8. iter = Turns(iter)
  <2> HIDE DEF Turns
  <2> QED BY <1>7
<1> HIDE DEF iter
<1>9. \A s \in SUBSET T : (s = {} \/ iter[s \ {Pick(s)}] \in X) => iter[s] \in X
  <2> SUFFICES ASSUME NEW s \in SUBSET T, s = {} \/ iter[s \ {Pick(s)}] \in X PROVE iter[s] \in X
    OBVIOUS
  <2>1. iter[s] = IF s = {} THEN EmptyBags ELSE AfterGet([db |-> db, bag |-> iter[s \ {Pick(s)}]], Pick(s)).bag
    BY <1>8 DEF Pick
  <2>2. CASE s = {}
    BY <1>3, <2>1, <2>2
  <2>3. CASE s # {}
    <3> PICK x \in T : x = Pick(s)
      BY <2>3, Picked
    <3> PICK d \in X : d = iter[s \ {Pick(s)}]
      BY <2>3
    <3>1. AfterGet([db |-> db, bag |-> d], x).bag \in X
      BY <1>4
    <3> QED BY <2>1, <2>3, <3>1
  <2> QED BY <2>2, <2>3
<1>10. iter[T] \in X
  <2> HIDE DEF X
  <2> QED BY <1>2, <1>9, FoldRange
<1> QED BY <1>1, <1>10
-----------------------------------------------------------------------------
(* The inductive invariant.  What the committed tables can read, and what  *)
(* of that is right, the writer's can too; of what cannot be read or is    *)
(* wrong, all has been committed unread or is still to be read back by the *)
(* process that stored it, which has registered its commit hook; and what  *)
(* is wrong has its cause.                                                 *)
BagsGood ==
    \A p \in Proc : /\ bag[p].available \subseteq R(View(p))
                    /\ bag[p].verify # {} => p \in hooked
ReadBack ==
    /\ Real(repo) \ I(repo) \subseteq unread
    /\ \A p \in Proc : writer = p => /\ p \in active
                                     /\ Real(work) \ I(work) \subseteq unread \cup bag[p].verify
CauseKnown ==
    Caused(repo, wrong \cup shun) /\ Caused(work, wrong \cup shun)
NothingMissed ==
    Alone => \A p \in active : bag[p].missing \cap R(View(p)) = {}

IInv ==
    /\ TypeOK
    /\ DbGood(repo) /\ DbGood(work) /\ R(repo) \subseteq R(work) /\ I(repo) \subseteq I(work)
    /\ BagsGood /\ ReadBack /\ CauseKnown /\ NothingMissed

Durable == \A a \in Artifact : Intact(repo, a) => Intact(repo', a)

Setting ==
    /\ UNCHANGED <<shun, private, sent, faulty, active>>
    /\ early' \in BOOLEAN /\ err' \in BOOLEAN
    /\ wrong \subseteq wrong' /\ wrong' \subseteq faulty

LEMMA MoreCauses ==
    ASSUME NEW db, NEW V, NEW W, V \subseteq W, Caused(db, V) PROVE Caused(db, W)
BY DEF Caused

(* The setting stays, and so does every cause.                             *)
LEMMA CausesStay ==
    ASSUME NEW db, Setting, Caused(db, wrong \cup shun)
    PROVE  Caused(db, wrong' \cup shun')
<1>1. wrong \cup shun \subseteq wrong' \cup shun'
  BY DEF Setting
<1> QED BY <1>1, MoreCauses

LEMMA ActiveProcs ==
    ASSUME TypeOK
    PROVE  active \subseteq Proc /\ sent \subseteq Artifact /\ faulty \subseteq Artifact
<1> PICK s \in Setup : s = [shun |-> shun, private |-> private, sent |-> sent,
                           faulty |-> faulty, active |-> active]
  BY DEF TypeOK
<1>1. s.active = active /\ s.sent = sent /\ s.faulty = faulty
  OBVIOUS
<1> QED BY <1>1, ContentAssumption

LEMMA TypeStays ==
    ASSUME TypeOK, Setting, repo' \in Tables, work' \in Tables, writer' \in Proc \cup {None},
           bag' \in [Proc -> Bags], hooked' \in SUBSET Proc, unread' \in SUBSET Artifact
    PROVE  TypeOK'
<1>1. [shun |-> shun', private |-> private', sent |-> sent', faulty |-> faulty',
       active |-> active'] \in Setup
  BY DEF TypeOK, Setting
<1>2. early' \in BOOLEAN /\ err' \in BOOLEAN /\ wrong' \in SUBSET faulty'
  BY DEF Setting
<1> QED BY <1>1, <1>2 DEF TypeOK

LEMMA EmptyIsGood == DbGood(EmptyTables) /\ EmptyBags \in Bags
<1>1. EmptyTables \in Tables /\ EmptyBags \in Bags
  BY DEF EmptyTables, EmptyBags, Tables, Bags
<1>2. Known(EmptyTables) = {} /\ Real(EmptyTables) = {} /\ \A x \in Artifact : EmptyTables.src[x] = None
  BY DEF EmptyTables, Known, Real
<1>3. EmptyTables.phantom = {}
  BY DEF EmptyTables
<1> QED BY <1>1, <1>2, <1>3 DEF DbGood

LEMMA InitIInv == Init => IInv
<1> SUFFICES ASSUME Init PROVE IInv
  OBVIOUS
<1>1. /\ DbGood(repo) /\ DbGood(work) /\ repo \in Tables /\ work \in Tables
      /\ R(repo) \subseteq R(work) /\ I(repo) \subseteq I(work)
  BY EmptyIsGood DEF Init, DbGood
<1>2. \A p \in Proc : bag[p] = EmptyBags
  BY DEF Init
<1>3. bag \in [Proc -> Bags]
  BY EmptyIsGood DEF Init
<1>4. TypeOK
  <2> PICK s \in Setup : /\ shun = s.shun /\ private = s.private /\ active = s.active
                        /\ sent = s.sent /\ faulty = s.faulty
    BY DEF Init
  <2>1. [shun |-> shun, private |-> private, sent |-> sent, faulty |-> faulty,
         active |-> active] = s
    BY ContentAssumption
  <2> QED BY <1>1, <1>3, <2>1 DEF TypeOK, Init
<1>5. BagsGood
  BY <1>2 DEF BagsGood, EmptyBags
<1>6. ReadBack /\ CauseKnown
  <2>1. repo.bad = {} /\ work.bad = {} /\ Real(repo) = {} /\ Real(work) = {}
    BY DEF Init, EmptyTables, Real
  <2>2. \A p \in Proc : writer # p
    BY ContentAssumption DEF Init
  <2> QED BY <2>1, <2>2 DEF ReadBack, CauseKnown, Caused
<1>7. NothingMissed
  BY <1>2, <1>4, ActiveProcs DEF NothingMissed, EmptyBags
<1> QED BY <1>1, <1>4, <1>5, <1>6, <1>7 DEF IInv

LEMMA ContextGood ==
    ASSUME IInv, NEW p \in Proc
    PROVE  Good(Context(p)) /\ Context(p).db = View(p) /\ Context(p).bag = bag[p]
<1>1. Context(p).db = View(p) /\ Context(p).bag = bag[p]
  BY DEF Context
<1>2. View(p) \in Tables /\ DbGood(View(p)) /\ bag[p] \in Bags
  BY DEF IInv, TypeOK, View
<1>3. Context(p) \in Contexts
  BY <1>2 DEF Context, Contexts
<1> QED BY <1>1, <1>2, <1>3 DEF Good, IInv, BagsGood

(* A process works in its transaction.                                     *)
LEMMA LeaveStep ==
    ASSUME IInv, NEW p \in active, NEW c, Leave(p, c), Setting,
           writer = p => Grow(Context(p), c, wrong' \cup shun')
    PROVE  IInv' /\ repo' = repo
<1>1. p \in Proc /\ writer = p /\ Grow(Context(p), c, wrong' \cup shun') /\ View(p) = work
  BY ActiveProcs DEF IInv, Leave, View
<1>2. Context(p).db = work /\ Context(p).bag = bag[p] /\ Good(Context(p))
  BY <1>1, ContextGood
<1>3. /\ Good(c) /\ R(work) \subseteq R(c.db) /\ bag[p].verify \subseteq c.bag.verify
      /\ I(work) \subseteq I(c.db) /\ Real(c.db) \ Real(work) \subseteq c.bag.verify
      /\ Caused(work, wrong' \cup shun') => Caused(c.db, wrong' \cup shun')
      /\ bag[p].missing \cap R(work) = {} => c.bag.missing \cap R(c.db) = {}
  BY <1>1, <1>2 DEF Grow, Fresh
<1>4. c.db \in Tables /\ c.bag \in Bags /\ DbGood(c.db) /\ c.bag.available \subseteq R(c.db)
  BY <1>3 DEF Good, Contexts
<1>5. /\ work' = c.db /\ repo' = repo /\ writer' = p
      /\ bag' = [bag EXCEPT ![p] = c.bag] /\ bag \in [Proc -> Bags]
      /\ hooked' = IF c.bag.verify # {} THEN hooked \cup {p} ELSE hooked
  BY DEF Leave, IInv, TypeOK
<1>6. bag'[p] = c.bag /\ \A q \in Proc : q # p => bag'[q] = bag[q] /\ View(q) = repo
  BY <1>1, <1>5 DEF View
<1>7. View(p)' = c.db /\ \A q \in Proc : q # p => View(q)' = repo
  BY <1>5 DEF View
<1>8. TypeOK'
  <2>1. /\ repo' \in Tables /\ work' \in Tables /\ writer' \in Proc \cup {None}
        /\ bag' \in [Proc -> Bags] /\ hooked' \in SUBSET Proc
    BY <1>1, <1>4, <1>5 DEF TypeOK, IInv
  <2>2. unread' \in SUBSET Artifact
    BY DEF Leave, TypeOK, IInv
  <2> QED BY <2>1, <2>2, TypeStays DEF IInv
<1>9. /\ R(repo') \subseteq R(work') /\ I(repo') \subseteq I(work')
      /\ DbGood(repo') /\ DbGood(work')
  BY <1>3, <1>4, <1>5 DEF IInv
<1>10. BagsGood'
  <2> SUFFICES ASSUME NEW q \in Proc
               PROVE  bag'[q].available \subseteq R(View(q)') /\ (bag'[q].verify # {} => q \in hooked')
    BY DEF BagsGood
  <2>1. CASE q = p
    BY <1>4, <1>5, <1>6, <1>7, <2>1
  <2>2. CASE q # p
    BY <1>5, <1>6, <1>7, <2>2 DEF IInv, BagsGood
  <2> QED BY <2>1, <2>2
<1>11. ReadBack'
  <2>1. /\ Real(repo) \ I(repo) \subseteq unread /\ p \in active
        /\ Real(work) \ I(work) \subseteq unread \cup bag[p].verify
    BY <1>1 DEF IInv, ReadBack
  <2>2. Real(c.db) \ I(c.db) \subseteq unread \cup c.bag.verify
    BY <1>3, <2>1
  <2>3. unread' = unread /\ active' = active
    BY DEF Leave, Setting
  <2> QED BY <1>5, <1>6, <2>1, <2>2, <2>3 DEF ReadBack
<1>13. CauseKnown'
  <2>1. Caused(repo, wrong' \cup shun') /\ Caused(work, wrong' \cup shun')
    BY CausesStay DEF IInv, CauseKnown
  <2> QED BY <1>3, <1>5, <2>1 DEF CauseKnown
<1>12. NothingMissed'
  <2> SUFFICES ASSUME Alone, NEW q \in active PROVE bag'[q].missing \cap R(View(q)') = {}
    BY DEF NothingMissed, Alone, Setting
  <2>1. q = p
    BY DEF Alone
  <2>2. bag[p].missing \cap R(work) = {}
    BY <1>1 DEF IInv, NothingMissed
  <2> QED BY <1>3, <1>6, <1>7, <2>1, <2>2
<1> QED BY <1>5, <1>8, <1>9, <1>10, <1>11, <1>12, <1>13 DEF IInv

LEMMA BeginStep ==
    ASSUME IInv, NEW p \in active, Begin(p), Setting
    PROVE  IInv' /\ repo' = repo
<1>1. /\ p \in Proc /\ writer = None /\ writer' = p /\ work' = repo /\ repo' = repo
      /\ bag' = bag /\ hooked' = hooked
  BY ActiveProcs DEF IInv, Begin
<1>2. \A q \in Proc : View(q) = repo /\ View(q)' = repo
  BY <1>1, ContentAssumption DEF View
<1>3. TypeOK'
  <2>1. /\ repo' \in Tables /\ work' \in Tables /\ writer' \in Proc \cup {None}
        /\ bag' \in [Proc -> Bags] /\ hooked' \in SUBSET Proc
    BY <1>1 DEF TypeOK, IInv
  <2>2. unread' \in SUBSET Artifact
    BY DEF Begin, TypeOK, IInv
  <2> QED BY <2>1, <2>2, TypeStays DEF IInv
<1>4. BagsGood' /\ NothingMissed'
  BY <1>1, <1>2, <1>3, ActiveProcs DEF IInv, BagsGood, NothingMissed, Setting, Alone
<1>5. ReadBack'
  BY <1>1 DEF IInv, ReadBack, Setting, Begin
<1>6. CauseKnown'
  BY <1>1, CausesStay DEF IInv, CauseKnown
<1> QED BY <1>1, <1>3, <1>4, <1>5, <1>6 DEF IInv

LEMMA GoneStep ==
    ASSUME IInv, NEW p \in active, Gone(p), Setting
    PROVE  IInv' /\ repo' = repo
<1>1. p \in Proc /\ p # None
  BY ActiveProcs, ContentAssumption DEF IInv
<1>2. /\ writer' = IF writer = p THEN None ELSE writer
      /\ work' = IF writer = p THEN repo ELSE work
      /\ bag' = [bag EXCEPT ![p] = EmptyBags] /\ bag \in [Proc -> Bags]
      /\ hooked' = hooked \ {p} /\ repo' = repo
  BY DEF Gone, IInv, TypeOK
<1>3. bag'[p] = EmptyBags /\ \A q \in Proc : q # p => bag'[q] = bag[q]
  BY <1>1, <1>2
<1>4. \A q \in Proc : q # p => View(q)' = View(q)
  BY <1>2, ContentAssumption DEF View
<1>5. TypeOK'
  <2>1. /\ repo' \in Tables /\ work' \in Tables /\ writer' \in Proc \cup {None}
        /\ bag' \in [Proc -> Bags] /\ hooked' \in SUBSET Proc
    BY <1>1, <1>2, EmptyIsGood DEF TypeOK, IInv
  <2>2. unread' \in SUBSET Artifact
    BY DEF Gone, TypeOK, IInv
  <2> QED BY <2>1, <2>2, TypeStays DEF IInv
<1>6. BagsGood'
  <2> SUFFICES ASSUME NEW q \in Proc
               PROVE  bag'[q].available \subseteq R(View(q)') /\ (bag'[q].verify # {} => q \in hooked')
    BY DEF BagsGood
  <2>1. CASE q = p
    BY <1>3, <2>1 DEF EmptyBags
  <2>2. CASE q # p
    BY <1>2, <1>3, <1>4, <2>2 DEF IInv, BagsGood
  <2> QED BY <2>1, <2>2
<1>7. ReadBack'
  <2>1. active' = active /\ unread' = unread
    BY DEF Setting, Gone
  <2>2. ASSUME NEW q \in Proc, writer' = q
        PROVE  q # p /\ writer = q /\ work' = work /\ bag'[q] = bag[q]
    BY <1>2, <1>3, <2>2, ContentAssumption
  <2>3. \A q \in Proc : writer' = q =>
           q \in active /\ Real(work') \ I(work') \subseteq unread \cup bag'[q].verify
    BY <2>2 DEF IInv, ReadBack
  <2>4. Real(repo) \ I(repo) \subseteq unread
    BY DEF IInv, ReadBack
  <2> QED BY <1>2, <2>1, <2>3, <2>4 DEF ReadBack
<1>10. CauseKnown'
  <2>1. Caused(repo, wrong' \cup shun') /\ Caused(work, wrong' \cup shun')
    BY CausesStay DEF IInv, CauseKnown
  <2> QED BY <1>2, <2>1 DEF CauseKnown
<1>8. NothingMissed'
  <2> SUFFICES ASSUME Alone, NEW q \in active PROVE bag'[q].missing \cap R(View(q)') = {}
    BY DEF NothingMissed, Alone, Setting
  <2>1. q = p
    BY DEF Alone
  <2> QED BY <1>3, <2>1 DEF EmptyBags
<1>9. /\ DbGood(repo') /\ DbGood(work')
      /\ R(repo') \subseteq R(work') /\ I(repo') \subseteq I(work')
  BY <1>2 DEF IInv
<1> QED BY <1>2, <1>5, <1>6, <1>7, <1>8, <1>9, <1>10 DEF IInv

LEMMA ReadStep ==
    ASSUME IInv, NEW p \in active, NEW a \in Artifact, Read(p, a), Setting
    PROVE  IInv' /\ repo' = repo
<1>1. p \in Proc
  BY ActiveProcs DEF IInv
<1> PICK c : c = Context(p)
  OBVIOUS
<1> PICK d : d = AfterGet(c, a)
  OBVIOUS
<1>2. /\ repo' = repo /\ work' = work /\ writer' = writer /\ hooked' = hooked
      /\ bag' = [bag EXCEPT ![p] = d.bag] /\ bag \in [Proc -> Bags]
  BY DEF Read, IInv, TypeOK
<1>3. Good(c) /\ c.db = View(p) /\ c.bag = bag[p]
  BY <1>1, ContextGood
<1>4. Upkeep(c, d) /\ d.db = c.db /\ d.bag.verify = c.bag.verify
  BY <1>3, GetStep
<1>5. /\ d.bag \in Bags /\ d.bag.available \subseteq R(View(p)) /\ d.bag.verify = bag[p].verify
      /\ bag[p].missing \cap R(View(p)) = {} => d.bag.missing \cap R(View(p)) = {}
  BY <1>3, <1>4 DEF Upkeep, Good, Contexts, Fresh
<1>6. bag'[p] = d.bag /\ \A q \in Proc : q # p => bag'[q] = bag[q]
  BY <1>1, <1>2
<1>7. \A q \in Proc : View(q)' = View(q)
  BY <1>2 DEF View
<1>8. TypeOK'
  <2>1. /\ repo' \in Tables /\ work' \in Tables /\ writer' \in Proc \cup {None}
        /\ bag' \in [Proc -> Bags] /\ hooked' \in SUBSET Proc
    BY <1>1, <1>2, <1>5 DEF TypeOK, IInv
  <2>2. unread' \in SUBSET Artifact
    BY DEF Read, TypeOK, IInv
  <2> QED BY <2>1, <2>2, TypeStays DEF IInv
<1>9. BagsGood'
  <2> SUFFICES ASSUME NEW q \in Proc
               PROVE  bag'[q].available \subseteq R(View(q)') /\ (bag'[q].verify # {} => q \in hooked')
    BY DEF BagsGood
  <2>1. CASE q = p
    BY <1>1, <1>2, <1>5, <1>6, <1>7, <2>1 DEF IInv, BagsGood
  <2>2. CASE q # p
    BY <1>2, <1>6, <1>7, <2>2 DEF IInv, BagsGood
  <2> QED BY <2>1, <2>2
<1>10. ReadBack' /\ CauseKnown'
  <2>1. \A q \in Proc : bag'[q].verify = bag[q].verify
    BY <1>5, <1>6
  <2>2. unread' = unread /\ active' = active
    BY DEF Read, Setting
  <2>3. ReadBack'
    BY <1>2, <2>1, <2>2 DEF IInv, ReadBack
  <2>4. CauseKnown'
    BY <1>2, CausesStay DEF IInv, CauseKnown
  <2> QED BY <2>3, <2>4
<1>11. NothingMissed'
  <2> SUFFICES ASSUME Alone, NEW q \in active PROVE bag'[q].missing \cap R(View(q)') = {}
    BY DEF NothingMissed, Alone, Setting
  <2>1. q = p
    BY DEF Alone
  <2>2. bag[p].missing \cap R(View(p)) = {}
    BY DEF IInv, NothingMissed
  <2> QED BY <1>1, <1>5, <1>6, <1>7, <2>1, <2>2
<1> QED BY <1>2, <1>8, <1>9, <1>10, <1>11 DEF IInv

(* The commit reads back what could be read, or panics.                    *)
LEMMA CommitReads ==
    ASSUME IInv, NEW p \in Proc, writer = p, ~VerifyFails(p), NEW a \in R(work) \cap work.bad
    PROVE  a \in unread
<1>1. a \in Artifact /\ Readable(work, a) /\ ~Intact(work, a) /\ work.src \in Sources
  BY DEF R, I, Intact, IInv, TypeOK, Tables, Sources
<1>2. a \in Chain(work, a) /\ Chain(work, a) \subseteq Real(work)
  BY <1>1, ChainClosed DEF Readable
<1>3. a \in unread \cup bag[p].verify
  BY <1>2 DEF IInv, ReadBack, I
<1>4. a \notin bag[p].verify
  BY <1>1 DEF VerifyFails, IInv, BagsGood
<1> QED BY <1>3, <1>4

LEMMA CommitStep ==
    ASSUME IInv, NEW p \in active, Commit(p), Setting
    PROVE  IInv' /\ Durable
<1>1. p \in Proc /\ p # None
  BY ActiveProcs, ContentAssumption DEF IInv
<1>2. /\ writer = p /\ writer' = None /\ repo' = work /\ work' = work /\ hooked' = hooked
      /\ bag' = [bag EXCEPT ![p] = BagAfterCommit(p)] /\ bag \in [Proc -> Bags]
  BY DEF Commit, IInv, TypeOK
<1>3. unread' = {a \in Real(work) : ~Readable(work, a)} \cup (unread \cap work.bad)
  BY DEF Commit
<1>4. View(p) = work /\ \A q \in Proc : View(q)' = work /\ R(View(q)) \subseteq R(work)
  BY <1>1, <1>2, ContentAssumption DEF View, IInv
<1> PICK b : b = BagAfterCommit(p)
  OBVIOUS
<1>5. /\ b \in Bags /\ b.available \subseteq R(work) /\ (b.verify # {} => p \in hooked)
      /\ bag[p].missing \cap R(work) = {} => b.missing \cap R(work) = {}
  <2>1. CASE p \notin hooked
    BY <1>1, <1>2, <1>4, <2>1 DEF BagAfterCommit, IInv, BagsGood
  <2>2. CASE p \in hooked
    <3> PICK db, S : db = work /\ S = bag[p].verify \cap Real(work)
      OBVIOUS
    <3>0. b = BagsRead(work, bag[p].verify \cap Real(work))
      BY <2>2 DEF BagAfterCommit, BagsRead
    <3>1. b = BagsRead(db, S)
      BY <3>0
    <3>2. S \in SUBSET Artifact /\ DbGood(db)
      BY DEF Real, IInv
    <3>3. b \in ReadBags(db)
      BY <3>1, <3>2, BagsReadStep
    <3> QED BY <2>2, <3>3 DEF ReadBags
  <2> QED BY <2>1, <2>2
<1>6. bag'[p] = b /\ \A q \in Proc : q # p => bag'[q] = bag[q]
  BY <1>1, <1>2
<1>7. TypeOK'
  <2>1. unread' \in SUBSET Artifact /\ work \in Tables
    BY <1>3 DEF Real, IInv, TypeOK
  <2>2. bag' \in [Proc -> Bags] /\ hooked \in SUBSET Proc
    BY <1>2, <1>5 DEF IInv, TypeOK
  <2> QED BY <1>2, <2>1, <2>2, TypeStays DEF IInv
<1>8. BagsGood'
  <2> SUFFICES ASSUME NEW q \in Proc
               PROVE  bag'[q].available \subseteq R(View(q)') /\ (bag'[q].verify # {} => q \in hooked')
    BY DEF BagsGood
  <2>1. CASE q = p
    BY <1>2, <1>4, <1>5, <1>6, <2>1
  <2>2. CASE q # p
    BY <1>2, <1>4, <1>6, <2>2 DEF IInv, BagsGood
  <2> QED BY <2>1, <2>2
<1>9. ReadBack' /\ CauseKnown'
  <2>1. \A q \in Proc : writer' # q
    BY <1>2, ContentAssumption
  <2>2. ASSUME NEW a \in Real(work), a \notin I(work) PROVE a \in unread'
    <3>1. a \in Artifact
      BY DEF Real
    <3>2. CASE a \in R(work)
      <4>1. a \in R(work) \cap work.bad
        BY <2>2, <3>2 DEF I
      <4>2. a \in unread
        BY <1>1, <1>2, <4>1, CommitReads DEF Commit
      <4> QED BY <1>3, <4>1, <4>2
    <3>3. CASE a \notin R(work)
      BY <1>3, <3>1, <3>3 DEF R
    <3> QED BY <3>2, <3>3
  <2>3. ReadBack'
    BY <1>2, <2>1, <2>2 DEF ReadBack
  <2>4. CauseKnown'
    BY <1>2, CausesStay DEF IInv, CauseKnown
  <2> QED BY <2>3, <2>4
<1>10. NothingMissed'
  <2> SUFFICES ASSUME Alone, NEW q \in active PROVE bag'[q].missing \cap R(View(q)') = {}
    BY DEF NothingMissed, Alone, Setting
  <2>1. q = p
    BY DEF Alone
  <2>2. bag[p].missing \cap R(work) = {}
    BY <1>4 DEF IInv, NothingMissed
  <2> QED BY <1>1, <1>4, <1>5, <1>6, <2>1, <2>2
<1>11. IInv'
  BY <1>2, <1>7, <1>8, <1>9, <1>10 DEF IInv
<1>12. Durable
  <2> SUFFICES ASSUME NEW a \in Artifact, Intact(repo, a) PROVE Intact(repo', a)
    BY DEF Durable
  <2>1. a \in I(repo)
    BY DEF Intact, R, I
  <2>2. a \in I(work)
    BY <2>1 DEF IInv
  <2> QED BY <1>2, <2>2 DEF Intact, R, I
<1> QED BY <1>11, <1>12

-----------------------------------------------------------------------------
LEMMA PublishStep ==
    ASSUME IInv, NEW p \in active, NEW a \in Artifact, Publish(p, a), Setting
    PROVE  IInv' /\ repo' = repo
<1>1. p \in Proc
  BY ActiveProcs DEF IInv
<1> PICK c : c = Context(p)
  OBVIOUS
<1> PICK d : d = MakePublic(c, a)
  OBVIOUS
<1> PICK e : e = [d EXCEPT !.db.unclustered = @ \cup {a}]
  OBVIOUS
<1>2. Good(c)
  BY <1>1, ContextGood
<1>3. Upkeep(c, d)
  BY <1>2, PublicStep
<1>4. Upkeep(d, e)
  BY <1>3, UnclusteredStep DEF Upkeep
<1>5. Grow(c, e, wrong' \cup shun')
  BY <1>3, <1>4, UpkeepOfBoth, GrowUpkeep
<1>6. Leave(p, e)
  BY DEF Publish
<1> QED BY <1>5, <1>6, LeaveStep

LEMMA RedeltifyStep ==
    ASSUME IInv, NEW p \in active, NEW a \in Artifact, NEW s \in Artifact, NEW force, NEW worth,
           Redeltify(p, a, s, force, worth), Setting
    PROVE  IInv' /\ repo' = repo
<1>1. p \in Proc
  BY ActiveProcs DEF IInv
<1> PICK c : c = Context(p)
  OBVIOUS
<1> PICK d : d = Deltify(c, a, s, force, worth)
  OBVIOUS
<1>2. Good(c)
  BY <1>1, ContextGood
<1>3. Upkeep(c, d)
  BY <1>2, DeltifyStep
<1>4. Grow(c, d, wrong' \cup shun') /\ Leave(p, d)
  BY <1>3, GrowUpkeep DEF Redeltify
<1> QED BY <1>4, LeaveStep

LEMMA ReceiveFileStep ==
    ASSUME IInv, NEW p \in active, NEW a \in Artifact, NEW s \in Artifact \cup {None},
           NEW priv, NEW right \in BOOLEAN, NEW worth,
           ReceiveFile(p, a, s, priv, right, worth), Setting
    PROVE  IInv' /\ repo' = repo
<1>1. p \in Proc
  BY ActiveProcs DEF IInv
<1> PICK c : c = Context(p)
  OBVIOUS
<1> PICK d : d = AcceptFile(c, a, s, priv, right, worth)
  OBVIOUS
<1> PICK W : W = wrong' \cup shun'
  OBVIOUS
<1>2. Good(c)
  BY <1>1, ContextGood
<1>3. /\ s = None \/ <<a, s>> \in DeltaSource
      /\ right \/ a \in Real(c.db) \/ a \in W
      /\ shun \subseteq W
  BY DEF ReceiveFile, Setting
<1>4. Grow(c, d, W)
  BY <1>2, <1>3, AcceptFileStep
<1>5. Leave(p, d)
  BY DEF ReceiveFile
<1> QED BY <1>4, <1>5, LeaveStep

LEMMA ReceiveIgotStep ==
    ASSUME IInv, NEW p \in active, NEW a \in Artifact, NEW priv, NEW may,
           ReceiveIgot(p, a, priv, may), Setting
    PROVE  IInv' /\ repo' = repo
<1>1. p \in Proc
  BY ActiveProcs DEF IInv
<1> PICK c : c = Context(p)
  OBVIOUS
<1> PICK d : d = IF priv /\ ~may THEN c ELSE Phantomize(c, a, priv)
  OBVIOUS
<1> PICK e : e = IF a \notin Known(d.db) THEN d
                 ELSE IF priv THEN MakePrivate(d, a) ELSE MakePublic(d, a)
  OBVIOUS
<1>2. Good(c)
  BY <1>1, ContextGood
<1>3. Upkeep(c, d)
  <2>1. d \in {c, Phantomize(c, a, priv)}
    OBVIOUS
  <2> QED BY <1>2, <2>1, UpkeepOfNothing, PhantomizeStep
<1>4. Upkeep(d, e)
  <2>1. e \in {d, MakePrivate(d, a), MakePublic(d, a)}
    OBVIOUS
  <2>2. Good(d)
    BY <1>3 DEF Upkeep
  <2> QED BY <2>1, <2>2, UpkeepOfNothing, PrivateStep, PublicStep
<1>5. Grow(c, e, wrong' \cup shun')
  BY <1>3, <1>4, UpkeepOfBoth, GrowUpkeep
<1>6. Leave(p, e)
  BY DEF ReceiveIgot
<1> QED BY <1>5, <1>6, LeaveStep

LEMMA NextIInv == IInv /\ [Next]_vars => IInv' /\ (Durable \/ UNCHANGED vars)
<1> SUFFICES ASSUME IInv, [Next]_vars PROVE IInv' /\ (Durable \/ UNCHANGED vars)
  OBVIOUS
<1>1. repo' = repo => Durable
  BY DEF Durable
<1>2. CASE UNCHANGED vars
  <2>1. /\ repo' = repo /\ work' = work /\ writer' = writer /\ bag' = bag /\ hooked' = hooked
        /\ shun' = shun /\ private' = private /\ sent' = sent /\ active' = active
        /\ faulty' = faulty /\ err' = err /\ early' = early /\ wrong' = wrong /\ unread' = unread
    BY <1>2 DEF vars, setting
  <2>2. TypeOK'
    BY <2>1 DEF IInv, TypeOK
  <2>3. BagsGood' /\ ReadBack' /\ NothingMissed'
    BY <2>1 DEF IInv, BagsGood, ReadBack, NothingMissed, Alone, View
  <2>4. CauseKnown'
    BY <2>1 DEF IInv, CauseKnown
  <2> QED BY <1>2, <2>1, <2>2, <2>3, <2>4 DEF IInv
<1>3. CASE Next
  <2>1. UNCHANGED <<shun, private, sent, faulty, active>>
    BY <1>3 DEF Next, setting
  <2>2. PICK p \in active :
      \/ Begin(p) \/ Commit(p) \/ VerifyPanic(p) \/ Stop(p)
      \/ \E a \in Artifact :
           \/ Publish(p, a) \/ Read(p, a)
           \/ \E isPriv, may \in Flag : ReceiveIgot(p, a, isPriv, may)
           \/ \E s \in Artifact \cup {None}, worth \in {{}, Artifact} :
                \E flag \in Flag, right \in BOOLEAN :
                   ReceiveFile(p, a, s, flag, right, worth)
           \/ \E s \in Artifact, force \in BOOLEAN :
                Redeltify(p, a, s, force, Artifact)
    BY <1>3 DEF Next
  <2> early \in BOOLEAN /\ err \in BOOLEAN /\ wrong \subseteq faulty
    BY DEF IInv, TypeOK
  <2>3. CASE Begin(p)
    <3>1. Setting
      BY <2>1, <2>3 DEF Setting, Begin
    <3> QED BY <1>1, <2>3, <3>1, BeginStep
  <2>4. CASE Commit(p)
    <3>1. Setting
      BY <2>1, <2>4 DEF Setting, Commit
    <3> QED BY <2>4, <3>1, CommitStep
  <2>5. CASE VerifyPanic(p) \/ Stop(p)
    <3>1. Setting /\ Gone(p)
      BY <2>1, <2>5 DEF Setting, VerifyPanic, Stop, Gone
    <3> QED BY <1>1, <3>1, GoneStep
  <2>6. ASSUME NEW a \in Artifact, Publish(p, a) \/ Read(p, a)
        PROVE  IInv' /\ Durable
    <3>1. Setting
      BY <2>1, <2>6 DEF Setting, Publish, Read
    <3> QED BY <1>1, <2>6, <3>1, PublishStep, ReadStep
  <2>7. ASSUME NEW a \in Artifact, NEW priv \in Flag, NEW may \in Flag, ReceiveIgot(p, a, priv, may)
        PROVE  IInv' /\ Durable
    <3>1. Setting
      BY <2>1, <2>7 DEF Setting, ReceiveIgot
    <3> QED BY <1>1, <2>7, <3>1, ReceiveIgotStep
  <2>8. ASSUME NEW a \in Artifact, NEW s \in Artifact \cup {None}, NEW worth \in {{}, Artifact},
               NEW flag \in Flag, NEW right \in BOOLEAN, ReceiveFile(p, a, s, flag, right, worth)
        PROVE  IInv' /\ Durable
    <3>1. Setting
      <4>1. early' \in BOOLEAN /\ err' \in BOOLEAN
        BY <2>8 DEF ReceiveFile, LinksEarly
      <4>2. wrong \subseteq wrong' /\ wrong' \subseteq faulty
        BY <2>8 DEF ReceiveFile
      <4> QED BY <2>1, <4>1, <4>2 DEF Setting
    <3> QED BY <1>1, <2>8, <3>1, ReceiveFileStep
  <2>9. ASSUME NEW a \in Artifact, NEW s \in Artifact, NEW force \in BOOLEAN,
               Redeltify(p, a, s, force, Artifact)
        PROVE  IInv' /\ Durable
    <3>1. Setting
      BY <2>1, <2>9 DEF Setting, Redeltify
    <3> QED BY <1>1, <2>9, <3>1, RedeltifyStep
  <2> QED BY <2>2, <2>3, <2>4, <2>5, <2>6, <2>7, <2>8, <2>9
<1> QED BY <1>2, <1>3

LEMMA Inductive == Spec => []IInv
<1>1. IInv /\ [Next]_vars => IInv'
  BY NextIInv
<1> QED BY InitIInv, <1>1, PTL DEF Spec

-----------------------------------------------------------------------------
(* Every state has its type: what the operators on tables and bags leave   *)
(* behind are tables and bags.                                             *)
THEOREM ContentTyped == Spec => []TypeOK
<1>1. IInv => TypeOK
  BY DEF IInv
<1> QED BY Inductive, <1>1, PTL

(* The phantom table is exact, what the cache of content.c believes to be  *)
(* available can be extracted, and what it believes to be missing cannot,  *)
(* as long as no other process can store it.                               *)
THEOREM CachesAreRight == Spec => []CachesAgree
<1>1. IInv => CachesAgree
  <2> SUFFICES ASSUME IInv PROVE CachesAgree
    OBVIOUS
  <2>1. PhantomTableExact
    BY DEF IInv, DbGood, PhantomTableExact
  <2>2. ASSUME NEW p \in active PROVE \A a \in bag[p].available : Readable(View(p), a)
    BY ActiveProcs DEF IInv, BagsGood, R
  <2>3. ASSUME NEW p \in active, Alone PROVE \A a \in bag[p].missing : ~Readable(View(p), a)
    <3>1. bag[p].missing \subseteq Artifact
      BY ActiveProcs DEF IInv, TypeOK, Bags
    <3> QED BY <2>3, <3>1 DEF IInv, NothingMissed, R
  <2> QED BY <2>1, <2>2, <2>3 DEF CachesAgree
<1> QED BY Inductive, <1>1, PTL

(* Whatever makes the verification of verify.c:48 panic, a peer's bytes or *)
(* a shunned source are at the bottom of it: no deltify, undelta, receipt, *)
(* rollback or kill turns content that is right into content that is wrong.*)
THEOREM WrongContentHasACause == Spec => []WrongHasCause
<1>1. IInv => WrongHasCause
  <2> SUFFICES ASSUME IInv, NEW db \in {repo, work}, NEW a \in Artifact,
                      Readable(db, a), ~Intact(db, a)
               PROVE  SentFrom(a) \cap (wrong \cup shun) # {}
    BY DEF WrongHasCause
  <2>1. Caused(db, wrong \cup shun) /\ a \in db.bad
    BY DEF IInv, CauseKnown, Intact
  <2> QED BY <2>1 DEF Caused
<1> QED BY Inductive, <1>1, PTL

(* Whatever bytes peers send, what a committed repository can extract is   *)
(* right, unless it was committed once before it could be extracted.       *)
THEOREM CommitsReadBack == Spec => []ReadBackIsRight
<1>1. IInv => ReadBackIsRight
  <2> SUFFICES ASSUME IInv, NEW a \in Artifact, Readable(repo, a), ~Intact(repo, a)
               PROVE  a \in unread
    BY DEF ReadBackIsRight
  <2>1. repo.src \in Sources
    BY DEF IInv, TypeOK, Tables, Sources
  <2>2. a \in Real(repo)
    BY <2>1, ReadableIsReal DEF R
  <2> QED BY <2>2 DEF IInv, ReadBack, I, Intact
<1> QED BY Inductive, <1>1, PTL

(* What can be extracted intact after a commit can be so ever after.       *)
THEOREM ContentStays == Spec => ContentIsDurable
<1>1. IInv /\ [Next]_vars => [Durable]_vars
  BY NextIInv
<1> QED BY Inductive, <1>1, PTL DEF Spec, ContentIsDurable, Durable

-----------------------------------------------------------------------------
(* Which manifests are linked.  While after_dephantomize() walks, U is what *)
(* it has not come to yet (deltas of members of U, or of the level at), P  *)
(* what need not be settled yet, and V the baselines whose delta-manifests *)
(* it will still look at.  What is wrong, or waits for something wrong, is *)
(* no manifest; the rows that wait for something wrong may be gone.        *)
Settled(db, o, V) ==
    \/ o \in db.linked
    \/ /\ Baseline[o] # None
       /\ Baseline[o] \in I(db) => Baseline[o] \in V
       /\ \/ \E row \in db.orphan : row[1] = o
          \/ Baseline[o] \in R(db) \cap db.bad

RowGood(db, U, row) ==
    /\ row[1] \in I(db) /\ Baseline[row[1]] # None
    /\ row[2] = Baseline[row[1]] \/ (row[2] = None /\ Baseline[row[1]] \in shun)
    /\ row[2] \in Known(db) \cup {None}
    /\ row[1] \in U => row[2] \notin I(db)

Links(db, U, at, P, V) ==
    /\ Real(db) \cap shun = {} /\ db.bad \subseteq Real(db)
    /\ db.mlink \subseteq db.linked /\ db.linked \subseteq I(db)
    /\ U \subseteq R(db) \ db.linked /\ at \subseteq R(db)
    /\ \A x \in U : db.src[x] \in U \cup at
    /\ \A row \in db.orphan : RowGood(db, U, row)
    /\ \A o \in I(db) \ P : Settled(db, o, V)

LEMMA SameLinks ==
    ASSUME NEW db, NEW e, NEW U, NEW at, NEW P, NEW V, Links(db, U, at, P, V),
           R(e) = R(db), Real(e) = Real(db), Known(db) \subseteq Known(e),
           e.bad = db.bad, e.orphan = db.orphan, e.linked = db.linked, e.mlink = db.mlink,
           \A x \in U : e.src[x] = db.src[x]
    PROVE  Links(e, U, at, P, V)
<1>1. I(e) = I(db)
  BY DEF I
<1>2. \A row \in e.orphan : RowGood(e, U, row)
  BY <1>1 DEF Links, RowGood
<1>3. \A o \in I(e) \ P : Settled(e, o, V)
  BY <1>1 DEF Links, Settled
<1> QED BY <1>1, <1>2, <1>3 DEF Links

(* More may be unsettled.                                                  *)
LEMMA MoreLinks ==
    ASSUME NEW db, NEW U, NEW at, NEW P, NEW V, NEW Q, NEW W, P \subseteq Q, V \subseteq W,
           Links(db, U, at, P, V)
    PROVE  Links(db, U, at, Q, W)
BY DEF Links, Settled

(* No bag takes for missing what is there: then the functions that read an *)
(* artifact can do so if it is there.                                      *)
Clear(c) == Good(c) /\ Fresh(c)

LEMMA ClearUpkeep ==
    ASSUME NEW c, NEW d, Clear(c), Upkeep(c, d)
    PROVE  /\ Clear(d) /\ R(d.db) = R(c.db) /\ Real(d.db) = Real(c.db)
           /\ Known(c.db) \subseteq Known(d.db)
           /\ d.db.bad = c.db.bad /\ I(d.db) = I(c.db)
BY DEF Clear, Upkeep, I

LEMMA ParsedIs ==
    ASSUME NEW c, Clear(c), NEW x \in Artifact
    PROVE  (CanGet(c, x) <=> x \in R(c.db)) /\ (Parsed(c, x) <=> x \in I(c.db))
<1>1. Good(c) /\ c.db.src \in Sources /\ c.bag.missing \cap R(c.db) = {}
  BY GoodTypes DEF Clear, Fresh
<1>2. ASSUME x \in R(c.db) PROVE CanGet(c, x)
  <2>1. Base(c.db, x) \in R(c.db)
    BY <1>1, <1>2, BaseIs
  <2>2. Readable(c.db, x)
    BY <1>2 DEF R
  <2> QED BY <1>1, <1>2, <2>1, <2>2 DEF CanGet
<1>3. CanGet(c, x) => x \in R(c.db)
  BY DEF CanGet, R
<1>4. Intact(c.db, x) <=> x \in I(c.db)
  BY DEF Intact, I, R
<1> QED BY <1>2, <1>3, <1>4 DEF Parsed, I

LEMMA BaselineOkIs ==
    ASSUME NEW c, Clear(c), NEW x \in Artifact
    PROVE  BaselineOk(c, x) <=> (Baseline[x] = None \/ Baseline[x] \in I(c.db))
<1>1. Known(c.db) \subseteq Artifact /\ I(c.db) \subseteq Known(c.db)
  BY GoodTypes DEF Clear, I
<1>2. CASE Baseline[x] = None
  BY <1>2 DEF BaselineOk
<1>3. CASE Baseline[x] # None
  <2> PICK b \in Artifact : b = Baseline[x]
    BY <1>3, StoreAssumption
  <2>1. Parsed(c, b) <=> b \in I(c.db)
    BY ParsedIs
  <2> QED BY <1>1, <1>3, <2>1 DEF BaselineOk
<1> QED BY <1>2, <1>3

(* A step that leaves the contents alone and keeps the links.              *)
Linking(c, U, at, P, V) == Clear(c) /\ Links(c.db, U, at, P, V)
Proceeds(c, d, U, at, P, V) ==
    Upkeep(c, d) /\ c.db.linked \subseteq d.db.linked /\ Linking(d, U, at, P, V)

LEMMA ProceedsOfNothing ==
    ASSUME NEW c, NEW U, NEW at, NEW P, NEW V, Linking(c, U, at, P, V)
    PROVE  Proceeds(c, c, U, at, P, V)
BY UpkeepOfNothing DEF Proceeds, Linking, Clear

LEMMA ProceedsOfBoth ==
    ASSUME NEW c, NEW d, NEW e, NEW U, NEW at, NEW P, NEW V, NEW Q, NEW W,
           Proceeds(c, d, U, at, P, V), Proceeds(d, e, U, at, Q, W)
    PROVE  Proceeds(c, e, U, at, Q, W)
BY UpkeepOfBoth DEF Proceeds

(* Steps that touch neither links nor the sources of U.                    *)
LEMMA ProceedsAside ==
    ASSUME NEW c, NEW d, NEW U, NEW at, NEW P, NEW V, Linking(c, U, at, P, V), Upkeep(c, d),
           d.db.orphan = c.db.orphan, d.db.linked = c.db.linked, d.db.mlink = c.db.mlink,
           \A x \in U : d.db.src[x] = c.db.src[x]
    PROVE  Proceeds(c, d, U, at, P, V)
<1>1. /\ Clear(d) /\ R(d.db) = R(c.db) /\ Real(d.db) = Real(c.db)
      /\ Known(c.db) \subseteq Known(d.db) /\ d.db.bad = c.db.bad
  BY ClearUpkeep DEF Linking
<1>2. Links(d.db, U, at, P, V)
  BY <1>1, SameLinks DEF Linking
<1> QED BY <1>1, <1>2 DEF Proceeds, Linking

LEMMA GetProceeds ==
    ASSUME NEW c, NEW U, NEW at, NEW P, NEW V, Linking(c, U, at, P, V), NEW a \in Artifact
    PROVE  Proceeds(c, AfterGet(c, a), U, at, P, V)
<1> PICK d : d = AfterGet(c, a)
  OBVIOUS
<1>1. Upkeep(c, d) /\ d.db = c.db
  BY GetStep DEF Linking, Clear
<1> QED BY <1>1, ProceedsAside

LEMMA PhantomizeProceeds ==
    ASSUME NEW c, NEW U, NEW at, NEW P, NEW V, Linking(c, U, at, P, V), NEW a \in Artifact, NEW priv
    PROVE  /\ Proceeds(c, Phantomize(c, a, priv), U, at, P, V)
           /\ a \in Known(Phantomize(c, a, priv).db) \/ a \in shun
           /\ a \in Known(c.db) => Phantomize(c, a, priv) = c
<1> PICK d : d = Phantomize(c, a, priv)
  OBVIOUS
<1>1. Good(c) /\ c \in Contexts
  BY GoodTypes DEF Linking, Clear
<1>2. Upkeep(c, d)
  BY <1>1, PhantomizeStep
<1>3. CASE a \in Known(c.db) \/ a \in shun
  <2>1. d = c
    BY <1>3 DEF Phantomize, ContentNew
  <2> QED BY <1>3, <2>1, ProceedsOfNothing
<1>4. CASE a \notin Known(c.db) /\ a \notin shun
  <2>1. d = ContentNew(c, a, priv)
    BY <1>4 DEF Phantomize
  <2>2. d.db.size = [c.db.size EXCEPT ![a] = "phantom"] /\ d.db.src = c.db.src
    BY <1>1, <1>4, <2>1, ContentNewIs
  <2>3. d.db.orphan = c.db.orphan /\ d.db.linked = c.db.linked /\ d.db.mlink = c.db.mlink
    <3> PICK X, Y : /\ X = IF priv THEN c.db.private \cup {a} ELSE c.db.private
                    /\ Y = IF priv THEN c.db.unclustered ELSE c.db.unclustered \cup {a}
      OBVIOUS
    <3> PICK e : e = [c EXCEPT !.db.size[a] = "phantom", !.db.phantom = @ \cup {a},
                               !.db.private = X, !.db.unclustered = Y,
                               !.bag.missing = @ \cup {a}]
      OBVIOUS
    <3>1. e.db.orphan = c.db.orphan /\ e.db.linked = c.db.linked /\ e.db.mlink = c.db.mlink
      BY <1>1 DEF Contexts, Tables
    <3>2. ContentNew(c, a, priv) = e
      BY <1>4 DEF ContentNew
    <3> QED BY <2>1, <3>1, <3>2
  <2>4. a \in Known(d.db)
    BY <1>1, <2>2 DEF Known, Contexts, Tables
  <2>5. Proceeds(c, d, U, at, P, V)
    BY <1>2, <2>2, <2>3, ProceedsAside
  <2> QED BY <1>4, <2>4, <2>5
<1> QED BY <1>3, <1>4

LEMMA PublicProceeds ==
    ASSUME NEW c, NEW U, NEW at, NEW P, NEW V, Linking(c, U, at, P, V), NEW a \in Artifact
    PROVE  Proceeds(c, MakePublic(c, a), U, at, P, V) /\ Proceeds(c, MakePrivate(c, a), U, at, P, V)
<1>1. Good(c) /\ c \in Contexts
  BY GoodTypes DEF Linking, Clear
<1> PICK d : d = MakePublic(c, a)
  OBVIOUS
<1> PICK e : e = MakePrivate(c, a)
  OBVIOUS
<1>2. /\ d.db.orphan = c.db.orphan /\ d.db.linked = c.db.linked /\ d.db.mlink = c.db.mlink
      /\ d.db.src = c.db.src
  BY <1>1 DEF MakePublic, Contexts, Tables
<1>3. /\ e.db.orphan = c.db.orphan /\ e.db.linked = c.db.linked /\ e.db.mlink = c.db.mlink
      /\ e.db.src = c.db.src
  BY <1>1 DEF MakePrivate, Contexts, Tables
<1>4. Upkeep(c, d) /\ Upkeep(c, e)
  BY <1>1, PublicStep, PrivateStep
<1> QED BY <1>2, <1>3, <1>4, ProceedsAside

(* content_undelta() and content_deltify() change sources only, that of s  *)
(* or that of a, the latter only if it has none or by force.               *)
LEMMA UndeltaKeeps ==
    ASSUME NEW c, Good(c), NEW s \in Artifact
    PROVE  LET d == Undelta(c, s) IN
           /\ d.db.orphan = c.db.orphan /\ d.db.linked = c.db.linked /\ d.db.mlink = c.db.mlink
           /\ \A x \in Artifact : d.db.src[x] = c.db.src[x] \/ x = s
<1> PICK d : d = AfterGet(c, s)
  OBVIOUS
<1> PICK e : e = [d EXCEPT !.db.src[s] = None]
  OBVIOUS
<1>1. d.db = c.db /\ d \in Contexts
  BY GetStep, GoodTypes DEF Upkeep
<1>2. /\ e.db.orphan = c.db.orphan /\ e.db.linked = c.db.linked /\ e.db.mlink = c.db.mlink
      /\ e.db.src = [c.db.src EXCEPT ![s] = None]
  BY <1>1 DEF Contexts, Tables
<1>3. Undelta(c, s) \in {c, d, e}
  BY DEF Undelta
<1>4. \A x \in Artifact : x # s => e.db.src[x] = c.db.src[x]
  BY <1>2, GoodTypes DEF Sources
<1> PICK f : f = Undelta(c, s)
  OBVIOUS
<1>5. f \in {c, d, e}
  BY <1>3
<1>6. /\ f.db.orphan = c.db.orphan /\ f.db.linked = c.db.linked /\ f.db.mlink = c.db.mlink
      /\ \A x \in Artifact : f.db.src[x] = c.db.src[x] \/ x = s
  BY <1>1, <1>2, <1>4, <1>5
<1> QED BY <1>6

LEMMA DeltifyKeeps ==
    ASSUME NEW c, Good(c), NEW a \in Artifact, NEW s \in Artifact, NEW force, NEW worth
    PROVE  LET d == Deltify(c, a, s, force, worth) IN
           /\ d.db.orphan = c.db.orphan /\ d.db.linked = c.db.linked /\ d.db.mlink = c.db.mlink
           /\ \A x \in Artifact : \/ d.db.src[x] = c.db.src[x]
                                 \/ x = s
                                 \/ (x = a /\ (force \/ c.db.src[a] = None))
<1> PICK c1 : c1 = AfterIsAvailable(c, a)
  OBVIOUS
<1> PICK c2 : c2 = AfterGet(c1, a)
  OBVIOUS
<1> PICK c3 : c3 = AfterGet(c2, s)
  OBVIOUS
<1> PICK c4 : c4 = Undelta(c2, s)
  OBVIOUS
<1> PICK e : e = [c3 EXCEPT !.db.src[a] = s, !.bag.verify = @ \cup {a}]
  OBVIOUS
<1>1. c1.db = c.db /\ Good(c1)
  BY IsAvailableStep DEF Upkeep
<1>2. c2.db = c.db /\ Good(c2)
  BY <1>1, GetStep DEF Upkeep
<1>3. c3.db = c.db /\ Good(c3) /\ c3 \in Contexts
  <2>1. c3.db = c.db /\ Good(c3)
    BY <1>2, GetStep DEF Upkeep
  <2> QED BY <2>1, GoodTypes
<1>4. /\ c4.db.orphan = c.db.orphan /\ c4.db.linked = c.db.linked /\ c4.db.mlink = c.db.mlink
      /\ \A x \in Artifact : c4.db.src[x] = c.db.src[x] \/ x = s
  BY <1>2, UndeltaKeeps
<1>5. /\ e.db.orphan = c.db.orphan /\ e.db.linked = c.db.linked /\ e.db.mlink = c.db.mlink
      /\ e.db.src = [c.db.src EXCEPT ![a] = s]
  BY <1>3 DEF Contexts, Tables
<1>6. DeltifyTo(c2, a, s, worth) \in {c2, c3, c4, e}
  BY DEF DeltifyTo
<1> PICK d : d = Deltify(c, a, s, force, worth)
  OBVIOUS
<1>7. CASE d = c \/ d = c1
  <2>1. d.db = c.db
    BY <1>1, <1>7
  <2> QED BY <2>1
<1>8. CASE d \in {c2, c3, c4, e} /\ (force \/ c.db.src[a] = None)
  <2>1. \A x \in Artifact : x # a => e.db.src[x] = c.db.src[x]
    BY <1>5, GoodTypes DEF Sources
  <2>2. /\ d.db.orphan = c.db.orphan /\ d.db.linked = c.db.linked /\ d.db.mlink = c.db.mlink
        /\ \A x \in Artifact : d.db.src[x] = c.db.src[x] \/ x = s \/ x = a
    <3>1. CASE d \in {c2, c3}
      <4>1. d.db = c.db
        BY <1>2, <1>3, <3>1
      <4> QED BY <4>1
    <3>2. CASE d = c4
      BY <1>4, <3>2
    <3>3. CASE d = e
      BY <1>5, <2>1, <3>3
    <3> QED BY <1>8, <3>1, <3>2, <3>3
  <2> QED BY <1>8, <2>2
<1>9. d \in {c, c1} \/ (d = DeltifyTo(c2, a, s, worth) /\ (force \/ c.db.src[a] = None))
  <2>1. CASE ~force /\ c.db.src[a] # None
    BY <2>1 DEF Deltify
  <2>2. CASE (force \/ c.db.src[a] = None) /\ ~IsAvailable(c, a)
    BY <2>2 DEF Deltify
  <2>3. CASE (force \/ c.db.src[a] = None) /\ IsAvailable(c, a)
    BY <2>3 DEF Deltify
  <2> QED BY <2>1, <2>2, <2>3
<1>10. CASE d \in {c, c1}
  BY <1>7, <1>10
<1>11. CASE d = DeltifyTo(c2, a, s, worth) /\ (force \/ c.db.src[a] = None)
  BY <1>6, <1>8, <1>11
<1> QED BY <1>9, <1>10, <1>11

LEMMA DeltifyProceeds ==
    ASSUME NEW c, NEW U, NEW at, NEW P, NEW V, Linking(c, U, at, P, V),
           NEW a \in Artifact, NEW s \in Artifact \ U, NEW force, NEW worth, force => U = {}
    PROVE  Proceeds(c, Deltify(c, a, s, force, worth), U, at, P, V)
<1> PICK d : d = Deltify(c, a, s, force, worth)
  OBVIOUS
<1>1. Good(c) /\ Upkeep(c, d)
  BY DeltifyStep DEF Linking, Clear
<1>2. /\ d.db.orphan = c.db.orphan /\ d.db.linked = c.db.linked /\ d.db.mlink = c.db.mlink
      /\ \A x \in Artifact : \/ d.db.src[x] = c.db.src[x]
                            \/ x = s
                            \/ (x = a /\ (force \/ c.db.src[a] = None))
  BY <1>1, DeltifyKeeps
<1>3. \A x \in U : x \in Artifact /\ c.db.src[x] # None
  BY StoreAssumption DEF Linking, Links, R
<1>4. \A x \in U : d.db.src[x] = c.db.src[x]
  BY <1>2, <1>3
<1> QED BY <1>1, <1>2, <1>4, ProceedsAside

-----------------------------------------------------------------------------
(* fetch_baseline(): a manifest without its baseline is settled by a row   *)
(* of table orphan.                                                        *)
LEMMA OrphanLinks ==
    ASSUME NEW c, NEW U, NEW at, NEW P, NEW V, Linking(c, U, at, P, V),
           NEW a \in I(c.db), NEW rid \in Artifact \cup {None},
           Baseline[a] # None, Baseline[a] \notin I(c.db),
           (rid = Baseline[a] /\ rid \in Known(c.db)) \/ (rid = None /\ Baseline[a] \in shun)
    PROVE  Proceeds(c, NoteOrphan(c, a, rid), U, at, P \ {a}, V)
<1> PICK d : d = NoteOrphan(c, a, rid)
  OBVIOUS
<1>1. Good(c) /\ c \in Contexts /\ a \in Artifact
  BY GoodTypes DEF Linking, Clear, R, I
<1>2. Upkeep(c, d)
  BY <1>1, OrphanStep
<1>3. /\ Clear(d) /\ R(d.db) = R(c.db) /\ Real(d.db) = Real(c.db)
      /\ Known(c.db) \subseteq Known(d.db) /\ d.db.bad = c.db.bad /\ I(d.db) = I(c.db)
  BY <1>2, ClearUpkeep DEF Linking
<1>4. /\ d.db.linked = c.db.linked /\ d.db.mlink = c.db.mlink /\ d.db.src = c.db.src
      /\ d.db.orphan = IF \E row \in c.db.orphan : row[1] = a THEN c.db.orphan
                       ELSE c.db.orphan \cup {<<a, rid>>}
  <2> PICK O : O = IF \E row \in c.db.orphan : row[1] = a THEN c.db.orphan
                   ELSE c.db.orphan \cup {<<a, rid>>}
    OBVIOUS
  <2> PICK e : e = [c EXCEPT !.db.orphan = O]
    OBVIOUS
  <2>1. d = e
    BY DEF NoteOrphan
  <2>2. /\ e.db.linked = c.db.linked /\ e.db.mlink = c.db.mlink /\ e.db.src = c.db.src
        /\ e.db.orphan = O
    BY <1>1 DEF Contexts, Tables
  <2> QED BY <2>1, <2>2
<1>5. /\ \A row \in d.db.orphan : row \in c.db.orphan \/ row = <<a, rid>>
      /\ c.db.orphan \subseteq d.db.orphan /\ \E row \in d.db.orphan : row[1] = a
  <2>1. <<a, rid>>[1] = a
    OBVIOUS
  <2> QED BY <1>4, <2>1
<1>6. /\ Real(c.db) \cap shun = {} /\ c.db.bad \subseteq Real(c.db) /\ c.db.mlink \subseteq c.db.linked /\ c.db.linked \subseteq I(c.db)
      /\ U \subseteq R(c.db) \ c.db.linked /\ at \subseteq R(c.db)
      /\ \A x \in U : c.db.src[x] \in U \cup at
      /\ \A row \in c.db.orphan : RowGood(c.db, U, row)
      /\ \A o \in I(c.db) \ P : Settled(c.db, o, V)
  BY DEF Linking, Links
<1>7. ASSUME NEW row \in d.db.orphan PROVE RowGood(d.db, U, row)
  <2>1. CASE row \in c.db.orphan
    BY <1>3, <1>6, <2>1 DEF RowGood
  <2>2. CASE row = <<a, rid>>
    <3>1. row[1] = a /\ row[2] = rid
      BY <2>2
    <3>2. rid \notin I(c.db)
      BY StoreAssumption DEF R, I
    <3> QED BY <1>3, <3>1, <3>2 DEF RowGood
  <2> QED BY <1>5, <2>1, <2>2
<1>8. ASSUME NEW o \in I(d.db) \ (P \ {a}) PROVE Settled(d.db, o, V)
  <2>1. CASE o = a
    BY <1>3, <1>5, <2>1 DEF Settled
  <2>2. CASE o # a
    <3>1. Settled(c.db, o, V)
      BY <1>3, <1>6, <2>2
    <3> QED BY <1>3, <1>4, <1>5, <3>1 DEF Settled
  <2> QED BY <2>1, <2>2
<1>9. Links(d.db, U, at, P \ {a}, V)
  BY <1>3, <1>4, <1>6, <1>7, <1>8 DEF Links
<1> QED BY <1>2, <1>3, <1>4, <1>9 DEF Proceeds, Linking

LEMMA LessToDo ==
    ASSUME NEW c, NEW d, NEW U, NEW at, NEW P, NEW V, NEW a, Proceeds(c, d, U, at, P \ {a}, V)
    PROVE  Proceeds(c, d, U, at, P, V)
<1>1. Links(d.db, U, at, P \ {a}, V)
  BY DEF Proceeds, Linking
<1>2. Links(d.db, U, at, P, V)
  BY <1>1, MoreLinks
<1> QED BY <1>2 DEF Proceeds, Linking

LEMMA FetchBaselineProceeds ==
    ASSUME NEW c, NEW U, NEW at, NEW P, NEW V, Linking(c, U, at, P, V), NEW a \in I(c.db)
    PROVE  /\ Proceeds(c, FetchBaseline(c, a), U, at, P, V)
           /\ ~BaselineOk(c, a) => Proceeds(c, FetchBaseline(c, a), U, at, P \ {a}, V)
<1>0. a \in Artifact /\ Clear(c)
  BY DEF R, I, Linking
<1>1. CASE Baseline[a] = None
  <2>1. FetchBaseline(c, a) = c /\ BaselineOk(c, a)
    BY <1>1 DEF FetchBaseline, BaselineOk
  <2> QED BY <2>1, ProceedsOfNothing
<1>2. CASE Baseline[a] # None
  <2> PICK b \in Artifact : b = Baseline[a]
    BY <1>0, <1>2, StoreAssumption
  <2> PICK d : d = Phantomize(c, b, FALSE)
    OBVIOUS
  <2> PICK e : e = AfterGet(d, b)
    OBVIOUS
  <2>1. Proceeds(c, d, U, at, P, V) /\ (b \in Known(d.db) \/ b \in shun)
    BY PhantomizeProceeds
  <2>2. Linking(d, U, at, P, V) /\ Clear(d) /\ I(d.db) = I(c.db) /\ a \in I(d.db)
    BY <1>0, <2>1, ClearUpkeep DEF Proceeds, Linking
  <2>3. Proceeds(d, e, U, at, P, V) /\ e.db = d.db
    BY <2>2, GetProceeds, GetStep DEF Clear
  <2>4. Parsed(d, b) <=> b \in I(d.db)
    BY <2>2, ParsedIs
  <2>5. FetchBaseline(c, a) = ReadBaseline(d, a, b)
    BY <1>2 DEF FetchBaseline
  <2>6. BaselineOk(c, a) <=> b \in I(d.db)
    BY <1>0, <1>2, <2>2, BaselineOkIs
  <2>7. CASE b \in I(d.db)
    <3>1. b \in Known(d.db)
      BY <2>2, <2>7, GoodTypes DEF Clear, I
    <3>2. FetchBaseline(c, a) = e
      BY <2>4, <2>5, <2>7, <3>1, StoreAssumption DEF ReadBaseline, RidOf
    <3>3. Proceeds(c, e, U, at, P, V)
      BY <2>1, <2>3, ProceedsOfBoth
    <3> QED BY <2>6, <2>7, <3>2, <3>3
  <2>8. CASE b \notin I(d.db) /\ b \in Known(d.db)
    <3> PICK f : f = NoteOrphan(e, a, b)
      OBVIOUS
    <3>1. FetchBaseline(c, a) = f
      BY <2>4, <2>5, <2>8, StoreAssumption DEF ReadBaseline, RidOf
    <3>2. Linking(e, U, at, P, V) /\ a \in I(e.db) /\ Baseline[a] \notin I(e.db)
      BY <2>2, <2>3, <2>8 DEF Proceeds
    <3>5. Baseline[a] # None /\ b = Baseline[a] /\ b \in Known(e.db) /\ b \in Artifact \cup {None}
      BY <1>2, <2>3, <2>8
    <3> HIDE DEF Linking
    <3>3. Proceeds(e, f, U, at, P \ {a}, V)
      BY <3>2, <3>5, OrphanLinks
    <3>4. Proceeds(c, f, U, at, P \ {a}, V)
      BY <2>1, <2>3, <3>3, ProceedsOfBoth
    <3> QED BY <3>1, <3>4, LessToDo
  <2>9. CASE b \notin I(d.db) /\ b \notin Known(d.db)
    <3> PICK f : f = NoteOrphan(d, a, None)
      OBVIOUS
    <3>1. FetchBaseline(c, a) = f
      BY <2>5, <2>9 DEF ReadBaseline, RidOf
    <3>2. Proceeds(d, f, U, at, P \ {a}, V)
      <4> PICK rid \in Artifact \cup {None} : rid = None
        OBVIOUS
      <4>1. rid = None /\ Baseline[a] \in shun
        BY <2>1, <2>9
      <4> QED BY <1>2, <2>2, <2>9, <4>1, OrphanLinks
    <3>3. Proceeds(c, f, U, at, P \ {a}, V)
      BY <2>1, <3>2, ProceedsOfBoth
    <3> QED BY <3>1, <3>3, LessToDo
  <2> QED BY <2>7, <2>8, <2>9
<1> QED BY <1>1, <1>2

-----------------------------------------------------------------------------
(* add_mlink() and manifest_crosslink().                                   *)
LEMMA ProceedsIs ==
    ASSUME NEW c, NEW d, NEW U, NEW at, NEW P, NEW V, Clear(c), Proceeds(c, d, U, at, P, V)
    PROVE  /\ Clear(d) /\ R(d.db) = R(c.db) /\ I(d.db) = I(c.db) /\ Known(c.db) \subseteq Known(d.db)
           /\ c.db.linked \subseteq d.db.linked /\ Linking(d, U, at, P, V)
BY ClearUpkeep DEF Proceeds

LEMMA LinkingIs ==
    ASSUME NEW c, NEW U, NEW at, NEW P, NEW V, Linking(c, U, at, P, V)
    PROVE  /\ Clear(c) /\ Good(c) /\ R(c.db) \subseteq Artifact
           /\ I(c.db) \subseteq R(c.db) /\ c.db.linked \subseteq I(c.db) /\ U \subseteq R(c.db) /\ c.db.linked \cap U = {}
BY DEF Linking, Links, Clear, R, I

LEMMA MlinkProceeds ==
    ASSUME NEW c, NEW U, NEW at, NEW P, NEW V, Linking(c, U, at, P, V), NEW k \in c.db.linked
    PROVE  Proceeds(c, [c EXCEPT !.db.mlink = @ \cup {k}], U, at, P, V)
<1> PICK d : d = [c EXCEPT !.db.mlink = @ \cup {k}]
  OBVIOUS
<1>1. Good(c) /\ c \in Contexts /\ k \in Artifact /\ Clear(c)
  BY LinkingIs, GoodTypes
<1>2. Upkeep(c, d)
  BY <1>1, MlinkStep
<1>3. /\ d.db.linked = c.db.linked /\ d.db.src = c.db.src /\ d.db.orphan = c.db.orphan
      /\ d.db.mlink = c.db.mlink \cup {k}
  BY <1>1 DEF Contexts, Tables
<1>4. /\ Clear(d) /\ R(d.db) = R(c.db) /\ Real(d.db) = Real(c.db)
      /\ Known(c.db) \subseteq Known(d.db) /\ d.db.bad = c.db.bad /\ I(d.db) = I(c.db)
  <2>1. Clear(c)
    BY <1>1
  <2> QED BY ONLY <1>2, <2>1, ClearUpkeep
<1>5. Links(d.db, U, at, P, V)
  BY <1>3, <1>4 DEF Linking, Links, RowGood, Settled
<1> QED BY <1>2, <1>3, <1>4, <1>5 DEF Proceeds, Linking

LEMMA LinkedProceeds ==
    ASSUME NEW c, NEW U, NEW at, NEW P, NEW V, Linking(c, U, at, P, V), NEW a \in I(c.db) \ U
    PROVE  LET d == [c EXCEPT !.db.linked = @ \cup {a}] IN
           Proceeds(c, d, U, at, P \ {a}, V) /\ a \in d.db.linked
<1> PICK d : d = [c EXCEPT !.db.linked = @ \cup {a}]
  OBVIOUS
<1>1. Good(c) /\ c \in Contexts /\ a \in Artifact /\ Clear(c)
  BY LinkingIs, GoodTypes
<1>2. Upkeep(c, d)
  BY <1>1, LinkedStep
<1>3. /\ d.db.linked = c.db.linked \cup {a} /\ d.db.src = c.db.src /\ d.db.orphan = c.db.orphan
      /\ d.db.mlink = c.db.mlink
  BY <1>1 DEF Contexts, Tables
<1>6. Clear(c)
  BY <1>1
<1>4. /\ Clear(d) /\ R(d.db) = R(c.db) /\ Real(d.db) = Real(c.db)
      /\ Known(c.db) \subseteq Known(d.db) /\ d.db.bad = c.db.bad /\ I(d.db) = I(c.db)
  BY ONLY <1>2, <1>6, ClearUpkeep
<1>5. Links(d.db, U, at, P \ {a}, V)
  BY <1>3, <1>4 DEF Linking, Links, RowGood, Settled
<1> QED BY <1>2, <1>3, <1>4, <1>5 DEF Proceeds, Linking

LEMMA LinkBothProceeds ==
    ASSUME NEW c, NEW U, NEW at, NEW P, NEW V, Linking(c, U, at, P, V),
           NEW p \in Artifact, NEW k \in c.db.linked, NEW worth
    PROVE  Proceeds(c, LinkBoth(c, p, k, worth), U, at, P, V)
<1> PICK d : d = FetchBaseline(c, k)
  OBVIOUS
<1>1. k \in I(c.db) /\ k \in Artifact /\ Clear(c)
  BY LinkingIs
<1>2. Proceeds(c, d, U, at, P, V)
  BY <1>1, FetchBaselineProceeds
<1>3. Linking(d, U, at, P, V) /\ k \in d.db.linked
  BY <1>1, <1>2, ProceedsIs
<1>4. CASE ~BaselineOk(c, k)
  BY <1>2, <1>4 DEF LinkBoth
<1>5. CASE BaselineOk(c, k) /\ Older(p, k) = None
  <2> PICK e : e = [d EXCEPT !.db.mlink = @ \cup {k}]
    OBVIOUS
  <2>1. LinkBoth(c, p, k, worth) = e
    BY <1>5 DEF LinkBoth
  <2>2. Proceeds(d, e, U, at, P, V)
    BY <1>3, MlinkProceeds
  <2>3. Proceeds(c, e, U, at, P, V)
    BY <1>2, <2>2, ProceedsOfBoth
  <2> QED BY <2>1, <2>3
<1>6. CASE BaselineOk(c, k) /\ Older(p, k) # None
  <2> PICK o \in Artifact : o = Older(p, k)
    BY <1>1, <1>6, StoreAssumption DEF Older
  <2> PICK f : f = Deltify(d, o, k, FALSE, worth)
    OBVIOUS
  <2> PICK e : e = [f EXCEPT !.db.mlink = @ \cup {k}]
    OBVIOUS
  <2>1. LinkBoth(c, p, k, worth) = e
    BY <1>6 DEF LinkBoth
  <2>2. k \in Artifact \ U /\ Clear(d)
    BY <1>1, <1>3, LinkingIs
  <2>3. Proceeds(d, f, U, at, P, V)
    BY <1>3, <2>2, DeltifyProceeds
  <2>4. Linking(f, U, at, P, V) /\ k \in f.db.linked
    BY <1>3, <2>2, <2>3, ProceedsIs
  <2>5. Proceeds(f, e, U, at, P, V)
    BY <2>4, MlinkProceeds
  <2>6. Proceeds(c, f, U, at, P, V)
    BY <1>2, <2>3, ProceedsOfBoth
  <2> HIDE DEF Proceeds, Linking
  <2>7. Proceeds(c, e, U, at, P, V)
    BY ONLY <2>5, <2>6, ProceedsOfBoth
  <2> QED BY <2>1, <2>7
<1> QED BY <1>4, <1>5, <1>6

LEMMA AddMlinkProceeds ==
    ASSUME NEW c, NEW U, NEW at, NEW P, NEW V, Linking(c, U, at, P, V),
           NEW p \in Artifact, NEW k \in c.db.linked, NEW other \in Artifact, NEW worth,
           other = p \/ p \in I(c.db)
    PROVE  Proceeds(c, AddMlink(c, p, k, other, worth), U, at, P, V)
<1>1. Clear(c)
  BY LinkingIs
<1>2. CASE k \in c.db.mlink
  BY <1>2, ProceedsOfNothing DEF AddMlink
<1>3. CASE k \notin c.db.mlink /\ ~Parsed(c, other)
  BY <1>3, GetProceeds DEF AddMlink
<1>4. CASE k \notin c.db.mlink /\ Parsed(c, other)
  <2> PICK d : d = AfterGet(c, other)
    OBVIOUS
  <2> PICK e : e = FetchBaseline(d, p)
    OBVIOUS
  <2>1. p \in I(c.db)
    BY <1>1, <1>4, ParsedIs
  <2>2. Proceeds(c, d, U, at, P, V)
    BY GetProceeds
  <2>3. Linking(d, U, at, P, V) /\ k \in d.db.linked /\ p \in I(d.db) /\ Clear(d)
    BY <1>1, <2>1, <2>2, ProceedsIs
  <2>4. Proceeds(d, e, U, at, P, V)
    BY <2>3, FetchBaselineProceeds
  <2>5. Linking(e, U, at, P, V) /\ k \in e.db.linked
    BY <2>3, <2>4, ProceedsIs
  <2>6. Proceeds(c, e, U, at, P, V)
    BY <2>2, <2>4, ProceedsOfBoth
  <2> PICK f : f = LinkBoth(e, p, k, worth)
    OBVIOUS
  <2>7. Proceeds(e, f, U, at, P, V)
    BY <2>5, LinkBothProceeds
  <2>8. Proceeds(c, f, U, at, P, V)
    BY <2>6, <2>7, ProceedsOfBoth
  <2>9. AddMlink(c, p, k, other, worth) \in {e, f}
    BY <1>4 DEF AddMlink, LinkParent
  <2> QED BY <2>6, <2>8, <2>9
<1> QED BY <1>2, <1>3, <1>4

LEMMA LinkUpProceeds ==
    ASSUME NEW c, NEW U, NEW at, NEW P, NEW V, Linking(c, U, at, P, V),
           NEW a \in c.db.linked, NEW worth
    PROVE  Proceeds(c, LinkUp(c, a, worth), U, at, P, V)
<1>1. Clear(c) /\ a \in Artifact
  BY LinkingIs
<1>2. CASE Parent[a] = None
  BY <1>2, MlinkProceeds DEF LinkUp
<1>3. CASE Parent[a] # None /\ Parent[a] \in shun
  BY <1>3, ProceedsOfNothing DEF LinkUp
<1>4. CASE Parent[a] # None /\ Parent[a] \notin shun
  <2> PICK p \in Artifact : p = Parent[a]
    BY <1>1, <1>4, StoreAssumption
  <2> PICK d : d = Phantomize(c, p, FALSE)
    OBVIOUS
  <2>1. Proceeds(c, d, U, at, P, V)
    BY PhantomizeProceeds
  <2>2. Linking(d, U, at, P, V) /\ a \in d.db.linked
    BY <1>1, <2>1, ProceedsIs
  <2> PICK e : e = AddMlink(d, p, a, p, worth)
    OBVIOUS
  <2>3. Proceeds(d, e, U, at, P, V)
    BY <2>2, AddMlinkProceeds
  <2>4. LinkUp(c, a, worth) = e
    BY <1>4 DEF LinkUp
  <2>5. Proceeds(c, e, U, at, P, V)
    BY ONLY <2>1, <2>3, ProceedsOfBoth
  <2> QED BY <2>4, <2>5
<1> QED BY <1>2, <1>3, <1>4

LEMMA LinkDownProceeds ==
    ASSUME NEW c, NEW U, NEW at, NEW P, NEW V, Linking(c, U, at, P, V),
           NEW a \in I(c.db), NEW worth
    PROVE  Proceeds(c, LinkDown(c, a, worth), U, at, P, V)
<1> DEFINE X == {d \in Contexts : Proceeds(c, d, U, at, P, V)}
<1>1. Clear(c) /\ a \in Artifact /\ c.db.linked \subseteq Artifact /\ c \in Contexts
  BY LinkingIs, GoodTypes
<1>2. c \in X
  BY <1>1, ProceedsOfNothing
<1>3. ASSUME NEW k \in c.db.linked, Parent[k] = a, NEW d \in X
      PROVE  AddMlink(d, a, k, k, worth) \in X
  <2> PICK e : e = AddMlink(d, a, k, k, worth)
    OBVIOUS
  <2>1. Proceeds(c, d, U, at, P, V)
    OBVIOUS
  <2>2. Linking(d, U, at, P, V) /\ k \in d.db.linked /\ a \in I(d.db) /\ Clear(d)
    BY <1>1, <2>1, ProceedsIs
  <2>3. k \in Artifact
    BY <1>1
  <2>4. Proceeds(d, e, U, at, P, V)
    BY <1>1, <2>2, <2>3, AddMlinkProceeds
  <2>5. Proceeds(c, e, U, at, P, V)
    BY <2>1, <2>4, ProceedsOfBoth
  <2>6. e \in Contexts
    BY <2>2, <2>4, ProceedsIs, GoodTypes DEF Clear
  <2> QED BY <2>5, <2>6
<1> HIDE DEF X
<1>4. \A k \in c.db.linked : Parent[k] = a => \A d \in X : AddMlink(d, a, k, k, worth) \in X
  BY <1>3
<1>5. LinkDown(c, a, worth) \in X
  BY <1>1, <1>2, <1>4, LinkDownFold
<1> QED BY <1>5 DEF X

(* A manifest that is crosslinked is settled: it is linked, or waits for   *)
(* its baseline in table orphan.                                           *)
LEMMA CrosslinkProceeds ==
    ASSUME NEW c, NEW U, NEW at, NEW P, NEW V, Linking(c, U, at, P, V),
           NEW a \in I(c.db), NEW worth,
           a \notin U \/ ~BaselineOk(c, a)
    PROVE  Proceeds(c, Crosslink(c, a, worth), U, at, P \ {a}, V)
<1> PICK d : d = FetchBaseline(c, a)
  OBVIOUS
<1>1. Clear(c)
  BY LinkingIs
<1>2. CASE ~BaselineOk(c, a)
  BY <1>2, FetchBaselineProceeds DEF Crosslink
<1>3. CASE BaselineOk(c, a)
  <2>1. Proceeds(c, d, U, at, P, V)
    BY FetchBaselineProceeds
  <2>2. Linking(d, U, at, P, V) /\ a \in I(d.db) \ U /\ Clear(d)
    BY <1>1, <1>3, <2>1, ProceedsIs
  <2> PICK e : e = [d EXCEPT !.db.linked = @ \cup {a}]
    OBVIOUS
  <2>3. Proceeds(d, e, U, at, P \ {a}, V) /\ a \in e.db.linked
    BY <2>2, LinkedProceeds
  <2>4. Linking(e, U, at, P \ {a}, V) /\ Clear(e)
    BY <2>2, <2>3, ProceedsIs
  <2>5. Proceeds(c, e, U, at, P \ {a}, V)
    BY <2>1, <2>3, ProceedsOfBoth
  <2> PICK f : f = LinkUp(e, a, worth)
    OBVIOUS
  <2>6. Proceeds(e, f, U, at, P \ {a}, V)
    BY <2>3, <2>4, LinkUpProceeds
  <2>7. Linking(f, U, at, P \ {a}, V) /\ a \in f.db.linked
    <3> PICK Q : Q = P \ {a}
      OBVIOUS
    <3>2. Clear(e) /\ Proceeds(e, f, U, at, Q, V)
      BY <2>4, <2>6
    <3>1. Linking(f, U, at, Q, V) /\ e.db.linked \subseteq f.db.linked
      BY ONLY <3>2, ProceedsIs
    <3> QED BY <2>3, <3>1
  <2>8. a \in I(f.db)
    BY <2>7, LinkingIs
  <2> PICK g : g = LinkDown(f, a, worth)
    OBVIOUS
  <2>9. Proceeds(f, g, U, at, P \ {a}, V)
    BY <2>7, <2>8, LinkDownProceeds
  <2>10. Proceeds(c, f, U, at, P \ {a}, V)
    BY <2>5, <2>6, ProceedsOfBoth
  <2>11. Proceeds(c, g, U, at, P \ {a}, V)
    BY <2>9, <2>10, ProceedsOfBoth
  <2>12. Crosslink(c, a, worth) = LinkCheckin(e, a, worth)
    BY <1>3 DEF Crosslink
  <2>13. LinkCheckin(e, a, worth) \in {e, g}
    BY DEF LinkCheckin
  <2> QED BY <2>5, <2>11, <2>12, <2>13
<1> QED BY <1>2, <1>3

(* What is wrong has nothing to be settled.                                *)
LEMMA WrongLinks ==
    ASSUME NEW db, NEW U, NEW at, NEW P, NEW V, Links(db, U, at, P, V), NEW a, a \notin I(db)
    PROVE  Links(db, U, at, P \ {a}, V)
BY DEF Links

LEMMA ReadAndCrosslinkProceeds ==
    ASSUME NEW c, NEW U, NEW at, NEW P, NEW V, Linking(c, U, at, P, V), NEW a \in R(c.db),
           a \notin U \/ (Baseline[a] # None /\ Baseline[a] \notin I(c.db)), NEW worth
    PROVE  Proceeds(c, ReadAndCrosslink(c, a, worth), U, at, P \ {a}, V)
<1> PICK d : d = AfterGet(c, a)
  OBVIOUS
<1>1. Clear(c) /\ a \in Artifact /\ (Parsed(c, a) <=> a \in I(c.db))
  BY LinkingIs, ParsedIs
<1>2. Proceeds(c, d, U, at, P, V)
  BY <1>1, GetProceeds
<1>3. Linking(d, U, at, P, V) /\ Clear(d) /\ I(d.db) = I(c.db)
  BY <1>1, <1>2, ProceedsIs
<1>4. CASE a \in I(c.db)
  <2> PICK e : e = Crosslink(d, a, worth)
    OBVIOUS
  <2>1. a \notin U \/ ~BaselineOk(d, a)
    BY <1>1, <1>3, BaselineOkIs
  <2>2. Proceeds(d, e, U, at, P \ {a}, V)
    BY <1>3, <1>4, <2>1, CrosslinkProceeds
  <2>3. ReadAndCrosslink(c, a, worth) = e
    BY <1>1, <1>4 DEF ReadAndCrosslink
  <2> QED BY <1>2, <2>2, <2>3, ProceedsOfBoth
<1>5. CASE a \notin I(c.db)
  <2>1. Links(d.db, U, at, P \ {a}, V)
    BY <1>3, <1>5, WrongLinks DEF Linking
  <2>2. ReadAndCrosslink(c, a, worth) = d
    BY <1>1, <1>5 DEF ReadAndCrosslink
  <2> QED BY <1>2, <2>1, <2>2 DEF Proceeds, Linking
<1> QED BY <1>4, <1>5

-----------------------------------------------------------------------------
(* after_dephantomize().                                                   *)
Waiting(db, x) == {o \in Artifact : <<o, x>> \in db.orphan}

(* What waits for a baseline that is there is in the loop over table       *)
(* orphan.                                                                 *)
LEMMA SetAside ==
    ASSUME NEW c, NEW U, NEW at, NEW P, NEW V, Linking(c, U, at, P, V), NEW x \in R(c.db)
    PROVE  Linking(c, U, at, P \cup Waiting(c.db, x), V \ {x})
<1>1. Good(c) /\ x \in Real(c.db) /\ R(c.db) \subseteq Artifact
  BY LinkingIs, GoodTypes
<1>2. /\ Real(c.db) \cap shun = {}
      /\ \A row \in c.db.orphan : RowGood(c.db, U, row)
      /\ \A o \in I(c.db) \ P : Settled(c.db, o, V)
  BY DEF Linking, Links
<1>3. ASSUME NEW o \in I(c.db) \ (P \cup Waiting(c.db, x))
      PROVE  Settled(c.db, o, V \ {x})
  <2>1. Settled(c.db, o, V)
    BY <1>2
  <2>2. CASE o \in c.db.linked
    BY <2>2 DEF Settled
  <2>3. CASE o \notin c.db.linked
    <3>2. Baseline[o] # x \/ x \in c.db.bad
      <4> SUFFICES ASSUME Baseline[o] = x, x \notin c.db.bad PROVE FALSE
        OBVIOUS
      <4>0. PICK row \in c.db.orphan : row[1] = o
        BY <2>1, <2>3 DEF Settled
      <4>1. row[2] = x
        BY <1>1, <1>2, <4>0 DEF RowGood
      <4>2. c.db.orphan \subseteq Artifact \X (Artifact \cup {None})
        BY <1>1, GoodTypes DEF Tables
      <4>3. row = <<o, x>>
        BY <4>0, <4>1, <4>2
      <4> QED BY <1>1, <4>0, <4>3 DEF Waiting, I
    <3> QED BY <2>1, <2>3, <3>2 DEF Settled, I
  <2> QED BY <2>2, <2>3
<1> QED BY <1>3 DEF Linking, Links

LEMMA LinkWaitingProceeds ==
    ASSUME NEW c, NEW U, NEW at, NEW P, NEW V, Linking(c, U, at, P, V),
           NEW x \in R(c.db), NEW worth
    PROVE  Proceeds(c, LinkWaiting(c, x, worth), U, at, P \ Waiting(c.db, x), V)
<1> DEFINE Z == {z \in (SUBSET Artifact) \X Contexts : Proceeds(c, z[2], U, at, P \ z[1], V)}
<1>1. Clear(c) /\ c \in Contexts /\ R(c.db) \subseteq Artifact
  BY LinkingIs, GoodTypes
<1>2. <<{}, c>> \in Z
  <2>1. P \ {} = P
    OBVIOUS
  <2>2. Proceeds(c, c, U, at, P \ {}, V)
    BY <2>1, ProceedsOfNothing
  <2> QED BY <1>1, <2>2
<1>3. ASSUME NEW o \in Waiting(c.db, x), NEW z \in Z
      PROVE  <<z[1] \cup {o}, ReadAndCrosslink(z[2], o, worth)>> \in Z
  <2> PICK s, d : s = z[1] /\ d = z[2]
    OBVIOUS
  <2> PICK e : e = ReadAndCrosslink(d, o, worth)
    OBVIOUS
  <2> PICK Q : Q = P \ s
    OBVIOUS
  <2>1. Proceeds(c, d, U, at, Q, V) /\ s \in SUBSET Artifact
    OBVIOUS
  <2>2. /\ o \in Artifact /\ o \in I(c.db)
        /\ o \notin U \/ (Baseline[o] # None /\ Baseline[o] \notin I(c.db))
    <3>1. <<o, x>> \in c.db.orphan /\ o \in Artifact
      BY DEF Waiting
    <3>2. RowGood(c.db, U, <<o, x>>)
      BY <3>1 DEF Linking, Links
    <3>3. x # None
      BY <1>1, StoreAssumption
    <3> QED BY <3>1, <3>2, <3>3 DEF RowGood
  <2>3. Linking(d, U, at, Q, V) /\ o \in R(d.db) /\ I(d.db) = I(c.db)
    BY <1>1, <2>1, <2>2, ProceedsIs DEF I
  <2>4. Proceeds(d, e, U, at, Q \ {o}, V)
    BY <2>2, <2>3, ReadAndCrosslinkProceeds
  <2>5. Proceeds(c, e, U, at, Q \ {o}, V)
    BY <2>1, <2>4, ProceedsOfBoth
  <2>6. e \in Contexts
    BY <2>5, GoodTypes DEF Proceeds, Upkeep
  <2>7. Q \ {o} = P \ (s \cup {o}) /\ s \cup {o} \in SUBSET Artifact
    BY <2>1, <2>2
  <2>8. Proceeds(c, e, U, at, P \ (s \cup {o}), V)
    BY <2>5, <2>7
  <2> QED BY <2>6, <2>7, <2>8
<1> HIDE DEF Z
<1>4. \A o \in {o \in Artifact : <<o, x>> \in c.db.orphan}, z \in Z :
         <<z[1] \cup {o}, ReadAndCrosslink(z[2], o, worth)>> \in Z
  BY <1>3 DEF Waiting
<1>5. <<Waiting(c.db, x), LinkWaiting(c, x, worth)>> \in Z
  BY <1>2, <1>4, LinkWaitingFold DEF Waiting
<1> QED BY <1>5 DEF Z

Waited(c, x, worth) ==
    [LinkWaiting(c, x, worth) EXCEPT !.db.orphan = {row \in @ : row[2] # x}]

LEMMA DropRows ==
    ASSUME NEW c, NEW U, NEW at, NEW P, NEW V, Linking(c, U, at, P, V),
           NEW x \in R(c.db), x \notin V
    PROVE  Proceeds(c, [c EXCEPT !.db.orphan = {row \in @ : row[2] # x}], U, at, P, V)
<1> PICK d : d = [c EXCEPT !.db.orphan = {row \in @ : row[2] # x}]
  OBVIOUS
<1>1. Good(c) /\ Clear(c) /\ c \in Contexts /\ x \in Artifact
  BY LinkingIs, GoodTypes
<1>2. /\ d.db.linked = c.db.linked /\ d.db.src = c.db.src /\ d.db.mlink = c.db.mlink
      /\ d.db.orphan = {row \in c.db.orphan : row[2] # x}
      /\ d \in Contexts /\ d.bag = c.bag /\ d.db.size = c.db.size
      /\ d.db.phantom = c.db.phantom /\ d.db.bad = c.db.bad
  BY <1>1 DEF Contexts, Tables
<1>3. Upkeep(c, d)
  BY <1>1, <1>2, Aside
<1>4. /\ Clear(d) /\ R(d.db) = R(c.db) /\ Real(d.db) = Real(c.db)
      /\ Known(c.db) \subseteq Known(d.db) /\ d.db.bad = c.db.bad /\ I(d.db) = I(c.db)
  <2>1. Clear(c)
    BY <1>1
  <2> QED BY ONLY <1>3, <2>1, ClearUpkeep
<1>5. /\ Real(c.db) \cap shun = {}
      /\ \A row \in c.db.orphan : RowGood(c.db, U, row)
      /\ \A o \in I(c.db) \ P : Settled(c.db, o, V)
  BY DEF Linking, Links
<1>6. ASSUME NEW o \in I(d.db) \ P PROVE Settled(d.db, o, V)
  <2>1. Settled(c.db, o, V)
    BY <1>4, <1>5
  <2>2. CASE o \in c.db.linked
    BY <1>2, <2>2 DEF Settled
  <2>3. CASE o \notin c.db.linked
    <3>1. /\ Baseline[o] # None /\ (Baseline[o] \in I(c.db) => Baseline[o] \in V)
          /\ (\E row \in c.db.orphan : row[1] = o) \/ Baseline[o] \in R(c.db) \cap c.db.bad
      BY <2>1, <2>3 DEF Settled
    <3>2. CASE Baseline[o] \in R(c.db) \cap c.db.bad
      BY <1>4, <3>1, <3>2 DEF Settled
    <3>3. CASE Baseline[o] \notin R(c.db) \cap c.db.bad
      <4>1. PICK row \in c.db.orphan : row[1] = o
        BY <3>1, <3>3
      <4>2. Baseline[o] # x
        BY <3>1, <3>3 DEF I
      <4>3. row[2] # x
        BY <1>1, <1>5, <4>1, <4>2, StoreAssumption DEF RowGood
      <4>4. row \in d.db.orphan
        BY <1>2, <4>1, <4>3
      <4> QED BY <1>4, <3>1, <4>1, <4>4 DEF Settled
    <3> QED BY <3>2, <3>3
  <2> QED BY <2>2, <2>3
<1>7. \A row \in d.db.orphan : RowGood(d.db, U, row)
  BY <1>2, <1>4, <1>5 DEF RowGood
<1>8. Links(d.db, U, at, P, V)
  BY <1>2, <1>4, <1>6, <1>7 DEF Linking, Links
<1> QED BY <1>2, <1>3, <1>4, <1>8 DEF Proceeds, Linking

LEMMA WaitedProceeds ==
    ASSUME NEW c, NEW U, NEW at, NEW P, NEW V, Linking(c, U, at, P, V),
           NEW x \in R(c.db), NEW worth
    PROVE  Proceeds(c, Waited(c, x, worth), U, at, P, V \ {x})
<1> PICK Q, W : Q = P \cup Waiting(c.db, x) /\ W = V \ {x}
  OBVIOUS
<1> PICK d : d = LinkWaiting(c, x, worth)
  OBVIOUS
<1> PICK e : e = [d EXCEPT !.db.orphan = {row \in @ : row[2] # x}]
  OBVIOUS
<1>1. Linking(c, U, at, Q, W) /\ Clear(c)
  BY SetAside, LinkingIs
<1>2. Proceeds(c, d, U, at, Q \ Waiting(c.db, x), W)
  BY <1>1, LinkWaitingProceeds
<1>3. Links(d.db, U, at, Q \ Waiting(c.db, x), W) /\ Q \ Waiting(c.db, x) \subseteq P
  BY <1>2 DEF Proceeds, Linking
<1>4. Links(d.db, U, at, P, W)
  BY <1>3, MoreLinks
<1>5. Proceeds(c, d, U, at, P, W)
  BY <1>2, <1>4 DEF Proceeds, Linking
<1>6. Linking(d, U, at, P, W) /\ x \in R(d.db) /\ x \notin W
  BY <1>1, <1>5, ProceedsIs
<1>7. Proceeds(d, e, U, at, P, W)
  BY <1>6, DropRows
<1>8. Proceeds(c, e, U, at, P, W)
  BY <1>5, <1>7, ProceedsOfBoth
<1>9. Waited(c, x, worth) = e
  BY DEF Waited
<1> QED BY <1>8, <1>9

LEMMA VisitProceeds ==
    ASSUME NEW c, NEW U, NEW at, NEW P, NEW V, Linking(c, U, at, P, V),
           NEW x \in R(c.db) \ U, NEW worth
    PROVE  /\ Proceeds(c, Visit(c, x, FALSE, worth), U, at, P, V \ {x})
           /\ Proceeds(c, Visit(c, x, TRUE, worth), U, at, P \ {x}, V \ {x})
<1> PICK d : d = ReadAndCrosslink(c, x, worth)
  OBVIOUS
<1>0. x \in R(c.db) /\ x \notin U
  OBVIOUS
<1>1. Proceeds(c, d, U, at, P \ {x}, V) /\ Clear(c)
  BY <1>0, ReadAndCrosslinkProceeds, LinkingIs
<1>2. Linking(d, U, at, P \ {x}, V) /\ x \in R(d.db)
  <2>1. R(d.db) = R(c.db)
    BY <1>1 DEF Proceeds, Upkeep
  <2> QED BY <1>1, <2>1 DEF Proceeds
<1>3. Proceeds(d, Waited(d, x, worth), U, at, P \ {x}, V \ {x})
  BY <1>2, WaitedProceeds
<1>4. Proceeds(c, Waited(d, x, worth), U, at, P \ {x}, V \ {x})
  BY <1>1, <1>3, ProceedsOfBoth
<1>5. Proceeds(c, Waited(c, x, worth), U, at, P, V \ {x})
  BY WaitedProceeds
<1>6. Visit(c, x, FALSE, worth) = Waited(c, x, worth)
  BY DEF Visit, Waited
<1>7. Visit(c, x, TRUE, worth) = Waited(d, x, worth)
  BY DEF Visit, Waited
<1> QED BY <1>4, <1>5, <1>6, <1>7

LEMMA VisitAllProceeds ==
    ASSUME NEW c, NEW U, NEW at, NEW P, NEW V, Linking(c, U, at, P, V),
           NEW S \in SUBSET (R(c.db) \ U), NEW worth
    PROVE  Proceeds(c, VisitAll(c, S, worth), U, at, P \ S, V \ S)
<1> DEFINE Z == {z \in (SUBSET Artifact) \X Contexts :
                   Proceeds(c, z[2], U, at, P \ z[1], V \ z[1])}
<1>1. Clear(c) /\ c \in Contexts /\ R(c.db) \subseteq Artifact
  BY LinkingIs, GoodTypes
<1>2. <<{}, c>> \in Z
  <2>1. P \ {} = P /\ V \ {} = V
    OBVIOUS
  <2>2. Proceeds(c, c, U, at, P \ {}, V \ {})
    BY <2>1, ProceedsOfNothing
  <2> QED BY <1>1, <2>2
<1>3. ASSUME NEW x \in S, NEW z \in Z
      PROVE  <<z[1] \cup {x}, Visit(z[2], x, TRUE, worth)>> \in Z
  <2> PICK s, d : s = z[1] /\ d = z[2]
    OBVIOUS
  <2> PICK e : e = Visit(d, x, TRUE, worth)
    OBVIOUS
  <2> PICK Q, W : Q = P \ s /\ W = V \ s
    OBVIOUS
  <2>1. Proceeds(c, d, U, at, Q, W) /\ s \in SUBSET Artifact
    OBVIOUS
  <2>2. x \in Artifact /\ x \in R(c.db) \ U
    BY <1>1
  <2>3. Linking(d, U, at, Q, W) /\ R(d.db) = R(c.db)
    BY <1>1, <2>1, ProceedsIs
  <2>4. Proceeds(d, e, U, at, Q \ {x}, W \ {x})
    BY <2>2, <2>3, VisitProceeds
  <2>5. Proceeds(c, e, U, at, Q \ {x}, W \ {x})
    BY ONLY <2>1, <2>4, ProceedsOfBoth
  <2>6. e \in Contexts
    BY <2>5, GoodTypes DEF Proceeds, Upkeep
  <2>7. /\ Q \ {x} = P \ (s \cup {x}) /\ W \ {x} = V \ (s \cup {x})
        /\ s \cup {x} \in SUBSET Artifact
    BY <2>1, <2>2
  <2>8. Proceeds(c, e, U, at, P \ (s \cup {x}), V \ (s \cup {x}))
    BY <2>5, <2>7
  <2> QED BY <2>6, <2>7, <2>8
<1> HIDE DEF Z
<1>4. \A x \in S, z \in Z : <<z[1] \cup {x}, Visit(z[2], x, TRUE, worth)>> \in Z
  BY <1>3
<1>5. S \in SUBSET Artifact
  BY <1>1
<1>6. <<S, VisitAll(c, S, worth)>> \in Z
  BY <1>2, <1>4, <1>5, VisitAllFold
<1> QED BY <1>6 DEF Z

(* A set that lacks an element of a finite set has fewer elements.         *)
LEMMA FewerThanAll ==
    ASSUME NEW S, IsFiniteSet(S), NEW T \in SUBSET S, NEW x \in S, x \notin T
    PROVE  Cardinality(T) < Cardinality(S)
<1>1. Cardinality(T) \in Nat /\ Cardinality(S) \in Nat /\ Cardinality(T) <= Cardinality(S)
  BY FS_Subset, FS_CardinalityType
<1>2. Cardinality(T) # Cardinality(S)
  BY FS_Subset
<1> QED BY <1>1, <1>2

(* One level down: what is stored as a delta of the level above is there   *)
(* to be linked, and as long as anything has not been come to, there is    *)
(* some of it on the next level: its chains end somewhere.                 *)
Arrived(l, U, a) == Linking(l.c, U, l.at, {a} \cup U, U)

LEMMA NextLevel ==
    ASSUME NEW l, NEW U, NEW a, Arrived(l, U, a)
    PROVE  /\ Kids(l) \subseteq R(l.c.db)
           /\ \A x \in U : l.c.db.src[x] \in l.at => x \in Kids(l)
           /\ Kids(l) \cap U = {} => U = {}
<1> PICK c, at : c = l.c /\ at = l.at
  OBVIOUS
<1>1. Good(c) /\ c.db.src \in Sources /\ c.db.linked \cap U = {} /\ U \subseteq R(c.db)
  BY LinkingIs, GoodTypes DEF Arrived
<1>2. /\ at \subseteq R(c.db) /\ c.db.mlink \subseteq c.db.linked
      /\ \A x \in U : c.db.src[x] \in U \cup at
  BY DEF Arrived, Linking, Links
<1>3. ASSUME NEW x \in Kids(l) PROVE x \in R(c.db)
  <2>1. x \in Artifact /\ c.db.src[x] \in at
    BY DEF Kids
  <2>2. c.db.src[x] \in R(c.db) /\ c.db.src[x] # None
    BY <1>2, <2>1, StoreAssumption DEF R
  <2>3. x \in Real(c.db)
    BY <1>1, <2>1, <2>2 DEF Good, DbGood
  <2> QED BY <1>1, <2>2, <2>3, DeltaText
<1>4. ASSUME NEW x \in U, c.db.src[x] \in at PROVE x \in Kids(l)
  BY <1>1, <1>2, <1>4 DEF Kids, R
<1>5. ASSUME Kids(l) \cap U = {}, NEW x \in U PROVE FALSE
  <2>1. \A y \in U : c.db.src[y] \in U
    BY <1>2, <1>4, <1>5
  <2>2. U \in SUBSET Artifact /\ Closed(c.db, U)
    BY <1>1, <2>1 DEF Closed, R
  <2>3. x \in Artifact /\ x \in R(c.db)
    BY <1>1, <2>2
  <2>4. Chain(c.db, x) \subseteq U
    BY <2>2, <2>3, ChainLeast
  <2>5. PICK e \in Chain(c.db, x) : c.db.src[e] = None
    BY <2>3, InR
  <2> QED BY <2>1, <2>2, <2>4, <2>5, StoreAssumption
<1> QED BY <1>3, <1>4, <1>5

LEMMA DescendLinks ==
    ASSUME NEW l, NEW U, NEW a, Arrived(l, U, a), NEW worth
    PROVE  Arrived(Descend(l, worth), U \ Kids(l), a) /\ Good(Descend(l, worth).c)
<1> PICK c, at, K : c = l.c /\ at = l.at /\ K = Kids(l)
  OBVIOUS
<1> PICK W : W = U \ K
  OBVIOUS
<1>1. Linking(c, U, at, {a} \cup U, U)
  BY DEF Arrived
<1>2. K \subseteq R(c.db) /\ \A x \in U : c.db.src[x] \in at => x \in K
  BY NextLevel
<1>3. Links(c.db, W, K, {a} \cup U, U)
  <2>1. \A x \in W : c.db.src[x] \in W \cup K
    BY <1>1, <1>2 DEF Linking, Links
  <2>2. \A row \in c.db.orphan : RowGood(c.db, W, row)
    BY <1>1 DEF Linking, Links, RowGood
  <2> QED BY <1>1, <1>2, <2>1, <2>2 DEF Linking, Links
<1>4. Linking(c, W, K, {a} \cup U, U)
  BY <1>1, <1>3 DEF Linking
<1> PICK d : d = VisitAll(c, K, worth)
  OBVIOUS
<1>5. K \in SUBSET (R(c.db) \ W)
  BY <1>2
<1>6. Proceeds(c, d, W, K, ({a} \cup U) \ K, U \ K)
  BY <1>4, <1>5, VisitAllProceeds
<1>7. Links(d.db, W, K, ({a} \cup U) \ K, U \ K) /\ Clear(d)
  BY <1>6 DEF Proceeds, Linking
<1>8. ({a} \cup U) \ K \subseteq {a} \cup W /\ U \ K \subseteq W
  OBVIOUS
<1>9. Links(d.db, W, K, {a} \cup W, W)
  BY <1>7, <1>8, MoreLinks
<1>10. Descend(l, worth).c = d /\ Descend(l, worth).at = K
  BY DEF Descend
<1> QED BY <1>7, <1>9, <1>10 DEF Arrived, Linking, Clear

(* Every level takes something off U: when after_dephantomize() is done,   *)
(* everything that has become readable is settled, but for a itself.       *)
LEMMA DephantomizeLinks ==
    ASSUME NEW c, NEW a, NEW U, Linking(c, U, {a}, {a} \cup U, {a} \cup U), a \notin U, NEW worth
    PROVE  Linking(AfterDephantomize(c, a, worth), {}, {}, {a}, {})
<1> DEFINE N == Cardinality(Artifact)
           Z == {z \in Nat \X [c : Contexts, at : SUBSET Artifact] :
                   \E W \in SUBSET Artifact : /\ Arrived(z[2], W, a)
                                              /\ W = {} \/ Cardinality(W) + z[1] < N}
<1>1. Good(c) /\ U \in SUBSET Artifact /\ a \in R(c.db) /\ R(c.db) \subseteq Artifact
  <2>1. Good(c) /\ R(c.db) \subseteq Artifact /\ U \subseteq R(c.db)
    BY LinkingIs
  <2>2. a \in R(c.db)
    BY DEF Linking, Links
  <2> QED BY <2>1, <2>2
<1> PICK d : d = Visit(c, a, FALSE, worth)
  OBVIOUS
<1>2. <<0, [c |-> d, at |-> {a}]>> \in Z
  <2>1. a \in R(c.db) \ U
    BY <1>1
  <2>2. Proceeds(c, d, U, {a}, {a} \cup U, ({a} \cup U) \ {a})
    BY <2>1, VisitProceeds
  <2>3. ({a} \cup U) \ {a} = U
    OBVIOUS
  <2>4. Linking(d, U, {a}, {a} \cup U, U)
    BY <2>2, <2>3 DEF Proceeds
  <2>5. Cardinality(U) + 0 < N
    <3>1. a \in Artifact
      BY <1>1
    <3>2. Cardinality(U) < N /\ Cardinality(U) \in Nat
      <4>1. IsFiniteSet(Artifact) /\ U \in SUBSET Artifact
        BY <1>1, StoreAssumption
      <4>2. Cardinality(U) < N
        BY ONLY <4>1, <3>1, a \notin U, FewerThanAll
      <4>3. Cardinality(U) \in Nat
        BY ONLY <4>1, FS_Subset, FS_CardinalityType
      <4> QED BY <4>2, <4>3
    <3> HIDE DEF N
    <3> QED BY <3>2
  <2> PICK l : l = [c |-> d, at |-> {a}]
    OBVIOUS
  <2>6. Arrived(l, U, a)
    BY <2>4 DEF Arrived
  <2>7. l \in [c : Contexts, at : SUBSET Artifact]
    <3>1. d \in Contexts
      BY <2>4, LinkingIs, GoodTypes
    <3>2. {a} \in SUBSET Artifact
      BY <1>1
    <3> QED BY <3>1, <3>2
  <2> HIDE DEF N
  <2>8. <<0, l>> \in Z
    BY <1>1, <2>5, <2>6, <2>7
  <2> QED BY <2>8
<1>3. ASSUME NEW z \in Z PROVE z[1] \in Nat /\ <<z[1] + 1, Descend(z[2], worth)>> \in Z
  <2> PICK n, l : n = z[1] /\ l = z[2]
    OBVIOUS
  <2>1. PICK W \in SUBSET Artifact : Arrived(l, W, a) /\ (W = {} \/ Cardinality(W) + n < N)
    OBVIOUS
  <2> PICK k, T : k = Descend(l, worth) /\ T = W \ Kids(l)
    OBVIOUS
  <2>2. n \in Nat /\ T \in SUBSET Artifact
    BY <2>1
  <2>3. Arrived(k, T, a) /\ Good(k.c)
    BY <2>1, DescendLinks
  <2>4. k \in [c : Contexts, at : SUBSET Artifact]
    <3>1. k.c \in Contexts
      BY <2>3, GoodTypes
    <3>2. k = [c |-> VisitAll(l.c, Kids(l), worth), at |-> Kids(l)] /\ Kids(l) \in SUBSET Artifact
      BY DEF Descend, Kids
    <3> QED BY <3>1, <3>2
  <2>5. T = {} \/ Cardinality(T) + (n + 1) < N
    <3>1. CASE W = {}
      BY <3>1
    <3>2. CASE W # {}
      <4>1. PICK x \in W : x \in Kids(l)
        BY <2>1, <3>2, NextLevel
      <4>2. x \notin T /\ T \subseteq W
        BY <4>1
      <4>3. Cardinality(T) < Cardinality(W) /\ Cardinality(T) \in Nat /\ Cardinality(W) \in Nat
        BY <2>1, <4>1, <4>2, StoreAssumption, FS_Subset, FewerThanAll, FS_CardinalityType
      <4>4. N \in Nat
        BY StoreAssumption, FS_CardinalityType
      <4> HIDE DEF N
      <4> QED BY <2>1, <2>2, <3>2, <4>3, <4>4
    <3> QED BY <3>1, <3>2
  <2> HIDE DEF N
  <2>6. <<n + 1, k>> \in Z
    BY <2>2, <2>3, <2>4, <2>5
  <2> QED BY <2>2, <2>6
<1> HIDE DEF Z
<1>4. LevelsStay(Z, c, a, worth)
  BY <1>2, <1>3 DEF LevelsStay
<1>5. PICK l : <<N, l>> \in Z /\ AfterDephantomize(c, a, worth) = l.c
  BY <1>4, DephantomizeLevels
<1>6. PICK W \in SUBSET Artifact : Arrived(l, W, a) /\ (W = {} \/ Cardinality(W) + N < N)
  BY <1>5 DEF Z
<1>7. W = {}
  <2>1. N \in Nat /\ Cardinality(W) \in Nat
    BY <1>6, StoreAssumption, FS_CardinalityType, FS_Subset
  <2> HIDE DEF N
  <2> QED BY <1>6, <2>1
<1>8. {a} \cup {} = {a}
  OBVIOUS
<1>9. Links(l.c.db, {}, l.at, {a}, {}) /\ Clear(l.c)
  BY <1>6, <1>7, <1>8 DEF Arrived, Linking
<1>10. Links(l.c.db, {}, {}, {a}, {})
  BY <1>9 DEF Links
<1> QED BY <1>5, <1>9, <1>10 DEF Linking

-----------------------------------------------------------------------------
(* Content arrives.  Everything readable is settled before: what becomes   *)
(* readable is a, and what is a delta of that, directly or not.            *)
AllLinked(c) == Linking(c, {}, {}, {}, {})

Came(c, d, a, s) ==
    /\ Clear(d) /\ d.db.src \in Sources /\ c.db.src \in Sources
    /\ Real(d.db) = Real(c.db) \cup {a} /\ Known(d.db) = Known(c.db) \cup {a}
    /\ R(c.db) \subseteq R(d.db) /\ I(c.db) \subseteq I(d.db) /\ c.db.bad \subseteq d.db.bad
    /\ \A x \in d.db.bad : x \in c.db.bad \/ x \in Real(d.db)
    /\ \A x \in R(d.db) : x \in R(c.db) \/ a \in Chain(d.db, x)
    /\ d.db.src[a] = s /\ \A x \in Artifact \ {a} : d.db.src[x] = c.db.src[x]
    /\ d.db.orphan = c.db.orphan /\ d.db.linked = c.db.linked /\ d.db.mlink = c.db.mlink

LEMMA StoredHere ==
    ASSUME NEW c, Clear(c), NEW a \in Artifact, a \notin Real(c.db),
           NEW s \in Artifact \cup {None}, s # None => s \in Known(c.db),
           NEW right, NEW d, PutHere(c, d, a, s, right)
    PROVE  Came(c, d, a, s)
<1>1. Good(c) /\ c.db.src \in Sources /\ d \in Contexts
  BY GoodTypes DEF Clear, PutHere, Put, Good
<1>2. Stores(c.db, d.db, a, s)
  BY DEF PutHere
<1>3. Grown(c.db, d.db, a, s)
  BY <1>1, <1>2, Stored
<1>4. Clear(d)
  BY DEF Clear, PutHere, Put
<1>5. I(c.db) \subseteq I(d.db) /\ c.db.bad \subseteq d.db.bad
  BY DEF PutHere, Put, NewBad
<1>6. ASSUME NEW x \in d.db.bad PROVE x \in c.db.bad \/ x \in Real(d.db)
  <2> SUFFICES ASSUME x \in Dependents(c.db, a), x # a PROVE x \in Real(c.db)
    BY <1>3, <1>6 DEF Grown, PutHere, NewBad
  <2>1. x \in Artifact /\ a \in Chain(c.db, x)
    BY DEF Dependents
  <2>2. c.db.src[x] # None
    BY <1>1, <2>1, ChainEnd
  <2> QED BY <1>1, <2>1, <2>2 DEF Good, DbGood
<1> QED BY <1>1, <1>3, <1>4, <1>5, <1>6 DEF Came, Grown, PutHere, SameRows

LEMMA ArrivalLinks ==
    ASSUME NEW c, AllLinked(c), NEW a \in Artifact, a \notin Real(c.db), a \notin shun,
           NEW right \in BOOLEAN, NEW d, PutHere(c, d, a, None, right),
           NEW U, U = R(d.db) \ (R(c.db) \cup {a})
    PROVE  /\ a \in R(d.db) /\ (right => a \in I(d.db)) /\ (a \in I(d.db) => right)
           /\ Linking(d, U, {a}, {a} \cup U, {a} \cup U)
           /\ a \notin Known(c.db) => Linking(d, U, {a}, {a} \cup U, U)
<1>0. Clear(c) /\ Good(c) /\ R(c.db) \subseteq Real(c.db) /\ R(c.db) \subseteq Artifact
  BY LinkingIs, GoodTypes DEF AllLinked
<1>1. /\ Clear(d) /\ d.db.src \in Sources /\ c.db.src \in Sources
      /\ Real(d.db) = Real(c.db) \cup {a} /\ Known(d.db) = Known(c.db) \cup {a}
      /\ R(c.db) \subseteq R(d.db) /\ I(c.db) \subseteq I(d.db) /\ c.db.bad \subseteq d.db.bad
      /\ \A x \in d.db.bad : x \in c.db.bad \/ x \in Real(d.db)
      /\ \A x \in R(d.db) : x \in R(c.db) \/ a \in Chain(d.db, x)
      /\ d.db.src[a] = None /\ \A x \in Artifact \ {a} : d.db.src[x] = c.db.src[x]
      /\ d.db.orphan = c.db.orphan /\ d.db.linked = c.db.linked /\ d.db.mlink = c.db.mlink
  <2> PICK s \in Artifact \cup {None} : s = None
    OBVIOUS
  <2>1. PutHere(c, d, a, s, right) /\ (s # None => s \in Known(c.db))
    OBVIOUS
  <2>2. Came(c, d, a, s)
    BY <1>0, <2>1, StoredHere
  <2> QED BY <2>2 DEF Came
<1>2. a \in R(d.db) /\ (right <=> a \in I(d.db))
  <2>1. a \in R(d.db)
    BY <1>1, FullText
  <2>2. ASSUME right PROVE a \notin d.db.bad
    <3>1. None \notin c.db.bad /\ a \notin c.db.bad
      BY <1>0, GoodTypes, StoreAssumption DEF Tables, AllLinked, Linking, Links
    <3> QED BY <2>2, <3>1 DEF PutHere, NewBad
  <2>3. ASSUME ~right PROVE a \in d.db.bad
    <3>1. a \in Dependents(c.db, a)
      BY <1>1, ChainClosed DEF Dependents
    <3> QED BY <2>3, <3>1 DEF PutHere, NewBad
  <2> QED BY <2>1, <2>2, <2>3 DEF I
<1>3. /\ Real(c.db) \cap shun = {} /\ c.db.bad \subseteq Real(c.db) /\ c.db.mlink \subseteq c.db.linked /\ c.db.linked \subseteq I(c.db)
      /\ \A row \in c.db.orphan : RowGood(c.db, {}, row)
      /\ \A o \in I(c.db) : Settled(c.db, o, {})
  BY DEF AllLinked, Linking, Links
<1>4. ASSUME NEW x \in U PROVE d.db.src[x] \in U \cup {a}
  <2>1. x \in R(d.db) /\ x \notin R(c.db) /\ x # a /\ x \in Artifact
    BY DEF R
  <2>2. a \in Chain(d.db, x)
    BY <1>1, <2>1
  <2>3. d.db.src[x] # None
    BY <2>1, <2>2, ChainEnd
  <2> PICK y : y = d.db.src[x]
    OBVIOUS
  <2>4. y \in Chain(d.db, x) /\ y = c.db.src[x]
    BY <1>1, <2>1, <2>3, ChainClosed DEF Closed
  <2>5. y \in R(d.db) /\ x \in Real(d.db)
    BY <1>1, <2>1, <2>4, ReadableTail, ReadableIsReal
  <2>6. x \in Real(c.db)
    BY <1>1, <2>1, <2>5
  <2>7. y \notin R(c.db)
    BY <1>1, <2>1, <2>4, <2>6, DeltaText
  <2> QED BY <2>5, <2>7
<1>5. ASSUME NEW row \in d.db.orphan PROVE RowGood(d.db, U, row)
  <2>1. RowGood(c.db, {}, row) /\ row[1] \in I(c.db) /\ row[1] \in R(c.db)
    BY <1>1, <1>3 DEF RowGood, I
  <2>2. row[1] \in I(d.db) /\ row[1] \notin U
    BY <1>1, <2>1
  <2> QED BY <1>1, <2>1, <2>2 DEF RowGood
<1>6. ASSUME NEW o \in I(d.db) \ ({a} \cup U)
      PROVE  /\ Settled(d.db, o, {a} \cup U)
             /\ a \notin Known(c.db) => Settled(d.db, o, U)
  <2>1. o \in I(c.db) /\ Settled(c.db, o, {})
    BY <1>1, <1>3 DEF I
  <2>2. CASE o \in c.db.linked
    BY <1>1, <2>2 DEF Settled
  <2>3. CASE o \notin c.db.linked
    <3>1. (\E row \in c.db.orphan : row[1] = o) \/ Baseline[o] \in R(c.db) \cap c.db.bad
      BY <2>1, <2>3 DEF Settled
    <3>2. Baseline[o] # None /\ Baseline[o] \notin I(c.db)
      BY <2>1, <2>3 DEF Settled
    <3>3. Settled(d.db, o, {a} \cup U)
      BY <1>1, <3>1, <3>2 DEF Settled, I
    <3>4. ASSUME a \notin Known(c.db) PROVE Baseline[o] # a
      <4> SUFFICES ASSUME Baseline[o] = a PROVE FALSE
        OBVIOUS
      <4>0. PICK row \in c.db.orphan : row[1] = o
        BY <1>0, <3>1
      <4>1. row[2] = Baseline[o] \/ Baseline[o] \in shun
        BY <1>3, <4>0 DEF RowGood
      <4>2. row[2] \in Known(c.db) \cup {None}
        BY <1>3, <4>0 DEF RowGood
      <4> QED BY <3>4, <4>1, <4>2, StoreAssumption
    <3>5. a \notin Known(c.db) => Settled(d.db, o, U)
      BY <1>1, <3>1, <3>2, <3>4 DEF Settled, I
    <3> QED BY <3>3, <3>5
  <2> QED BY <2>2, <2>3
<1>7. /\ Real(d.db) \cap shun = {} /\ d.db.bad \subseteq Real(d.db) /\ d.db.mlink \subseteq d.db.linked /\ d.db.linked \subseteq I(d.db)
      /\ U \subseteq R(d.db) \ d.db.linked /\ {a} \subseteq R(d.db)
  BY <1>1, <1>2, <1>3 DEF I
<1>8. Links(d.db, U, {a}, {a} \cup U, {a} \cup U)
  BY <1>4, <1>5, <1>6, <1>7 DEF Links
<1>9. a \notin Known(c.db) => Links(d.db, U, {a}, {a} \cup U, U)
  BY <1>4, <1>5, <1>6, <1>7 DEF Links
<1> QED BY <1>1, <1>2, <1>8, <1>9 DEF Linking

(* The full text of a, which is new: no delta and no delta-manifest knows  *)
(* of it, and it is all that becomes readable.                             *)
LEMMA NewArrivalLinks ==
    ASSUME NEW c, AllLinked(c), NEW a \in Artifact, a \notin Known(c.db), a \notin shun,
           NEW right \in BOOLEAN, NEW d, PutHere(c, d, a, None, right)
    PROVE  Linking(d, {}, {}, {a}, {}) /\ a \in R(d.db) /\ (right <=> a \in I(d.db))
<1> PICK U : U = R(d.db) \ (R(c.db) \cup {a})
  OBVIOUS
<1>0. Clear(c) /\ Good(c) /\ Real(c.db) \subseteq Known(c.db) /\ Known(c.db) \subseteq Artifact
  BY LinkingIs, GoodTypes DEF AllLinked
<1>1. a \notin Real(c.db)
  BY <1>0
<1>2. Linking(d, U, {a}, {a} \cup U, U) /\ a \in R(d.db) /\ (right <=> a \in I(d.db))
  <2>1. /\ a \in R(d.db) /\ (right => a \in I(d.db)) /\ (a \in I(d.db) => right)
        /\ a \notin Known(c.db) => Linking(d, U, {a}, {a} \cup U, U)
    <3>1. /\ AllLinked(c) /\ a \in Artifact /\ a \notin Real(c.db) /\ a \notin shun
          /\ right \in BOOLEAN /\ PutHere(c, d, a, None, right)
          /\ U = R(d.db) \ (R(c.db) \cup {a})
      BY <1>1
    <3> QED BY ONLY <3>1, ArrivalLinks, ZenonT(60)
  <2> QED BY <2>1
<1> PICK l : l = [c |-> d, at |-> {a}]
  OBVIOUS
<1>3. Arrived(l, U, a)
  BY <1>2 DEF Arrived
<1>4. Kids(l) \cap U = {}
  <2> SUFFICES ASSUME NEW x \in Kids(l), x \in U PROVE FALSE
    OBVIOUS
  <2>1. x \in Artifact /\ d.db.src[x] = a /\ x # a
    BY DEF Kids
  <2>2. d.db.src = [c.db.src EXCEPT ![a] = None] /\ c.db.src \in Sources
    BY <1>0, GoodTypes DEF PutHere, Stores
  <2>3. c.db.src[x] = a
    BY <2>1, <2>2 DEF Sources
  <2>4. c.db.src[x] # None
    BY <2>3, StoreAssumption
  <2>5. a \in Known(c.db)
    BY <1>0, <2>1, <2>3, <2>4 DEF Good, DbGood
  <2> QED BY <2>5
<1>5. U = {}
  BY <1>3, <1>4, NextLevel
<1>6. Links(d.db, {}, {a}, {a} \cup {}, {}) /\ Clear(d)
  BY <1>2, <1>5 DEF Linking
<1>7. {a} \cup {} = {a}
  OBVIOUS
<1>8. Links(d.db, {}, {a}, {a}, {})
  BY <1>6, <1>7
<1>9. Links(d.db, {}, {}, {a}, {})
  BY <1>8 DEF Links
<1> QED BY <1>2, <1>6, <1>9 DEF Linking

(* Stored as a delta of what is missing, it is not readable, and nothing   *)
(* else is that was not.                                                   *)
LEMMA DanglingLinks ==
    ASSUME NEW c, AllLinked(c), NEW a \in Artifact, a \notin Real(c.db), a \notin shun,
           NEW s \in Artifact, s \in Known(c.db), s \notin R(c.db),
           NEW right, NEW d, PutHere(c, d, a, s, right)
    PROVE  AllLinked(d)
<1>0. Clear(c) /\ Good(c) /\ R(c.db) \subseteq Real(c.db)
  BY LinkingIs, GoodTypes DEF AllLinked
<1>1. /\ Clear(d) /\ d.db.src \in Sources
      /\ Real(d.db) = Real(c.db) \cup {a} /\ Known(d.db) = Known(c.db) \cup {a}
      /\ R(c.db) \subseteq R(d.db) /\ I(c.db) \subseteq I(d.db) /\ c.db.bad \subseteq d.db.bad
      /\ \A x \in d.db.bad : x \in c.db.bad \/ x \in Real(d.db)
      /\ \A x \in R(d.db) : x \in R(c.db) \/ a \in Chain(d.db, x)
      /\ d.db.src[a] = s
      /\ d.db.orphan = c.db.orphan /\ d.db.linked = c.db.linked /\ d.db.mlink = c.db.mlink
  <2> PICK t \in Artifact \cup {None} : t = s
    OBVIOUS
  <2>1. PutHere(c, d, a, t, right) /\ (t # None => t \in Known(c.db))
    OBVIOUS
  <2>2. Came(c, d, a, t)
    BY <1>0, <2>1, StoredHere
  <2> QED BY <2>2 DEF Came
<1>2. R(d.db) = R(c.db) /\ I(d.db) = I(c.db)
  <2> SUFFICES ASSUME NEW x \in R(d.db), x \notin R(c.db) PROVE FALSE
    BY <1>1 DEF I
  <2>1. a \in R(d.db)
    BY <1>1, ReadableTail
  <2>2. a \notin Chain(d.db, s) /\ s # None
    BY <1>1, <2>1, NoLoop, StoreAssumption
  <2>3. s \in Chain(d.db, a)
    BY <1>1, <2>2, ChainClosed DEF Closed
  <2>4. s \in R(d.db)
    BY <1>1, <2>1, <2>3, ReadableTail
  <2> QED BY <1>1, <2>2, <2>4
<1>3. Links(c.db, {}, {}, {}, {})
  BY DEF AllLinked, Linking
<1>4. \A row \in d.db.orphan : RowGood(d.db, {}, row)
  BY <1>1, <1>2, <1>3 DEF Links, RowGood
<1>5. \A o \in I(d.db) \ {} : Settled(d.db, o, {})
  BY <1>1, <1>2, <1>3 DEF Links, Settled
<1>6. Links(d.db, {}, {}, {}, {})
  BY <1>1, <1>2, <1>3, <1>4, <1>5 DEF Links
<1> QED BY <1>1, <1>6 DEF AllLinked, Linking

LEMMA VerifiedLinks ==
    ASSUME NEW c, NEW U, NEW at, NEW P, NEW V, Linking(c, U, at, P, V), NEW a \in Artifact
    PROVE  Linking(Verified(c, a), U, at, P, V) /\ Verified(c, a).db = c.db
<1> PICK d : d = Verified(c, a)
  OBVIOUS
<1>1. Good(c) /\ Clear(c) /\ c \in Contexts
  BY LinkingIs, GoodTypes
<1>2. /\ d \in Contexts /\ d.db = c.db
      /\ d.bag.missing = c.bag.missing /\ d.bag.available = c.bag.available
  BY <1>1 DEF Contexts, Bags, Verified
<1>3. Clear(d)
  BY <1>1, <1>2 DEF Clear, Good, Fresh
<1> QED BY <1>2, <1>3 DEF Linking

LEMMA AnnouncedProceeds ==
    ASSUME NEW c, NEW U, NEW at, NEW P, NEW V, Linking(c, U, at, P, V), NEW a \in Artifact, NEW priv
    PROVE  Proceeds(c, Announced(c, a, priv), U, at, P, V)
<1> PICK d : d = Announced(c, a, priv)
  OBVIOUS
<1>1. Good(c) /\ c \in Contexts
  BY LinkingIs, GoodTypes
<1> PICK X : X = IF priv THEN c.db.unclustered ELSE c.db.unclustered \cup {a}
  OBVIOUS
<1> PICK e : e = [c EXCEPT !.db.unclustered = X]
  OBVIOUS
<1>2. /\ e.db.orphan = c.db.orphan /\ e.db.linked = c.db.linked /\ e.db.mlink = c.db.mlink
      /\ e.db.src = c.db.src
  BY <1>1 DEF Contexts, Tables
<1>3. d = e
  BY DEF Announced
<1>4. Upkeep(c, d)
  BY <1>1, AnnouncedStep
<1> QED BY <1>2, <1>3, <1>4, ProceedsAside

(* content_put_ex(): a full text is left to be crosslinked; after a delta  *)
(* of what is missing there is nothing to crosslink.                       *)
LEMMA PutLinks ==
    ASSUME NEW c, AllLinked(c), NEW a \in Artifact, a \notin Real(c.db), a \notin shun,
           NEW s \in Artifact \cup {None}, s # None => s \in Known(c.db) /\ s \in c.bag.missing,
           NEW priv, NEW worth, NEW right \in BOOLEAN,
           NEW d, d = ContentPut(c, a, s, priv, right, worth)
    PROVE  IF s = None THEN Linking(d, {}, {}, {a}, {}) /\ (right <=> a \in I(d.db))
           ELSE AllLinked(d)
<1> PICK f : f = Filled(c, a, s, right)
  OBVIOUS
<1>1. Good(c) /\ Clear(c) /\ (s # None => s \in Artifact /\ s \in Known(c.db) /\ s \notin R(c.db))
  BY LinkingIs DEF AllLinked, Clear, Fresh
<1>2. CASE a \in c.db.phantom
  <2>1. PICK e : /\ PutHere(c, e, a, s, right)
                 /\ PutPhantom(f, a, s, priv, worth) = IF s = None THEN AfterDephantomize(e, a, worth)
                                                       ELSE e
    <3>1. /\ Good(c) /\ a \in Artifact /\ a \notin Real(c.db) /\ f = Filled(c, a, s, right)
          /\ s \in Artifact \cup {None} /\ right \in BOOLEAN
          /\ s # None => s \in Known(c.db) /\ s \in c.bag.missing
      BY <1>1
    <3> QED BY ONLY <3>1, PutPhantomIs
  <2>2. CASE s = None
    <3> PICK U : U = R(e.db) \ (R(c.db) \cup {a})
      OBVIOUS
    <3> PICK g : g = AfterDephantomize(e, a, worth)
      OBVIOUS
    <3>1. Linking(e, U, {a}, {a} \cup U, {a} \cup U) /\ (right <=> a \in I(e.db))
      BY <2>1, <2>2, ArrivalLinks
    <3>2. Linking(g, {}, {}, {a}, {})
      BY <3>1, DephantomizeLinks
    <3>3. right <=> a \in I(g.db)
      <4>1. Good(e)
        BY <3>1, LinkingIs
      <4>2. Upkeep(e, g)
        BY <4>1, AfterDephantomizeStep
      <4> QED BY <3>1, <4>2 DEF Upkeep, I
    <3>4. d = Verified(g, a)
      BY <1>2, <2>1, <2>2 DEF ContentPut, Filled, Verified
    <3>5. Linking(d, {}, {}, {a}, {}) /\ d.db = g.db
      BY <3>2, <3>4, VerifiedLinks
    <3> QED BY <2>2, <3>3, <3>5
  <2>3. CASE s # None
    <3>1. AllLinked(e)
      BY <1>1, <2>1, <2>3, DanglingLinks
    <3>2. d = Verified(e, a)
      BY <1>2, <2>1, <2>3 DEF ContentPut, Filled, Verified
    <3>3. AllLinked(d)
      BY <3>1, <3>2, VerifiedLinks DEF AllLinked
    <3> QED BY <2>3, <3>3
  <2> QED BY <2>2, <2>3
<1>3. CASE a \notin c.db.phantom
  <2> PICK e : e = PutNew(NoteDelta(f, a, s, priv), a, s)
    OBVIOUS
  <2> PICK g : g = Announced(e, a, priv)
    OBVIOUS
  <2>1. a \notin Known(c.db)
    BY <1>1, <1>3 DEF Good, DbGood
  <2>2. PutHere(c, e, a, s, right)
    BY <1>1, <2>1, PutNewIs
  <2>3. d = Verified(g, a)
    BY <1>3 DEF ContentPut, Filled, Verified, Announced
  <2>4. CASE s = None
    <3>1. Linking(e, {}, {}, {a}, {}) /\ (right <=> a \in I(e.db))
      BY <2>1, <2>2, <2>4, NewArrivalLinks
    <3>2. Proceeds(e, g, {}, {}, {a}, {})
      BY <3>1, AnnouncedProceeds
    <3>3. Linking(g, {}, {}, {a}, {}) /\ I(g.db) = I(e.db)
      BY <3>2 DEF Proceeds, Upkeep, I
    <3>5. Linking(Verified(g, a), {}, {}, {a}, {}) /\ Verified(g, a).db = g.db
      BY <3>3, VerifiedLinks
    <3>4. Linking(d, {}, {}, {a}, {}) /\ d.db = g.db
      BY <2>3, <3>5
    <3> QED BY <2>4, <3>1, <3>3, <3>4
  <2>5. CASE s # None
    <3>1. AllLinked(e)
      BY <1>1, <2>2, <2>5, DanglingLinks
    <3>2. Proceeds(e, g, {}, {}, {}, {})
      BY <3>1, AnnouncedProceeds DEF AllLinked
    <3>3. Linking(g, {}, {}, {}, {})
      BY <3>2 DEF Proceeds
    <3>5. Linking(Verified(g, a), {}, {}, {}, {})
      BY <3>3, VerifiedLinks
    <3>4. AllLinked(d)
      BY <2>3, <3>5 DEF AllLinked
    <3> QED BY <2>5, <3>4
  <2> QED BY <2>4, <2>5
<1> QED BY <1>2, <1>3

-----------------------------------------------------------------------------
(* xfer_accept_file().                                                     *)
LEMMA ReceivedProceeds ==
    ASSUME NEW c, NEW U, NEW at, NEW P, NEW V, Linking(c, U, at, P, V), NEW a \in Artifact, NEW priv
    PROVE  Proceeds(c, Received(c, a, priv), U, at, P, V)
<1>1. Received(c, a, priv) \in {c, MakePublic(c, a)}
  BY DEF Received
<1> QED BY <1>1, ProceedsOfNothing, PublicProceeds

LEMMA NoPhantomLinks ==
    ASSUME NEW c, AllLinked(c), NEW a \in Real(c.db)
    PROVE  AllLinked(NoPhantom(c, a))
<1> PICK d : d = NoPhantom(c, a)
  OBVIOUS
<1>0. Linking(c, {}, {}, {}, {})
  BY DEF AllLinked
<1>1. Good(c) /\ c \in Contexts
  BY <1>0, LinkingIs, GoodTypes
<1>2. Upkeep(c, d)
  BY <1>1, NoPhantomStep
<1>3. /\ d.db.orphan = c.db.orphan /\ d.db.linked = c.db.linked /\ d.db.mlink = c.db.mlink
      /\ d.db.src = c.db.src
  BY <1>1 DEF Contexts, Tables, NoPhantom
<1>4. Proceeds(c, d, {}, {}, {}, {})
  BY <1>0, <1>2, <1>3, ProceedsAside
<1> QED BY <1>4 DEF Proceeds, AllLinked

LEMMA PutReal ==
    ASSUME NEW c, Good(c), NEW a \in Artifact, a \notin Real(c.db),
           NEW s \in Artifact \cup {None}, s # None => s \in Known(c.db) /\ s \in c.bag.missing,
           NEW priv, NEW worth, NEW right \in BOOLEAN
    PROVE  a \in Real(ContentPut(c, a, s, priv, right, worth).db)
<1> PICK f : f = Filled(c, a, s, right)
  OBVIOUS
<1> PICK d : d = ContentPut(c, a, s, priv, right, worth)
  OBVIOUS
<1>1. ASSUME NEW e, Good(e), a \in Real(e.db), d = Verified(e, a) PROVE a \in Real(d.db)
  <2>1. e \in Contexts
    BY <1>1, GoodTypes
  <2>2. Verified(e, a).db = e.db
    BY <2>1 DEF Verified, Contexts, Bags
  <2> QED BY <1>1, <2>2
<1>2. CASE a \in c.db.phantom
  <2> PICK e : e = PutPhantom(f, a, s, priv, worth)
    OBVIOUS
  <2>1. Put(c, e, a, s, right)
    BY PutPhantomStep
  <2>2. d = Verified(e, a)
    BY <1>2 DEF ContentPut, Filled, Verified
  <2> QED BY <1>1, <2>1, <2>2 DEF Put
<1>3. CASE a \notin c.db.phantom
  <2> PICK e : e = PutNew(NoteDelta(f, a, s, priv), a, s)
    OBVIOUS
  <2> PICK g : g = Announced(e, a, priv)
    OBVIOUS
  <2>1. a \notin Known(c.db)
    BY <1>3 DEF Good, DbGood
  <2>0. PutHere(c, e, a, s, right)
    BY <2>1, PutNewIs
  <2>2. Put(c, e, a, s, right) /\ Good(e)
    BY <2>0 DEF PutHere, Put
  <2>3. Upkeep(e, g)
    BY <2>2, AnnouncedStep
  <2>4. d = Verified(g, a)
    BY <1>3 DEF ContentPut, Filled, Verified, Announced
  <2> QED BY <1>1, <2>2, <2>3, <2>4 DEF Put, Upkeep
<1> QED BY <1>2, <1>3

LEMMA KeepDeltaLinks ==
    ASSUME NEW c, AllLinked(c), NEW a \in Artifact, a \notin shun,
           NEW rid \in Artifact \cup {None},
           rid # None => rid \in Known(c.db) /\ ~CanGet(c, rid),
           NEW priv, NEW right \in BOOLEAN, NEW worth
    PROVE  AllLinked(KeepDelta(c, a, rid, priv, right, worth))
<1> PICK d : d = IF rid = None THEN c ELSE AfterGet(c, rid)
  OBVIOUS
<1> PICK good \in BOOLEAN : good = (right /\ rid # None)
  OBVIOUS
<1> PICK e : e = ContentPut(d, a, rid, priv, good, worth)
  OBVIOUS
<1>0. Linking(c, {}, {}, {}, {})
  BY DEF AllLinked
<1>1. Good(c)
  BY <1>0, LinkingIs
<1>2. AllLinked(d) /\ Good(d) /\ (rid # None => rid \in Known(d.db) /\ rid \in d.bag.missing)
  <2>1. CASE rid = None
    BY <1>1, <2>1
  <2>2. CASE rid # None
    <3>1. rid \in Artifact /\ d = AfterGet(c, rid)
      BY <2>2
    <3>2. Proceeds(c, d, {}, {}, {}, {}) /\ d.db = c.db
      BY <1>0, <1>1, <3>1, GetProceeds, GetStep
    <3>3. rid \in d.bag.missing
      BY <1>1, <2>2, <3>1, GetStep
    <3>4. Linking(d, {}, {}, {}, {})
      BY <3>2 DEF Proceeds
    <3>5. Good(d)
      BY <3>4, LinkingIs
    <3> QED BY <3>2, <3>3, <3>4, <3>5 DEF AllLinked
  <2> QED BY <2>1, <2>2
<1>3. KeepDelta(c, a, rid, priv, right, worth) = NoPhantom(e, a)
  BY DEF KeepDelta, NoPhantom
<1>4. CASE a \in Real(d.db)
  <2>1. e = d
    BY <1>4 DEF ContentPut
  <2> QED BY <1>2, <1>3, <1>4, <2>1, NoPhantomLinks
<1>5. CASE a \notin Real(d.db)
  <2>1. IF rid = None THEN Linking(e, {}, {}, {a}, {}) /\ (good <=> a \in I(e.db)) ELSE AllLinked(e)
    BY <1>2, <1>5, PutLinks
  <2>2. AllLinked(e)
    <3>1. CASE rid = None
      <4>1. Linking(e, {}, {}, {a}, {}) /\ a \notin I(e.db) /\ {a} \ {a} = {}
        BY <2>1, <3>1
      <4>2. Links(e.db, {}, {}, {a} \ {a}, {}) /\ Clear(e)
        BY <4>1, WrongLinks DEF Linking
      <4> QED BY <4>1, <4>2 DEF AllLinked, Linking
    <3>2. CASE rid # None
      BY <2>1, <3>2
    <3> QED BY <3>1, <3>2
  <2>3. a \in Real(e.db)
    BY <1>2, <1>5, PutReal
  <2> QED BY <1>3, <2>2, <2>3, NoPhantomLinks
<1> QED BY <1>4, <1>5

LEMMA KeepFileLinks ==
    ASSUME NEW c, AllLinked(c), NEW a \in Artifact, a \notin shun, NEW s \in Artifact \cup {None},
           NEW priv, NEW good \in BOOLEAN, NEW worth
    PROVE  LET e == KeepFile(c, a, s, priv, good, worth)
           IN  /\ Linking(e, {}, {}, {a}, {})
               /\ good /\ (a \in Real(c.db) => a \in I(c.db)) => a \in I(e.db)
               /\ ~good => AllLinked(e)
<1> PICK d : d = IF s = None THEN c ELSE AfterGet(c, s)
  OBVIOUS
<1> PICK e : e = ContentPut(d, a, None, priv, good, worth)
  OBVIOUS
<1>0. Linking(c, {}, {}, {}, {})
  BY DEF AllLinked
<1>1. Good(c)
  BY <1>0, LinkingIs
<1>2. AllLinked(d) /\ d.db = c.db
  <2>1. CASE s = None
    BY <2>1
  <2>2. CASE s # None
    <3>1. s \in Artifact /\ d = AfterGet(c, s)
      BY <2>2
    <3>2. Proceeds(c, d, {}, {}, {}, {}) /\ d.db = c.db
      BY <1>0, <1>1, <3>1, GetProceeds, GetStep
    <3> QED BY <3>2 DEF Proceeds, AllLinked
  <2> QED BY <2>1, <2>2
<1>3. KeepFile(c, a, s, priv, good, worth) = e
  BY DEF KeepFile
<1>4. CASE a \in Real(d.db)
  <2>1. e = d
    BY <1>2, <1>4 DEF ContentPut
  <2>2. Links(d.db, {}, {}, {}, {}) /\ {} \subseteq {a} /\ {} \subseteq {}
    BY <1>2 DEF AllLinked, Linking
  <2>3. Links(d.db, {}, {}, {a}, {})
    BY <2>2, MoreLinks
  <2>4. Linking(e, {}, {}, {a}, {})
    BY <1>2, <2>1, <2>3 DEF AllLinked, Linking
  <2> QED BY <1>2, <1>3, <1>4, <2>1, <2>4
<1>5. CASE a \notin Real(d.db)
  <2> PICK t \in Artifact \cup {None} : t = None
    OBVIOUS
  <2>1. e = ContentPut(d, a, t, priv, good, worth) /\ (t # None => t \in Known(d.db) /\ t \in d.bag.missing)
    OBVIOUS
  <2>2. IF t = None THEN Linking(e, {}, {}, {a}, {}) /\ (good <=> a \in I(e.db)) ELSE AllLinked(e)
    BY <1>2, <1>5, <2>1, PutLinks
  <2>3. Linking(e, {}, {}, {a}, {}) /\ (good <=> a \in I(e.db))
    BY <2>2
  <2>4. ASSUME ~good PROVE AllLinked(e)
    <3>1. {a} \ {a} = {}
      OBVIOUS
    <3>2. Links(e.db, {}, {}, {a} \ {a}, {}) /\ Clear(e)
      BY <2>3, <2>4, WrongLinks DEF Linking
    <3> QED BY <3>1, <3>2 DEF AllLinked, Linking
  <2> QED BY <1>3, <2>3, <2>4
<1> QED BY <1>4, <1>5

(* A message that is not linked early leaves every manifest linked.        *)
LEMMA AcceptFromLinks ==
    ASSUME NEW c, AllLinked(c), NEW a \in Artifact, a \notin shun, NEW s \in Artifact \cup {None},
           NEW priv, NEW right \in BOOLEAN, NEW worth,
           ~Dangling(c, s) /\ HashFits(c, s, right) /\ a \in Real(c.db) => a \in I(c.db)
    PROVE  AllLinked(AcceptFrom(c, a, s, priv, right, worth))
<1> PICK good \in BOOLEAN : good = HashFits(c, s, right)
  BY DEF HashFits
<1>1. CASE Dangling(c, s)
  <2> PICK rid \in Artifact \cup {None} : rid = RidOf(c, s)
    BY DEF RidOf, Known
  <2> PICK d : d = KeepDelta(c, a, rid, priv, right, worth)
    OBVIOUS
  <2> PICK e : e = Received(d, a, priv)
    OBVIOUS
  <2>1. s # None /\ (rid # None => rid \in Known(c.db) /\ ~CanGet(c, rid))
    BY <1>1, StoreAssumption DEF Dangling, RidOf, Known
  <2>2. AcceptFrom(c, a, s, priv, right, worth) = e
    BY <1>1 DEF AcceptFrom
  <2>3. AllLinked(d)
    BY <2>1, KeepDeltaLinks
  <2>4. Proceeds(d, e, {}, {}, {}, {})
    BY <2>3, ReceivedProceeds DEF AllLinked
  <2> QED BY <2>2, <2>4 DEF Proceeds, AllLinked
<1>2. CASE ~Dangling(c, s)
  <2> PICK d : d = KeepFile(c, a, s, priv, good, worth)
    OBVIOUS
  <2> PICK e : e = Received(d, a, priv)
    OBVIOUS
  <2> PICK f : f = CrosslinkText(e, a, good, worth)
    OBVIOUS
  <2>1. Linking(d, {}, {}, {a}, {}) /\ (good => a \in I(d.db)) /\ (~good => AllLinked(d))
    BY <1>2, KeepFileLinks
  <2>2. AcceptFrom(c, a, s, priv, right, worth) = f
    BY <1>2 DEF AcceptFrom
  <2>3. CASE good
    <3>1. Proceeds(d, e, {}, {}, {a}, {})
      BY <2>1, ReceivedProceeds
    <3>2. Linking(e, {}, {}, {a}, {}) /\ a \in I(e.db) /\ a \notin {}
      BY <2>1, <2>3, <3>1 DEF Proceeds, Upkeep, I
    <3> PICK g : g = Crosslink(e, a, worth)
      OBVIOUS
    <3>3. Proceeds(e, g, {}, {}, {a} \ {a}, {})
      BY <3>2, CrosslinkProceeds
    <3>4. {a} \ {a} = {} /\ f = g
      BY <2>3 DEF CrosslinkText
    <3>5. Linking(f, {}, {}, {}, {})
      BY <3>3, <3>4 DEF Proceeds
    <3> QED BY <2>2, <3>5 DEF AllLinked
  <2>4. CASE ~good
    <3>1. Proceeds(d, e, {}, {}, {}, {})
      BY <2>1, <2>4, ReceivedProceeds DEF AllLinked
    <3>2. f = e
      BY <2>4 DEF CrosslinkText
    <3> QED BY <2>2, <3>1, <3>2 DEF Proceeds, AllLinked
  <2> QED BY <2>3, <2>4
<1> QED BY <1>1, <1>2

LEMMA AcceptFileLinks ==
    ASSUME NEW c, AllLinked(c), NEW a \in Artifact, a \notin shun, NEW s \in Artifact \cup {None},
           NEW priv, NEW right \in BOOLEAN, NEW worth, ~LinksEarly(c, a, s, right)
    PROVE  AllLinked(AcceptFile(c, a, s, priv, right, worth))
<1> PICK d : d = IF s = None THEN c ELSE Phantomize(c, s, priv)
  OBVIOUS
<1>0. Linking(c, {}, {}, {}, {}) /\ Clear(c) /\ Good(c)
  BY LinkingIs DEF AllLinked
<1>1. Proceeds(c, d, {}, {}, {}, {})
  <2>1. CASE s = None
    BY <1>0, <2>1, ProceedsOfNothing
  <2>2. CASE s # None
    <3>1. s \in Artifact /\ d = Phantomize(c, s, priv)
      BY <2>2
    <3> QED BY <1>0, <3>1, PhantomizeProceeds
  <2> QED BY <2>1, <2>2
<1>2. /\ AllLinked(d) /\ Clear(d) /\ R(d.db) = R(c.db) /\ Real(d.db) = Real(c.db)
      /\ d.db.bad = c.db.bad /\ I(d.db) = I(c.db) /\ R(d.db) \subseteq Known(c.db)
  <2>1. AllLinked(d) /\ Upkeep(c, d)
    BY <1>1 DEF Proceeds, AllLinked
  <2>2. R(c.db) \subseteq Known(c.db)
    BY <1>0, GoodTypes
  <2> QED BY <1>0, <2>1, <2>2, ClearUpkeep
<1>3. ASSUME ~Dangling(d, s), HashFits(d, s, right), a \in Real(d.db) PROVE a \in I(d.db)
  <2>1. HashFits(c, s, right)
    BY <1>2, <1>3 DEF HashFits
  <2>2. ~Dangling(c, s)
    <3>1. CASE s = None
      BY <3>1 DEF Dangling
    <3>2. CASE s # None
      <4> PICK t \in Artifact : t = s
        BY <3>2
      <4>1. CanGet(d, t) /\ CanGet(c, t) /\ t \in Known(c.db)
        BY <1>0, <1>2, <1>3, <3>2, ParsedIs DEF Dangling
      <4> QED BY <4>1, StoreAssumption DEF Dangling, RidOf
    <3> QED BY <3>1, <3>2
  <2>3. Intact(c.db, a)
    BY <1>2, <1>3, <2>1, <2>2 DEF LinksEarly
  <2> QED BY <1>2, <2>3 DEF Intact, I, R
<1>4. AcceptFile(c, a, s, priv, right, worth) = AcceptFrom(d, a, s, priv, right, worth)
  BY DEF AcceptFile
<1>5. AllLinked(AcceptFrom(d, a, s, priv, right, worth))
  BY <1>2, <1>3, AcceptFromLinks
<1> QED BY <1>4, <1>5

-----------------------------------------------------------------------------
(* The inductive invariant of the links.                                   *)
Rows(db) == Links(db, {}, {}, {}, {})

LinkInv == Alone /\ ~early => Rows(repo) /\ Rows(work)

Calm == shun' = shun /\ active' = active /\ (early => early')

(* A process leaves its transaction as it should.                          *)
LEMMA LeaveLinks ==
    ASSUME IInv, LinkInv, NEW p \in active, NEW c, Leave(p, c), Calm,
           AllLinked(Context(p)) /\ ~early' => AllLinked(c)
    PROVE  LinkInv'
<1>1. p \in Proc /\ writer = p /\ View(p) = work
  BY ActiveProcs DEF IInv, Leave, View
<1>2. Context(p).db = work /\ Context(p).bag = bag[p] /\ Good(Context(p))
  BY <1>1, ContextGood
<1>3. work' = c.db /\ repo' = repo
  BY DEF Leave
<1>4. ASSUME Alone, ~early' PROVE Rows(repo) /\ Rows(c.db)
  <2>1. Rows(repo) /\ Rows(work)
    BY <1>4 DEF Calm, LinkInv
  <2>2. Fresh(Context(p))
    BY <1>1, <1>2, <1>4 DEF IInv, NothingMissed, Fresh
  <2>3. AllLinked(Context(p))
    BY <1>2, <2>1, <2>2 DEF AllLinked, Linking, Clear, Rows
  <2>4. AllLinked(c)
    BY <1>4, <2>3
  <2> QED BY <2>1, <2>4 DEF AllLinked, Linking, Rows
<1>5. shun' = shun /\ (Alone' <=> Alone)
  BY DEF Calm, Alone
<1> QED BY <1>3, <1>4, <1>5 DEF LinkInv, Rows, Links, RowGood

LEMMA InitLinks == Init => LinkInv
<1> SUFFICES ASSUME Init PROVE LinkInv
  OBVIOUS
<1>1. repo = EmptyTables /\ work = EmptyTables
  BY DEF Init
<1> PICK db : db = EmptyTables
  OBVIOUS
<1>2. db.orphan = {} /\ db.bad = {} /\ db.linked = {} /\ db.mlink = {} /\ Real(db) = {} /\ db.src \in Sources
  BY DEF EmptyTables, Real, Sources
<1>3. R(db) = {} /\ I(db) = {}
  BY <1>2, ReadableIsReal DEF I
<1>4. Rows(db)
  BY <1>2, <1>3 DEF Rows, Links
<1> QED BY <1>1, <1>4 DEF LinkInv

(* The other steps change no context.                                      *)
LEMMA OutsideLinks ==
    ASSUME IInv, LinkInv, Calm, NEW p \in active,
           \/ Begin(p) \/ Commit(p) \/ Gone(p)
           \/ \E a \in Artifact : Read(p, a)
    PROVE  LinkInv'
<1>1. \/ repo' = repo /\ work' \in {repo, work}
      \/ Commit(p) /\ repo' = work /\ work' = work
  BY DEF Begin, Commit, Gone, Read
<1>3. ASSUME Alone, ~early PROVE Rows(repo') /\ Rows(work')
  <2>1. Rows(repo) /\ Rows(work)
    BY <1>3 DEF LinkInv
  <2> QED BY <1>1, <2>1
<1>4. shun' = shun /\ (Alone' <=> Alone) /\ (~early' => ~early)
  BY DEF Calm, Alone
<1> QED BY <1>3, <1>4 DEF LinkInv, Rows, Links, RowGood

LEMMA InsideLinks ==
    ASSUME IInv, LinkInv, Calm, NEW p \in active, NEW a \in Artifact,
           \/ Publish(p, a)
           \/ \E priv, may \in Flag : ReceiveIgot(p, a, priv, may)
           \/ \E s \in Artifact, force \in BOOLEAN : Redeltify(p, a, s, force, Artifact)
    PROVE  LinkInv'
<1> PICK c : c = Context(p)
  OBVIOUS
<1>1. Good(c)
  BY ActiveProcs, ContextGood DEF IInv
<1>2. AllLinked(c) => Linking(c, {}, {}, {}, {})
  BY DEF AllLinked
<1>3. ASSUME NEW e, Leave(p, e), AllLinked(c) => Proceeds(c, e, {}, {}, {}, {})
      PROVE  LinkInv'
  <2>1. AllLinked(c) => AllLinked(e)
    BY <1>3 DEF Proceeds, AllLinked
  <2> QED BY <1>3, <2>1, LeaveLinks
<1>4. CASE Publish(p, a)
  <2> PICK d : d = MakePublic(c, a)
    OBVIOUS
  <2> PICK e : e = Announced(d, a, FALSE)
    OBVIOUS
  <2>1. Upkeep(c, d)
    BY <1>1, PublicStep
  <2>2. Upkeep(d, e)
    BY <2>1, AnnouncedStep DEF Upkeep
  <2>3. Upkeep(c, e)
    BY <2>1, <2>2, UpkeepOfBoth
  <2>4. ASSUME AllLinked(c) PROVE Proceeds(c, e, {}, {}, {}, {})
    <3>1. Proceeds(c, d, {}, {}, {}, {})
      BY <1>2, <2>4, PublicProceeds
    <3>2. Proceeds(d, e, {}, {}, {}, {})
      BY <3>1, AnnouncedProceeds DEF Proceeds
    <3> QED BY <3>1, <3>2, ProceedsOfBoth
  <2>5. Leave(p, e)
    BY <1>4 DEF Publish, Announced
  <2> QED BY <1>3, <2>3, <2>4, <2>5
<1>5. ASSUME NEW priv \in Flag, NEW may \in Flag, ReceiveIgot(p, a, priv, may) PROVE LinkInv'
  <2> PICK d : d = IF priv /\ ~may THEN c ELSE Phantomize(c, a, priv)
    OBVIOUS
  <2> PICK e : e = IF a \notin Known(d.db) THEN d
                   ELSE IF priv THEN MakePrivate(d, a) ELSE MakePublic(d, a)
    OBVIOUS
  <2>1. d \in {c, Phantomize(c, a, priv)} /\ e \in {d, MakePrivate(d, a), MakePublic(d, a)}
    OBVIOUS
  <2>2. Upkeep(c, d)
    BY <1>1, <2>1, UpkeepOfNothing, PhantomizeStep
  <2>3. Upkeep(d, e)
    <3>1. Good(d)
      BY <2>2 DEF Upkeep
    <3> QED BY <2>1, <3>1, UpkeepOfNothing, PrivateStep, PublicStep
  <2>4. Upkeep(c, e)
    BY <2>2, <2>3, UpkeepOfBoth
  <2>5. ASSUME AllLinked(c) PROVE Proceeds(c, e, {}, {}, {}, {})
    <3>1. Proceeds(c, d, {}, {}, {}, {})
      BY <1>2, <2>1, <2>5, ProceedsOfNothing, PhantomizeProceeds
    <3>2. Linking(d, {}, {}, {}, {})
      BY <3>1 DEF Proceeds
    <3>3. Proceeds(d, e, {}, {}, {}, {})
      BY <2>1, <3>2, ProceedsOfNothing, PublicProceeds
    <3> QED BY <3>1, <3>3, ProceedsOfBoth
  <2>6. Leave(p, e)
    BY <1>5 DEF ReceiveIgot
  <2> QED BY <1>3, <2>4, <2>5, <2>6
<1>6. ASSUME NEW s \in Artifact, NEW force \in BOOLEAN, Redeltify(p, a, s, force, Artifact)
      PROVE  LinkInv'
  <2> PICK e : e = Deltify(c, a, s, force, Artifact)
    OBVIOUS
  <2>1. Upkeep(c, e)
    BY <1>1, DeltifyStep
  <2>2. ASSUME AllLinked(c) PROVE Proceeds(c, e, {}, {}, {}, {})
    <3>1. s \in Artifact \ {} /\ (force => {} = {})
      OBVIOUS
    <3> QED BY <1>2, <2>2, <3>1, DeltifyProceeds
  <2>3. Leave(p, e)
    BY <1>6 DEF Redeltify
  <2> QED BY <1>3, <2>1, <2>2, <2>3
<1> QED BY <1>4, <1>5, <1>6

LEMMA ReceiveFileLinks ==
    ASSUME IInv, LinkInv, Calm, NEW p \in active, NEW a \in Artifact,
           NEW s \in Artifact \cup {None}, NEW priv, NEW right \in BOOLEAN, NEW worth,
           ReceiveFile(p, a, s, priv, right, worth)
    PROVE  LinkInv'
<1> PICK c : c = Context(p)
  OBVIOUS
<1> PICK d : d = AcceptFile(c, a, s, priv, right, worth)
  OBVIOUS
<1>1. Leave(p, d) /\ a \notin shun /\ (~early' => ~LinksEarly(c, a, s, right))
  BY DEF ReceiveFile
<1>2. AllLinked(c) /\ ~early' => AllLinked(d)
  BY <1>1, AcceptFileLinks
<1> QED BY <1>1, <1>2, LeaveLinks

LEMMA NextLinks == IInv /\ LinkInv /\ [Next]_vars => LinkInv'
<1> SUFFICES ASSUME IInv, LinkInv, [Next]_vars PROVE LinkInv'
  OBVIOUS
<1>1. CASE UNCHANGED vars
  <2>1. repo' = repo /\ work' = work /\ shun' = shun /\ active' = active /\ early' = early
    BY <1>1 DEF vars, setting
  <2> QED BY <2>1 DEF LinkInv, Rows, Links, RowGood, Alone
<1>2. CASE Next
  <2>1. shun' = shun /\ active' = active
    BY <1>2 DEF Next, setting
  <2>2. PICK p \in active :
      \/ Begin(p) \/ Commit(p) \/ VerifyPanic(p) \/ Stop(p)
      \/ \E a \in Artifact :
           \/ Publish(p, a) \/ Read(p, a)
           \/ \E isPriv, may \in Flag : ReceiveIgot(p, a, isPriv, may)
           \/ \E s \in Artifact \cup {None}, worth \in {{}, Artifact} :
                \E flag \in Flag, right \in BOOLEAN :
                   ReceiveFile(p, a, s, flag, right, worth)
           \/ \E s \in Artifact, force \in BOOLEAN :
                Redeltify(p, a, s, force, Artifact)
    BY <1>2 DEF Next
  <2>3. CASE Begin(p) \/ Commit(p) \/ VerifyPanic(p) \/ Stop(p)
    <3>1. Calm
      BY <2>1, <2>3 DEF Calm, Begin, Commit, VerifyPanic, Stop, Gone
    <3>2. Begin(p) \/ Commit(p) \/ Gone(p)
      BY <2>3 DEF VerifyPanic, Stop
    <3> QED BY <3>1, <3>2, OutsideLinks
  <2>4. ASSUME NEW a \in Artifact, Read(p, a) PROVE LinkInv'
    <3>1. Calm
      BY <2>1, <2>4 DEF Calm, Read
    <3> QED BY <2>4, <3>1, OutsideLinks
  <2>5. ASSUME NEW a \in Artifact,
               \/ Publish(p, a)
               \/ \E priv, may \in Flag : ReceiveIgot(p, a, priv, may)
               \/ \E s \in Artifact, force \in BOOLEAN : Redeltify(p, a, s, force, Artifact)
        PROVE  LinkInv'
    <3>1. Calm
      BY <2>1, <2>5 DEF Calm, Publish, ReceiveIgot, Redeltify
    <3> QED BY <2>5, <3>1, InsideLinks
  <2>6. ASSUME NEW a \in Artifact, NEW s \in Artifact \cup {None}, NEW worth, NEW flag,
               NEW right \in BOOLEAN, ReceiveFile(p, a, s, flag, right, worth)
        PROVE  LinkInv'
    <3>1. Calm
      BY <2>1, <2>6 DEF Calm, ReceiveFile
    <3> QED BY <2>6, <3>1, ReceiveFileLinks
  <2> QED BY <2>2, <2>3, <2>4, <2>5, <2>6
<1> QED BY <1>1, <1>2

(* A committed manifest that can be read, and whose baseline can be read,  *)
(* has been crosslinked, in whatever order, as whatever deltas, the        *)
(* manifests and their baselines come, and whatever wrong content comes    *)
(* with them: after_dephantomize() misses none, as long as the process is  *)
(* alone and links nothing that is not readable.                           *)
THEOREM NoManifestIsMissed == Spec => []ReadableIsLinked
<1>1. IInv /\ LinkInv /\ [Next]_vars => LinkInv'
  BY NextLinks
<1>2. LinkInv => ReadableIsLinked
  <2> SUFFICES ASSUME LinkInv, Alone, ~early, NEW a \in Artifact, Intact(repo, a),
                      Baseline[a] # None => Intact(repo, Baseline[a])
               PROVE  a \in repo.linked
    BY DEF ReadableIsLinked
  <2>1. a \in I(repo) \ {}
    BY DEF R, I, Intact
  <2>2. Settled(repo, a, {})
    BY <2>1 DEF LinkInv, Rows, Links
  <2>3. Baseline[a] # None => Baseline[a] \in I(repo)
    BY StoreAssumption DEF R, I, Intact
  <2> QED BY <2>2, <2>3 DEF Settled
<1> QED BY InitLinks, Inductive, <1>1, <1>2, PTL DEF Spec
=============================================================================
