----------------------------- MODULE SyncProofs -----------------------------
(***************************************************************************)
(* Proofs about the sync protocol, for every set of repositories, every    *)
(* graph of artifacts, every message limit and every number of faults.     *)
(***************************************************************************)
EXTENDS Sync, FiniteSetTheorems, TLAPS

(* s consists of the four tables.                                          *)
IsTables(s) == DOMAIN s = {"real", "phantom", "unclustered", "unsent"}

(* What a repository knows, phantoms included, is in table unclustered or  *)
(* in a cluster that it has.  Announced alone is not inductive: a phantom  *)
(* may become real.                                                        *)
Accounted(s) == Known(s) \ s.unclustered \subseteq Listed(s.real)

(* What TypeOK says of the tables of one repository.                       *)
Consistent(s) ==
    /\ s.real \cap s.phantom = {}
    /\ s.unclustered \subseteq Known(s)
    /\ s.unsent \subseteq s.real
    /\ \A x \in s.real : RefsOf(x) \subseteq Known(s)

Good(s) == IsTables(s) /\ Accounted(s) /\ Consistent(s)

LEMMA ClusterListed ==
  ASSUME NEW U
  PROVE  Listed({Cluster(U)}) = U /\ RefsOf(Cluster(U)) = U
<1>1. Cluster(U)[1] = "cluster" /\ Cluster(U)[2] = U
  BY DEF Cluster
<1>2. {y \in {Cluster(U)} : IsCluster(y)} = {Cluster(U)}
  BY <1>1 DEF IsCluster
<1>3. {x[2] : x \in {Cluster(U)}} = {U}
  BY <1>1
<1>4. Listed({Cluster(U)}) = UNION {U}
  BY <1>2, <1>3 DEF Listed
<1>5. UNION {U} = U
  OBVIOUS
<1> QED
  BY <1>1, <1>4, <1>5 DEF RefsOf, IsCluster

LEMMA ListedUnion ==
  ASSUME NEW X, NEW Y
  PROVE  Listed(X \cup Y) = Listed(X) \cup Listed(Y)
<1>1. {y \in X \cup Y : IsCluster(y)} = {y \in X : IsCluster(y)} \cup {y \in Y : IsCluster(y)}
  OBVIOUS
<1> QED
  BY <1>1 DEF Listed

(* The tables after content_new() of what is unknown of X.                 *)
LEMMA PhantomizeTables ==
  ASSUME NEW s, NEW X, IsTables(s)
  PROVE  /\ IsTables(Phantomize(s, X))
         /\ Phantomize(s, X).real = s.real
         /\ Phantomize(s, X).phantom = s.phantom \cup (X \ Known(s))
         /\ Phantomize(s, X).unclustered = s.unclustered \cup (X \ Known(s))
         /\ Phantomize(s, X).unsent = s.unsent
BY DEF IsTables, Phantomize

(* The tables after content_put_ex() and manifest_crosslink() of X.        *)
LEMMA PutTables ==
  ASSUME NEW s, NEW X, IsTables(s)
  PROVE  LET more == (X \cup UNION {RefsOf(x) : x \in X}) \ Known(s)
         IN  /\ IsTables(Put(s, X))
             /\ Put(s, X).real = s.real \cup X
             /\ Put(s, X).phantom = (s.phantom \cup more) \ X
             /\ Put(s, X).unclustered = (s.unclustered \cup more) \ Listed(X)
             /\ Put(s, X).unsent = s.unsent
<1> DEFINE all == X \cup UNION {RefsOf(x) : x \in X}
           t == Phantomize(s, all)
<1>1. /\ IsTables(t) /\ t.real = s.real /\ t.unsent = s.unsent
      /\ t.phantom = s.phantom \cup (all \ Known(s))
      /\ t.unclustered = s.unclustered \cup (all \ Known(s))
  BY PhantomizeTables
<1>2. Put(s, X) = [t EXCEPT !.real = t.real \cup X, !.phantom = t.phantom \ X,
                            !.unclustered = t.unclustered \ Listed(X)]
  BY DEF Put
<1> HIDE DEF t, all
<1>3. /\ IsTables(Put(s, X)) /\ Put(s, X).unsent = t.unsent
      /\ Put(s, X).real = t.real \cup X /\ Put(s, X).phantom = t.phantom \ X
      /\ Put(s, X).unclustered = t.unclustered \ Listed(X)
  BY <1>1, <1>2 DEF IsTables
<1> QED
  BY <1>1, <1>3 DEF all

(* content_new() adds what it makes known to table unclustered.            *)
LEMMA PhantomizeGood ==
  ASSUME NEW s, NEW X, Good(s)
  PROVE  Good(Phantomize(s, X)) /\ Phantomize(s, X).real = s.real
<1> DEFINE t == Phantomize(s, X)
<1>1. /\ IsTables(t) /\ t.real = s.real
      /\ t.phantom = s.phantom \cup (X \ Known(s))
      /\ t.unclustered = s.unclustered \cup (X \ Known(s))
      /\ t.unsent = s.unsent
  BY PhantomizeTables DEF Good
<1> HIDE DEF t
<1>2. Known(t) \ t.unclustered \subseteq Known(s) \ s.unclustered
  BY <1>1 DEF Known
<1>3. Accounted(t)
  BY <1>1, <1>2 DEF Good, Accounted
<1>4. Known(s) \subseteq Known(t) /\ t.unclustered \subseteq Known(t)
  BY <1>1 DEF Good, Consistent, Known
<1>5. t.real \cap t.phantom = {} /\ t.unsent \subseteq t.real
  BY <1>1 DEF Good, Consistent, Known
<1>6. Consistent(t)
  BY <1>1, <1>4, <1>5 DEF Good, Consistent
<1> QED
  BY <1>1, <1>3, <1>6 DEF Good, t

LEMMA PutConsistent ==
  ASSUME NEW s, NEW X, IsTables(s), Consistent(s)
  PROVE  Consistent(Put(s, X))
<1> DEFINE p == Put(s, X)
           more == (X \cup UNION {RefsOf(x) : x \in X}) \ Known(s)
<1>1. /\ p.real = s.real \cup X
      /\ p.phantom = (s.phantom \cup more) \ X
      /\ p.unclustered = (s.unclustered \cup more) \ Listed(X)
      /\ p.unsent = s.unsent
  BY PutTables
<1>2. /\ X \subseteq Known(s) \cup more
      /\ \A x \in X : RefsOf(x) \subseteq Known(s) \cup more
      /\ s.real \cap more = {}
  BY DEF Known
<1> HIDE DEF p, more
<1>3. Known(p) = Known(s) \cup more
  BY <1>1, <1>2 DEF Known
<1>4. p.real \cap p.phantom = {} /\ p.unclustered \subseteq Known(p)
  BY <1>1, <1>2, <1>3 DEF Consistent
<1>5. \A x \in p.real : RefsOf(x) \subseteq Known(p)
  BY <1>1, <1>2, <1>3 DEF Consistent
<1> QED
  BY <1>1, <1>4, <1>5 DEF Consistent, p

(* A received cluster accounts for what it takes out of unclustered.       *)
LEMMA PutGood ==
  ASSUME NEW s, NEW X, Good(s)
  PROVE  Good(Put(s, X)) /\ Put(s, X).real = s.real \cup X
<1> DEFINE p == Put(s, X)
           more == (X \cup UNION {RefsOf(x) : x \in X}) \ Known(s)
<1>1. /\ IsTables(p) /\ p.real = s.real \cup X
      /\ p.phantom = (s.phantom \cup more) \ X
      /\ p.unclustered = (s.unclustered \cup more) \ Listed(X)
  BY PutTables DEF Good
<1>2. X \subseteq Known(s) \cup more
  OBVIOUS
<1>3. Consistent(p)
  BY PutConsistent DEF Good
<1> HIDE DEF p, more
<1>4. Known(p) = Known(s) \cup more
  BY <1>1, <1>2 DEF Known
<1>5. Listed(p.real) = Listed(s.real) \cup Listed(X)
  BY <1>1, ListedUnion
<1>6. Accounted(p)
  BY <1>1, <1>4, <1>5 DEF Good, Accounted
<1> QED
  BY <1>1, <1>3, <1>6 DEF Good, p

(* The tables after create_cluster() has made a cluster.                   *)
LEMMA ClusterTables ==
  ASSUME NEW s, IsTables(s), Consistent(s), ~(Cardinality(Unclustered(s)) < MinCluster)
  PROVE  LET U == Unclustered(s)
             K == Cluster(U)
             p == CreateCluster(s)
             more == {K} \ Known(s)
         IN  /\ IsTables(p) /\ Consistent(p) /\ p.real = s.real \cup {K}
             /\ p.phantom = (s.phantom \cup more) \ {K}
             /\ p.unclustered = (s.unclustered \cup more) \ U
<1> DEFINE U == s.unclustered \cap s.real
           K == Cluster(U)
           s0 == [s EXCEPT !.unclustered = s.unclustered \ U]
           p == Put(s0, {K})
           more == {K} \ Known(s)
<1>1. Listed({K}) = U /\ UNION {RefsOf(x) : x \in {K}} = U
  <2>1. Listed({K}) = U /\ RefsOf(K) = U
    BY ClusterListed
  <2>2. {RefsOf(x) : x \in {K}} = {U}
    BY <2>1
  <2> QED
    BY <2>1, <2>2
<1>2. /\ IsTables(s0) /\ s0.real = s.real /\ s0.phantom = s.phantom
      /\ s0.unclustered = s.unclustered \ U /\ s0.unsent = s.unsent
  BY DEF IsTables
<1>3. Known(s0) = Known(s) /\ Consistent(s0) /\ U \subseteq Known(s)
  BY <1>2 DEF Known, Consistent
<1>4. CreateCluster(s) = p /\ Unclustered(s) = U
  BY DEF CreateCluster, Unclustered
<1> HIDE DEF s0, K, U
<1> DEFINE new == ({K} \cup UNION {RefsOf(x) : x \in {K}}) \ Known(s0)
<1>5. /\ IsTables(p) /\ p.real = s0.real \cup {K}
      /\ p.phantom = (s0.phantom \cup new) \ {K}
      /\ p.unclustered = (s0.unclustered \cup new) \ Listed({K})
  BY <1>2, PutTables
<1>6. new = more
  BY <1>1, <1>3
<1>7. Consistent(p)
  BY <1>2, <1>3, PutConsistent
<1> HIDE DEF p, new, more
<1>8. p.unclustered = (s.unclustered \cup more) \ U
  BY <1>1, <1>2, <1>5, <1>6
<1> QED
  BY <1>2, <1>4, <1>5, <1>6, <1>7, <1>8 DEF K, more

(* create_cluster() lists every artifact that it takes out of unclustered, *)
(* and the new cluster itself is unclustered.                              *)
LEMMA CreateClusterGood ==
  ASSUME NEW s, Good(s)
  PROVE  Good(CreateCluster(s)) /\ s.real \subseteq CreateCluster(s).real
<1> DEFINE U == Unclustered(s)
           K == Cluster(U)
           p == CreateCluster(s)
           more == {K} \ Known(s)
<1>1. CASE Cardinality(U) < MinCluster
  BY <1>1 DEF CreateCluster, Unclustered
<1>2. CASE ~(Cardinality(U) < MinCluster)
  <2>1. /\ IsTables(p) /\ Consistent(p) /\ p.real = s.real \cup {K}
        /\ p.phantom = (s.phantom \cup more) \ {K}
        /\ p.unclustered = (s.unclustered \cup more) \ U
    BY <1>2, ClusterTables DEF Good
  <2>2. Listed({K}) = U
    BY ClusterListed
  <2> HIDE DEF p, K, U
  <2>3. Known(p) \subseteq Known(s) \cup {K}
    BY <2>1 DEF Known
  <2>4. Listed(p.real) = Listed(s.real) \cup U
    BY <2>1, <2>2, ListedUnion
  <2>5. Accounted(p)
    BY <2>1, <2>3, <2>4 DEF Good, Accounted
  <2> QED
    BY <2>1, <2>5 DEF Good, p
<1> QED
  BY <1>1, <1>2

LEMMA UnsentGood ==
  ASSUME NEW s, NEW X, Good(s), X \subseteq s.real
  PROVE  Good([s EXCEPT !.unsent = X]) /\ [s EXCEPT !.unsent = X].real = s.real
<1> DEFINE t == [s EXCEPT !.unsent = X]
<1>1. /\ IsTables(t) /\ t.real = s.real /\ t.phantom = s.phantom
      /\ t.unclustered = s.unclustered /\ t.unsent = X
  BY DEF Good, IsTables
<1> HIDE DEF t
<1> QED
  <2>1. Known(t) = Known(s)
    BY <1>1 DEF Known
  <2>2. Accounted(t) /\ Consistent(t)
    BY <1>1, <2>1 DEF Good, Accounted, Consistent
  <2> QED
    BY <1>1, <2>2 DEF Good, t

-----------------------------------------------------------------------------
(* The inductive invariant of the tables of all repositories.              *)
StoreGood == DOMAIN store = Repo /\ \A r \in Repo : Good(store[r])

LEMMA StoreStep ==
  ASSUME StoreGood, NEW r \in Repo, NEW s, Good(s),
         store' = [store EXCEPT ![r] = s]
  PROVE  StoreGood'
BY DEF StoreGood

LEMMA StoreGoodInit == Init => StoreGood
<1> SUFFICES ASSUME Init PROVE StoreGood
  OBVIOUS
<1>1. Good(NoData)
  BY DEF NoData, Good, IsTables, Accounted, Consistent, Known
<1> QED
  BY <1>1 DEF Init, StoreGood

LEMMA StoreGoodStep ==
  ASSUME StoreGood, [Next]_vars
  PROVE  StoreGood'
<1> USE SyncAssumption
<1>1. ASSUME NEW new \in Commits, New(new[1], new[2]) PROVE StoreGood'
  <2> DEFINE r == new[1]
             p == Put(store[r], new[2])
  <2>1. r \in Repo
    OBVIOUS
  <2>2. Good(p)
    BY <2>1, PutGood DEF StoreGood
  <2>3. Good([p EXCEPT !.unsent = p.unsent \cup new[2]])
    <3>1. new[2] \subseteq p.real
      BY <2>1, PutGood DEF StoreGood
    <3> HIDE DEF p
    <3>2. p.unsent \subseteq p.real
      BY <2>2 DEF Good, Consistent
    <3> QED
      BY <2>2, <3>1, <3>2, UnsentGood
  <2>4. store' = [store EXCEPT ![r] = [p EXCEPT !.unsent = p.unsent \cup new[2]]]
    BY <1>1 DEF New
  <2> QED
    BY <2>1, <2>3, <2>4, StoreStep
<1>2. ASSUME NEW c \in Client, NEW slow \in BOOLEAN, Serve(c, slow)
      PROVE  StoreGood'
  <2> DEFINE m == request[c]
             s1 == Put(store[Server], m.queued)
             s2 == Put(s1, m.files)
             s3 == IF m.push THEN Phantomize(s2, m.igots) ELSE s2
             s4 == IF m.pull THEN CreateCluster(s3) ELSE s3
  <2>1. Server \in Repo
    BY DEF Repo
  <2>2. Good(s1)
    BY <2>1, PutGood DEF StoreGood
  <2>3. Good(s2)
    BY <2>2, PutGood
  <2>4. Good(s3)
    BY <2>3, PhantomizeGood
  <2>5. Good(s4)
    BY <2>4, CreateClusterGood
  <2>6. store' = [store EXCEPT ![Server] = s4]
    BY <1>2 DEF Serve
  <2> QED
    BY <2>1, <2>5, <2>6, StoreStep
<1>3. ASSUME NEW c \in Client, HandleReply(c) PROVE StoreGood'
  <2> DEFINE m == reply[c]
             t1 == Put(store[c], m.files)
             t2 == IF sess[c].pull THEN Phantomize(t1, m.igots) ELSE t1
             t3 == [t2 EXCEPT !.unsent = IF sess[c].push THEN {} ELSE @]
  <2>1. c \in Repo
    BY DEF Repo
  <2>2. Good(t1)
    BY <2>1, PutGood DEF StoreGood
  <2>3. Good(t2)
    BY <2>2, PhantomizeGood
  <2>4. Good(t3)
    BY <2>3, UnsentGood DEF Good, Consistent
  <2>5. store' = [store EXCEPT ![c] = t3]
    BY <1>3 DEF HandleReply
  <2> QED
    BY <2>1, <2>4, <2>5, StoreStep
<1>4. ASSUME NEW c \in Client, Fail(c) PROVE StoreGood'
  <2> DEFINE t == [store[c] EXCEPT !.unsent = IF sess[c].push THEN {} ELSE @]
  <2>1. c \in Repo
    BY DEF Repo
  <2>2. Good(t)
    BY <2>1, UnsentGood DEF StoreGood, Good, Consistent
  <2>3. store' = [store EXCEPT ![c] = t]
    BY <1>4 DEF Fail
  <2> QED
    BY <2>1, <2>2, <2>3, StoreStep
<1>5. ASSUME NEW c \in Client,
             (\E mode \in Modes[c] : Start(c, mode)) \/ Request(c) \/ Kill(c)
      PROVE  StoreGood'
  BY <1>5 DEF Start, Request, Kill, StoreGood
<1>6. CASE UNCHANGED vars
  BY <1>6 DEF vars, StoreGood
<1> QED
  BY <1>1, <1>2, <1>3, <1>4, <1>5, <1>6 DEF Next

(* Whatever a repository has can be found from what it announces, through  *)
(* the clusters that it has: no step of a sync, no failed exchange and no  *)
(* cluster formed on the way ever hides an artifact from later syncs.      *)
THEOREM EverythingIsAnnounced == Spec => []Announced
<1>1. StoreGood => Announced
  BY DEF StoreGood, Good, Accounted, Known, Announced
<1> QED
  BY <1>1, StoreGoodInit, StoreGoodStep, PTL DEF Spec

-----------------------------------------------------------------------------
(* What there is to exchange: files, and the clusters that the server made.*)
Universe(t) == File \cup {x \in t.real : IsCluster(x)}

(* The tables of the server: whatever a cluster lists is there, and no     *)
(* longer unclustered; clusters do not list each other in a circle.        *)
ServerGood(t) ==
    /\ IsFiniteSet(t.real)
    /\ Known(t) \subseteq Universe(t)
    /\ Listed(t.real) \subseteq t.real
    /\ t.unclustered \cap Listed(t.real) = {}
    /\ \A S \in SUBSET t.real : S # {} => \E x \in S : x \notin Listed(S)

WorldGood ==
    /\ ServerGood(store[Server])
    /\ \A r \in Repo : Known(store[r]) \subseteq Universe(store[Server])

(* The inductive invariant of one client: its session e, the messages q    *)
(* and a on their way, and what it has (mine) and the server has (theirs). *)
(* A message promises only what its sender has, and asks only for what it  *)
(* lacks; while no message is under way New may add to mine.               *)
Fields == {"pc", "push", "pull", "cycle", "nGimmeRcvd", "mxPhantomReq", "files",
           "igots"}

ClientGood(e, q, a, mine, theirs) ==
    /\ DOMAIN e = Fields
    /\ e.pc \in {"idle", "ready", "sent", "answered"} /\ e.cycle \in 0 .. 3
    /\ e.mxPhantomReq \in Nat /\ e.mxPhantomReq >= ClientReq
    /\ e.files \cap e.igots = {} /\ e.files \cup e.igots \subseteq mine
    /\ q.files \cup q.queued \subseteq mine /\ q.gimmes \cap mine = {}
    /\ a.files \cup a.igots \subseteq theirs
    /\ e.pc \in {"idle", "ready"} => q = NoRequest

ClientsGood ==
    \A c \in Client : ClientGood(sess[c], request[c], reply[c],
                                 store[c].real, store[Server].real)

SessionGood ==
    /\ DOMAIN sess = Client /\ DOMAIN request = Client /\ DOMAIN reply = Client
    /\ quiet \subseteq Client /\ faults \in 0 .. MaxFaults
    /\ ClientsGood

LEMMA UpToSubset ==
  ASSUME NEW X, NEW n, NEW G \in UpTo(n, X)
  PROVE  G \subseteq X
BY DEF UpTo, kSubset

(* Unless all are chosen, as many are as may be.                           *)
LEMMA UpToAll ==
  ASSUME NEW X, IsFiniteSet(X), NEW n \in Nat, NEW G \in UpTo(n, X)
  PROVE  IsFiniteSet(G) /\ (G = X \/ Cardinality(G) = n)
<1>1. G \in SUBSET X /\ (Cardinality(G) = Cardinality(X) \/ Cardinality(G) = n)
  BY DEF UpTo, kSubset
<1> QED
  BY <1>1, FS_Subset

LEMMA FittingSubset ==
  ASSUME NEW X, NEW n, NEW F \in Fitting(X, n)
  PROVE  F \subseteq X
BY UpToSubset DEF Fitting

LEMMA ClientGrows ==
  ASSUME NEW e, NEW q, NEW a, NEW mine, NEW theirs, NEW mine2, NEW theirs2,
         ClientGood(e, q, a, mine, theirs), mine \subseteq mine2,
         theirs \subseteq theirs2, mine2 = mine \/ q = NoRequest
  PROVE  ClientGood(e, q, a, mine2, theirs2)
BY DEF ClientGood, NoRequest

(* A client without a session, after a failure, a kill or the last round.  *)
LEMMA NoSessionGood ==
  ASSUME NEW mine, NEW theirs
  PROVE  ClientGood(NoSession, NoRequest, NoReply, mine, theirs)
BY SyncAssumption DEF ClientGood, Fields, NoSession, NoRequest, NoReply

(* A step of client c leaves the others alone.                             *)
LEMMA ClientStep ==
  ASSUME ClientsGood, NEW c \in Client,
         \A d \in Client \ {c} : /\ sess'[d] = sess[d] /\ request'[d] = request[d]
                                  /\ reply'[d] = reply[d]
                                  /\ store'[d].real = store[d].real,
         store[Server].real \subseteq store'[Server].real,
         ClientGood(sess'[c], request'[c], reply'[c],
                    store'[c].real, store'[Server].real)
  PROVE  ClientsGood'
<1> SUFFICES ASSUME NEW d \in Client
             PROVE  ClientGood(sess'[d], request'[d], reply'[d],
                               store'[d].real, store'[Server].real)
  BY DEF ClientsGood
<1>1. CASE d = c
  BY <1>1
<1>2. CASE d # c
  <2>1. ClientGood(sess[d], request[d], reply[d], store[d].real, store[Server].real)
    BY DEF ClientsGood
  <2>2. ClientGood(sess[d], request[d], reply[d], store[d].real, store'[Server].real)
    BY <2>1, ClientGrows
  <2> QED
    BY <1>2, <2>2
<1> QED
  BY <1>1, <1>2

LEMMA SessionGoodInit == Init => SessionGood
BY NoSessionGood, SyncAssumption DEF Init, SessionGood, ClientsGood

(* What the tables of page_xfer() hold after each of its steps.            *)
LEMMA ServeStore ==
  ASSUME NEW s, NEW m, Good(s)
  PROVE  LET s1 == Put(s, m.queued)
             s2 == Put(s1, m.files)
             s3 == IF m.push THEN Phantomize(s2, m.igots) ELSE s2
             s4 == IF m.pull THEN CreateCluster(s3) ELSE s3
         IN  s.real \subseteq s1.real /\ s1.real \subseteq s4.real
<1> DEFINE s1 == Put(s, m.queued)
           s2 == Put(s1, m.files)
           s3 == IF m.push THEN Phantomize(s2, m.igots) ELSE s2
           s4 == IF m.pull THEN CreateCluster(s3) ELSE s3
<1>1. Good(s1) /\ s.real \subseteq s1.real
  BY PutGood
<1> HIDE DEF s1
<1>2. Good(s2) /\ s1.real \subseteq s2.real
  BY <1>1, PutGood
<1> HIDE DEF s2
<1>3. Good(s3) /\ s2.real \subseteq s3.real
  BY <1>2, PhantomizeGood
<1> HIDE DEF s3
<1>4. s3.real \subseteq s4.real
  BY <1>3, CreateClusterGood
<1> HIDE DEF s4
<1>5. s.real \subseteq s1.real /\ s1.real \subseteq s4.real
  BY <1>1, <1>2, <1>3, <1>4
<1> QED
  BY <1>5 DEF s4, s3, s2, s1

LEMMA NewClients ==
  ASSUME StoreGood, SessionGood, NEW new \in Commits, New(new[1], new[2])
  PROVE  SessionGood'
<1> DEFINE r == new[1]
           p == Put(store[r], new[2])
<1>1. r \in Repo /\ Server \in Repo
  BY SyncAssumption DEF Repo
<1>2. Good(p) /\ p.real = store[r].real \cup new[2]
  BY <1>1, PutGood DEF StoreGood
<1>3. store' = [store EXCEPT ![r] = [p EXCEPT !.unsent = p.unsent \cup new[2]]]
  BY DEF New
<1> HIDE DEF p
<1>4. store'[r].real = store[r].real \cup new[2]
  BY <1>1, <1>2, <1>3 DEF StoreGood, Good, IsTables
<1>5. \A d \in Repo \ {r} : store'[d] = store[d]
  BY <1>3 DEF StoreGood
<1>6. ClientsGood'
  <2> SUFFICES ASSUME NEW d \in Client
               PROVE  ClientGood(sess[d], request[d], reply[d],
                                 store'[d].real, store'[Server].real)
    BY DEF New, ClientsGood
  <2>1. ClientGood(sess[d], request[d], reply[d], store[d].real, store[Server].real)
    BY DEF SessionGood, ClientsGood
  <2>2. store[Server].real \subseteq store'[Server].real
    BY <1>1, <1>4, <1>5
  <2>3. d \in Repo
    BY DEF Repo
  <2>4. CASE d = r
    <3>1. request[d] = NoRequest
      BY <2>1, <2>4 DEF New, ClientGood
    <3>2. store[d].real \subseteq store'[d].real
      BY <1>4, <2>4
    <3> QED
      BY <2>1, <2>2, <3>1, <3>2, ClientGrows
  <2>5. CASE d # r
    <3>1. store'[d].real = store[d].real
      BY <1>5, <2>3, <2>5
    <3> QED
      BY <2>1, <2>2, <3>1, ClientGrows
  <2> QED
    BY <2>4, <2>5
<1> QED
  BY <1>6 DEF New, SessionGood

LEMMA RequestClients ==
  ASSUME StoreGood, SessionGood, NEW c \in Client, Request(c)
  PROVE  SessionGood'
<1> DEFINE s == sess[c]
           unsent == IF s.push THEN store[c].unsent ELSE {}
           phantoms == IF s.pull THEN store[c].phantom ELSE {}
<1>1. c \in Repo
  BY DEF Repo
<1>2. PICK F \in Fitting(unsent, Cardinality(s.files)), G \in UpTo(s.mxPhantomReq, phantoms) :
        LET clusters == IF s.nGimmeRcvd > 0 /\ s.cycle = 2
                        THEN AllClusters(store[c]) ELSE {}
        IN  request' = [request EXCEPT ![c] =
              [push |-> s.push, pull |-> s.pull, queued |-> s.files, files |-> F,
               igots |-> s.igots \cup (unsent \ F) \cup
                         (IF s.push THEN (Unclustered(store[c]) \cup clusters) \ F
                                    ELSE {}),
               gimmes |-> G,
               reqClusters |-> G # {} /\ s.cycle = 2]]
  BY DEF Request
<1>3. F \subseteq store[c].real
  <2>1. F \subseteq unsent
    BY FittingSubset
  <2>2. store[c].unsent \subseteq store[c].real
    BY <1>1 DEF StoreGood, Good, Consistent
  <2> QED
    BY <2>1, <2>2
<1>4. store[c].phantom \cap store[c].real = {}
  BY <1>1 DEF StoreGood, Good, Consistent
<1>5. /\ request'[c].files = F /\ request'[c].queued = s.files
      /\ request'[c].gimmes \subseteq store[c].phantom
      /\ DOMAIN request' = Client
      /\ \A d \in Client \ {c} : request'[d] = request[d]
  BY <1>2, UpToSubset DEF SessionGood
<1>6. /\ ClientGood(s, request[c], reply[c], store[c].real, store[Server].real)
  BY DEF SessionGood, ClientsGood
<1>7. /\ DOMAIN sess'[c] = DOMAIN sess[c] /\ sess'[c].pc = "sent"
      /\ sess'[c].files = {} /\ sess'[c].igots = {} /\ sess'[c].cycle = s.cycle
      /\ sess'[c].mxPhantomReq = s.mxPhantomReq
      /\ DOMAIN sess' = Client
      /\ \A d \in Client \ {c} : sess'[d] = sess[d]
  BY <1>6 DEF Request, SessionGood, ClientGood, Fields
<1>8. UNCHANGED <<store, reply, quiet, faults>>
  BY DEF Request
<1>9. ClientGood(sess'[c], request'[c], reply'[c], store'[c].real, store'[Server].real)
  BY <1>3, <1>4, <1>5, <1>6, <1>7, <1>8 DEF ClientGood
<1>10. ClientsGood'
  BY <1>5, <1>7, <1>8, <1>9, ClientStep DEF SessionGood
<1> QED
  BY <1>5, <1>7, <1>8, <1>10 DEF SessionGood

LEMMA ServeClients ==
  ASSUME StoreGood, SessionGood, NEW c \in Client, NEW slow \in BOOLEAN,
         Serve(c, slow)
  PROVE  SessionGood'
<1> DEFINE m == request[c]
           s1 == Put(store[Server], m.queued)
           asked == IF m.pull THEN m.gimmes \cap s1.real ELSE {}
           s2 == Put(s1, m.files)
           s3 == IF m.push THEN Phantomize(s2, m.igots) ELSE s2
           s4 == IF m.pull THEN CreateCluster(s3) ELSE s3
           clusters == IF m.reqClusters THEN AllClusters(s1) \ m.queued ELSE {}
<1>1. Server \in Repo /\ c # Server /\ c \in Repo /\ Client \subseteq Repo
      /\ Server \notin Client
  BY SyncAssumption DEF Repo
<1>2. PICK F \in Fitting(asked, IF slow THEN Budget ELSE 0), W \in Wanted(s3, m) :
        LET onremote == m.queued \cup F \cup m.files
                          \cup (IF m.push THEN m.igots ELSE {})
        IN  reply' = [reply EXCEPT ![c] =
              [files |-> F,
               igots |-> (asked \ F) \cup (clusters \ F) \cup
                         (IF m.pull THEN Unclustered(s4) \ onremote ELSE {}),
               gimmes |-> W]]
  BY DEF Serve
<1>3. F \subseteq asked
  BY FittingSubset
<1>4. store[Server].real \subseteq s1.real /\ s1.real \subseteq s4.real
  BY <1>1, ServeStore DEF StoreGood
<1>5. store' = [store EXCEPT ![Server] = s4]
  BY DEF Serve
<1>6. clusters \subseteq s1.real /\ Unclustered(s4) \subseteq s4.real
      /\ asked \subseteq s1.real
  BY DEF AllClusters, Unclustered
<1> HIDE DEF clusters, asked, s4
<1>7. /\ store'[Server].real = s4.real
      /\ \A d \in Client : store'[d] = store[d]
  BY <1>1, <1>5 DEF StoreGood
<1>8. /\ reply'[c].files \cup reply'[c].igots \subseteq s4.real
      /\ DOMAIN reply' = Client
      /\ \A d \in Client \ {c} : reply'[d] = reply[d]
  BY <1>2, <1>3, <1>4, <1>6 DEF SessionGood
<1>9. /\ ClientGood(sess[c], request[c], reply[c], store[c].real, store[Server].real)
  BY DEF SessionGood, ClientsGood
<1>10. /\ DOMAIN sess'[c] = DOMAIN sess[c] /\ sess'[c].pc = "answered"
       /\ sess'[c].files = sess[c].files /\ sess'[c].igots = sess[c].igots
       /\ sess'[c].cycle = sess[c].cycle /\ sess'[c].mxPhantomReq = sess[c].mxPhantomReq
       /\ DOMAIN sess' = Client
       /\ \A d \in Client \ {c} : sess'[d] = sess[d]
       /\ request' = request
  BY <1>9 DEF Serve, SessionGood, ClientGood, Fields
<1>11. ClientGood(sess'[c], request'[c], reply'[c], store'[c].real, store'[Server].real)
  BY <1>7, <1>8, <1>9, <1>10 DEF ClientGood
<1>12. ClientsGood'
  BY <1>4, <1>7, <1>8, <1>10, <1>11, ClientStep DEF SessionGood
<1>13. quiet' \subseteq Client /\ faults' \in 0 .. MaxFaults
  BY SyncAssumption DEF Serve, SessionGood
<1> QED
  BY <1>8, <1>10, <1>12, <1>13 DEF SessionGood

LEMMA UniverseFinite == ASSUME NEW t, ServerGood(t) PROVE IsFiniteSet(Universe(t))
<1>1. IsFiniteSet(t.real \cup File)
  BY FS_Union, SyncAssumption DEF ServerGood
<1> QED
  BY <1>1, FS_Subset DEF Universe

LEMMA ReqAfterBound ==
  ASSUME NEW n \in Nat
  PROVE  ReqAfter(n) \in Nat /\ ReqAfter(n) >= ClientReq
BY SyncAssumption DEF ReqAfter

LEMMA HandleReplyClients ==
  ASSUME StoreGood, SessionGood, WorldGood, NEW c \in Client, HandleReply(c)
  PROVE  SessionGood'
<1> DEFINE s == sess[c]
           m == reply[c]
           t1 == Put(store[c], m.files)
           t2 == IF s.pull THEN Phantomize(t1, m.igots) ELSE t1
           newPhantom == s.pull /\ ~(m.igots \subseteq Known(t1))
           onremote == request[c].files \cup m.files \cup m.igots
           asked == IF s.push THEN (m.gimmes \cap t2.real) \ onremote ELSE {}
<1>1. c \in Repo /\ Server # c
  BY SyncAssumption DEF Repo
<1>2. PICK F \in Fitting(asked, 0) :
        LET go == Go(Cardinality(m.files), newPhantom, t2, F)
        IN  sess' = [sess EXCEPT ![c] =
              IF ~go THEN NoSession
              ELSE [s EXCEPT
                     !.pc = "ready", !.files = F, !.igots = asked \ F,
                     !.cycle = IF @ < 3 THEN @ + 1 ELSE @,
                     !.mxPhantomReq =
                        IF Ask(Cardinality(m.files), newPhantom, t2)
                        THEN ReqAfter(Cardinality(m.files)) ELSE @,
                     !.nGimmeRcvd =
                        IF s.push THEN Cardinality(m.gimmes \cap Known(t2)) ELSE 0]]
  BY DEF HandleReply
<1>3. F \subseteq asked /\ asked \subseteq t2.real
  BY FittingSubset
<1>4. Good(t2)
  BY <1>1, PutGood, PhantomizeGood DEF StoreGood
<1>5. store' = [store EXCEPT ![c] = [t2 EXCEPT !.unsent = IF s.push THEN {} ELSE @]]
  BY DEF HandleReply
<1> DEFINE go == Go(Cardinality(m.files), newPhantom, t2, F)
           nGimmeRcvd == IF s.push THEN Cardinality(m.gimmes \cap Known(t2)) ELSE 0
           req == IF Ask(Cardinality(m.files), newPhantom, t2)
                  THEN ReqAfter(Cardinality(m.files)) ELSE s.mxPhantomReq
<1>6. sess'= [sess EXCEPT ![c] =
              IF ~go THEN NoSession
              ELSE [s EXCEPT !.pc = "ready", !.files = F, !.igots = asked \ F,
                             !.cycle = IF @ < 3 THEN @ + 1 ELSE @,
                             !.mxPhantomReq = req,
                             !.nGimmeRcvd = nGimmeRcvd]]
  BY <1>2
<1> HIDE DEF asked, t2, go, nGimmeRcvd, req
<1>7. store'[c].real = t2.real /\ \A d \in Repo \ {c} : store'[d] = store[d]
  BY <1>1, <1>4, <1>5 DEF StoreGood, Good, IsTables
<1>8. ClientGood(s, request[c], reply[c], store[c].real, store[Server].real)
  BY DEF SessionGood, ClientsGood
<1>9. /\ DOMAIN sess' = Client /\ DOMAIN request' = Client /\ DOMAIN reply' = Client
      /\ \A d \in Client \ {c} : /\ sess'[d] = sess[d] /\ request'[d] = request[d]
                                 /\ reply'[d] = reply[d]
      /\ request'[c] = NoRequest /\ reply'[c] = NoReply
  BY <1>6 DEF HandleReply, SessionGood
<1>10. req \in Nat /\ req >= ClientReq
  <2>1. m.files \subseteq store[Server].real /\ IsFiniteSet(store[Server].real)
    BY <1>8 DEF ClientGood, WorldGood, ServerGood
  <2>2. Cardinality(m.files) \in Nat
    BY <2>1, FS_Subset, FS_CardinalityType
  <2> QED
    BY <1>8, <2>2, ReqAfterBound DEF req, ClientGood
<1>11. ClientGood(sess'[c], NoRequest, NoReply, store'[c].real, store'[Server].real)
  <2>1. CASE ~go
    <3>1. sess'[c] = NoSession
      BY <1>6, <2>1 DEF SessionGood
    <3> QED
      BY <3>1, NoSessionGood
  <2>2. CASE go
    <3>1. sess'[c] = [s EXCEPT !.pc = "ready", !.files = F, !.igots = asked \ F,
                               !.cycle = IF @ < 3 THEN @ + 1 ELSE @,
                               !.mxPhantomReq = req,
                               !.nGimmeRcvd = nGimmeRcvd]
      BY <1>6, <2>2 DEF SessionGood
    <3>2. /\ DOMAIN sess'[c] = DOMAIN s /\ sess'[c].pc = "ready"
          /\ sess'[c].files = F /\ sess'[c].igots = asked \ F
          /\ sess'[c].cycle = IF s.cycle < 3 THEN s.cycle + 1 ELSE s.cycle
      BY <1>8, <3>1 DEF ClientGood, Fields
    <3>3. sess'[c].cycle \in 0 .. 3
      BY <1>8, <3>2 DEF ClientGood
    <3>4. sess'[c].mxPhantomReq = req
      BY <1>8, <3>1 DEF ClientGood, Fields
    <3> QED
      BY <1>3, <1>7, <1>8, <1>10, <3>2, <3>3, <3>4 DEF ClientGood, NoRequest, NoReply
  <2> QED
    BY <2>1, <2>2
<1>12. ClientsGood'
  <2>1. \A d \in Client \ {c} : store'[d].real = store[d].real
    BY <1>7 DEF Repo
  <2>2. store[Server].real \subseteq store'[Server].real
    BY <1>1, <1>7 DEF Repo
  <2> QED
    BY <1>9, <1>11, <2>1, <2>2, ClientStep DEF SessionGood
<1>13. quiet' \subseteq Client /\ faults' = faults
  BY DEF HandleReply, SessionGood
<1> QED
  BY <1>9, <1>12, <1>13 DEF SessionGood

(* Start, Fail and Kill leave what a repository has alone and give the     *)
(* client a new session, or none.                                          *)
LEMMA OtherClients ==
  ASSUME StoreGood, SessionGood, NEW c \in Client,
         (\E mode \in Modes[c] : Start(c, mode)) \/ Fail(c) \/ Kill(c)
  PROVE  SessionGood'
<1>1. c \in Repo
  BY DEF Repo
<1>2. \A r \in Repo : store'[r].real = store[r].real
  <2>1. CASE Fail(c)
    BY <1>1, <2>1 DEF Fail, StoreGood, Good, IsTables
  <2>2. CASE store' = store
    BY <2>2
  <2> QED
    BY <2>1, <2>2 DEF Start, Kill
<1>3. /\ DOMAIN sess' = Client /\ DOMAIN request' = Client /\ DOMAIN reply' = Client
      /\ \A d \in Client \ {c} : /\ sess'[d] = sess[d] /\ request'[d] = request[d]
                                 /\ reply'[d] = reply[d]
      /\ quiet' \subseteq Client
  BY DEF Start, Fail, Kill, SessionGood
<1>4. faults' \in 0 .. MaxFaults
  <2>1. faults' = faults \/ (faults < MaxFaults /\ faults' = faults + 1)
    BY DEF Start, Fail, Kill
  <2> QED
    BY <2>1, SyncAssumption DEF SessionGood
<1>5. ClientGood(sess'[c], request'[c], reply'[c], store'[c].real, store'[Server].real)
  <2>1. CASE Fail(c) \/ Kill(c)
    <3>1. sess'[c] = NoSession /\ request'[c] = NoRequest /\ reply'[c] = NoReply
      BY <2>1 DEF Fail, Kill, SessionGood
    <3> QED
      BY <3>1, NoSessionGood
  <2>2. CASE \E mode \in Modes[c] : Start(c, mode)
    <3>1. PICK mode \in Modes[c] : Start(c, mode)
      BY <2>2
    <3>2. ClientGood(sess[c], request[c], reply[c], store[c].real, store[Server].real)
      BY DEF SessionGood, ClientsGood
    <3>3. /\ DOMAIN sess'[c] = DOMAIN NoSession /\ sess'[c].pc = "ready"
          /\ sess'[c].files = {} /\ sess'[c].igots = {} /\ sess'[c].cycle = 0
          /\ sess'[c].mxPhantomReq = ClientReq
          /\ request'[c] = request[c] /\ reply'[c] = reply[c] /\ store' = store
          /\ request[c] = NoRequest
      BY <3>1, <3>2 DEF Start, SessionGood, NoSession, ClientGood
    <3> QED
      BY <3>2, <3>3, SyncAssumption DEF ClientGood, Fields, NoSession
  <2> QED
    BY <2>1, <2>2
<1>6. ClientsGood'
  <2>1. \A d \in Client \ {c} : store'[d].real = store[d].real
    BY <1>2 DEF Repo
  <2>2. store[Server].real \subseteq store'[Server].real
    BY <1>2 DEF Repo
  <2> QED
    BY <1>3, <1>5, <2>1, <2>2, ClientStep DEF SessionGood
<1> QED
  BY <1>3, <1>4, <1>6 DEF SessionGood

LEMMA SessionGoodStep ==
  ASSUME StoreGood, SessionGood, WorldGood, [Next]_vars
  PROVE  SessionGood'
<1>1. CASE UNCHANGED vars
  BY <1>1 DEF vars, SessionGood, ClientsGood
<1> QED
  BY <1>1, NewClients, RequestClients, ServeClients, HandleReplyClients,
     OtherClients DEF Next

-----------------------------------------------------------------------------
LEMMA FilesAreNot == ASSUME NEW x \in File PROVE ~IsCluster(x)
BY SyncAssumption DEF IsCluster

LEMMA ListedMono == ASSUME NEW X, NEW Y, X \subseteq Y PROVE Listed(X) \subseteq Listed(Y)
BY DEF Listed

LEMMA ListedHas ==
  ASSUME NEW X, NEW x
  PROVE  x \in Listed(X) <=> \E y \in X : IsCluster(y) /\ x \in y[2]
BY DEF Listed

(* Nothing but clusters that the server has lists anything.                *)
LEMMA ListedOld ==
  ASSUME NEW t, NEW X, X \subseteq Universe(t)
  PROVE  Listed(X) \subseteq Listed(t.real)
<1> SUFFICES ASSUME NEW x \in Listed(X) PROVE x \in Listed(t.real)
  OBVIOUS
<1>1. PICK y \in X : IsCluster(y) /\ x \in y[2]
  BY ListedHas
<1>2. y \in t.real
  BY <1>1, FilesAreNot DEF Universe
<1> QED
  BY <1>1, <1>2, ListedHas

LEMMA RefsInside ==
  ASSUME NEW t, ServerGood(t), NEW X, X \subseteq Universe(t)
  PROVE  UNION {RefsOf(x) : x \in X} \subseteq Universe(t)
<1> SUFFICES ASSUME NEW x \in X, NEW z \in RefsOf(x) PROVE z \in Universe(t)
  OBVIOUS
<1>1. CASE IsCluster(x)
  <2>1. x \in t.real /\ z \in x[2]
    BY <1>1, FilesAreNot DEF Universe, RefsOf
  <2>2. z \in Listed(t.real)
    BY <1>1, <2>1, ListedHas
  <2> QED
    BY <2>2 DEF ServerGood, Known
<1>2. CASE ~IsCluster(x)
  <2>1. x \in File /\ z \in Refs[x]
    BY <1>2 DEF Universe, RefsOf
  <2> QED
    BY <2>1, SyncAssumption DEF Universe
<1> QED
  BY <1>1, <1>2

LEMMA PutInside ==
  ASSUME NEW t, ServerGood(t), NEW s, IsTables(s), Known(s) \subseteq Universe(t),
         NEW X, X \subseteq Universe(t)
  PROVE  Known(Put(s, X)) \subseteq Universe(t)
<1> DEFINE p == Put(s, X)
           more == (X \cup UNION {RefsOf(x) : x \in X}) \ Known(s)
<1>1. p.real = s.real \cup X /\ p.phantom = (s.phantom \cup more) \ X
  BY PutTables
<1>2. more \subseteq Universe(t)
  BY RefsInside
<1> HIDE DEF p, more
<1>3. Known(p) \subseteq Known(s) \cup X \cup more
  BY <1>1 DEF Known
<1> QED
  BY <1>2, <1>3 DEF p

LEMMA PhantomizeInside ==
  ASSUME NEW t, NEW s, IsTables(s), Known(s) \subseteq Universe(t),
         NEW X, X \subseteq Universe(t)
  PROVE  Known(Phantomize(s, X)) \subseteq Universe(t)
<1> DEFINE p == Phantomize(s, X)
<1>1. p.real = s.real /\ p.phantom = s.phantom \cup (X \ Known(s))
  BY PhantomizeTables
<1> HIDE DEF p
<1> QED
  BY <1>1 DEF Known, p

(* More files: they list nothing, and nothing lists them.                  *)
LEMMA PutServer ==
  ASSUME NEW t, Good(t), ServerGood(t), NEW X, X \subseteq Universe(t)
  PROVE  ServerGood(Put(t, X)) /\ Universe(t) \subseteq Universe(Put(t, X))
<1> DEFINE p == Put(t, X)
           more == (X \cup UNION {RefsOf(x) : x \in X}) \ Known(t)
<1>1. /\ p.real = t.real \cup X
      /\ p.unclustered = (t.unclustered \cup more) \ Listed(X)
  BY PutTables DEF Good
<1>2. Known(p) \subseteq Universe(t)
  BY PutInside DEF Good, ServerGood
<1>3. more \cap t.real = {}
  BY DEF Known
<1> HIDE DEF p, more
<1>4. Universe(t) \subseteq Universe(p)
  BY <1>1 DEF Universe
<1>5. Listed(X) \subseteq Listed(t.real)
  BY ListedOld
<1>6. Listed(p.real) = Listed(t.real)
  BY <1>1, <1>5, ListedUnion
<1>7. Listed(t.real) \subseteq t.real
  BY DEF ServerGood
<1>8. p.unclustered \cap Listed(p.real) = {}
  BY <1>1, <1>3, <1>6, <1>7 DEF ServerGood
<1>9. IsFiniteSet(p.real)
  <2>1. IsFiniteSet(t.real \cup File)
    BY FS_Union, SyncAssumption DEF ServerGood
  <2>2. p.real \subseteq t.real \cup File
    BY <1>1 DEF Universe
  <2> QED
    BY <2>1, <2>2, FS_Subset
<1>10. ASSUME NEW S \in SUBSET p.real, S # {}
       PROVE  \E x \in S : x \notin Listed(S)
  <2>1. CASE S \subseteq t.real
    BY <1>10, <2>1 DEF ServerGood
  <2>2. CASE ~(S \subseteq t.real)
    <3>1. PICK x \in S : x \notin t.real
      BY <2>2
    <3>2. Listed(S) \subseteq Listed(p.real)
      BY ListedMono
    <3> QED
      BY <1>6, <1>7, <3>1, <3>2
  <2> QED
    BY <2>1, <2>2
<1>11. ServerGood(p)
  BY <1>2, <1>4, <1>1, <1>6, <1>7, <1>8, <1>9, <1>10 DEF ServerGood
<1> QED
  BY <1>4, <1>11 DEF p

LEMMA PhantomizeServer ==
  ASSUME NEW t, Good(t), ServerGood(t), NEW X, X \subseteq Universe(t)
  PROVE  /\ ServerGood(Phantomize(t, X))
         /\ Universe(t) = Universe(Phantomize(t, X))
<1> DEFINE p == Phantomize(t, X)
<1>1. p.real = t.real /\ p.unclustered = t.unclustered \cup (X \ Known(t))
  BY PhantomizeTables DEF Good
<1>2. Known(p) \subseteq Universe(t)
  BY PhantomizeInside DEF Good, ServerGood
<1> HIDE DEF p
<1>3. Universe(t) = Universe(p)
  BY <1>1 DEF Universe
<1>4. p.unclustered \cap Listed(p.real) = {}
  BY <1>1 DEF ServerGood, Known
<1>5. ServerGood(p)
  BY <1>1, <1>2, <1>3, <1>4 DEF ServerGood
<1> QED
  BY <1>3, <1>5 DEF p

(* A new cluster is one that nobody has heard of.                          *)
LEMMA CreateClusterServer ==
  ASSUME NEW t, Good(t), ServerGood(t)
  PROVE  LET n == CreateCluster(t)
         IN  /\ ServerGood(n) /\ Universe(t) \subseteq Universe(n)
             /\ n.phantom = t.phantom
             /\ \A x \in n.real \ t.real : x \notin Universe(t)
<1> DEFINE U == Unclustered(t)
           K == Cluster(U)
           n == CreateCluster(t)
           more == {K} \ Known(t)
<1>1. CASE Cardinality(U) < MinCluster
  <2>1. n = t
    BY <1>1 DEF CreateCluster, Unclustered
  <2> QED
    BY <2>1
<1>2. CASE ~(Cardinality(U) < MinCluster)
  <2>1. /\ n.real = t.real \cup {K}
        /\ n.phantom = (t.phantom \cup more) \ {K}
        /\ n.unclustered = (t.unclustered \cup more) \ U
    BY <1>2, ClusterTables DEF Good
  <2>2. Listed({K}) = U /\ IsCluster(K) /\ K[2] = U
    BY ClusterListed DEF Cluster, IsCluster
  <2>3. U \subseteq t.unclustered /\ U \subseteq t.real
    BY DEF Unclustered
  <2>4. U # {}
    <3>1. Cardinality({}) = 0 /\ 0 < MinCluster
      BY FS_EmptySet, SyncAssumption
    <3>2. Cardinality(U) # 0
      BY <1>2, <3>1
    <3> HIDE DEF U
    <3> QED
      BY <3>1, <3>2
  <2> HIDE DEF n, K, U
  <2>5. K \notin t.real
    <3>1. SUFFICES ASSUME K \in t.real PROVE FALSE
      OBVIOUS
    <3>2. U \subseteq Listed(t.real)
      BY <2>2, <3>1, ListedHas
    <3> QED
      BY <2>3, <2>4, <3>2 DEF ServerGood
  <2>6. K \notin Universe(t)
    BY <2>2, <2>5, FilesAreNot DEF Universe
  <2>7. Universe(t) \subseteq Universe(n) /\ K \in Universe(n)
    BY <2>1, <2>2 DEF Universe
  <2>8. Listed(n.real) = Listed(t.real) \cup U
    BY <2>1, <2>2, ListedUnion
  <2>9. Listed(n.real) \subseteq t.real
    BY <2>3, <2>8 DEF ServerGood
  <2>10. n.unclustered \cap Listed(n.real) = {}
    BY <2>1, <2>5, <2>8, <2>9 DEF ServerGood
  <2>11. Known(n) \subseteq Universe(n)
    BY <2>1, <2>7 DEF ServerGood, Known
  <2>12. IsFiniteSet(n.real)
    BY <2>1, FS_AddElement DEF ServerGood
  <2>13. ASSUME NEW S \in SUBSET n.real, S # {}
         PROVE  \E x \in S : x \notin Listed(S)
    <3>1. CASE K \in S
      <4>1. Listed(S) \subseteq Listed(n.real)
        BY ListedMono
      <4> QED
        BY <2>5, <2>9, <3>1, <4>1
    <3>2. CASE K \notin S
      <4>1. S \subseteq t.real
        BY <2>1, <3>2
      <4> QED
        BY <2>13, <4>1 DEF ServerGood
    <3> QED
      BY <3>1, <3>2
  <2>14. ServerGood(n)
    BY <2>1, <2>9, <2>10, <2>11, <2>12, <2>13 DEF ServerGood
  <2>15. n.phantom = t.phantom /\ \A x \in n.real \ t.real : x \notin Universe(t)
    BY <2>1, <2>6 DEF ServerGood, Known
  <2> QED
    BY <2>7, <2>14, <2>15 DEF n
<1> QED
  BY <1>1, <1>2

LEMMA WorldServer ==
  ASSUME StoreGood, WorldGood, NEW t, ServerGood(t),
         Universe(store[Server]) \subseteq Universe(t),
         store' = [store EXCEPT ![Server] = t]
  PROVE  WorldGood'
<1>1. Server \in DOMAIN store /\ DOMAIN store = Repo
  BY DEF StoreGood, Repo
<1>2. store'[Server] = t /\ \A r \in Repo \ {Server} : store'[r] = store[r]
  BY <1>1
<1>3. Known(t) \subseteq Universe(t)
  BY DEF ServerGood
<1>4. \A r \in Repo : Known(store'[r]) \subseteq Universe(t)
  <2> SUFFICES ASSUME NEW r \in Repo PROVE Known(store'[r]) \subseteq Universe(t)
    OBVIOUS
  <2>1. CASE r = Server
    BY <1>2, <1>3, <2>1
  <2>2. CASE r # Server
    BY <1>2, <2>2 DEF WorldGood
  <2> QED
    BY <2>1, <2>2
<1> QED
  BY <1>2, <1>4 DEF WorldGood

LEMMA WorldClient ==
  ASSUME StoreGood, WorldGood, NEW c \in Client, NEW s,
         Known(s) \subseteq Universe(store[Server]),
         store' = [store EXCEPT ![c] = s]
  PROVE  WorldGood'
<1>1. Server \in DOMAIN store /\ DOMAIN store = Repo /\ c \in Repo /\ c # Server
  BY SyncAssumption DEF StoreGood, Repo
<1>2. store'[Server] = store[Server] /\ store'[c] = s
      /\ \A r \in Repo \ {c} : store'[r] = store[r]
  BY <1>1
<1>3. \A r \in Repo : Known(store'[r]) \subseteq Universe(store[Server])
  <2> SUFFICES ASSUME NEW r \in Repo
               PROVE  Known(store'[r]) \subseteq Universe(store[Server])
    OBVIOUS
  <2>1. CASE r = c
    BY <1>2, <2>1
  <2>2. CASE r # c
    BY <1>2, <2>2 DEF WorldGood
  <2> QED
    BY <2>1, <2>2
<1> QED
  BY <1>2, <1>3 DEF WorldGood

(* Table unsent has no part in this.                                       *)
LEMMA UnsentSame ==
  ASSUME NEW s, IsTables(s), NEW X
  PROVE  LET t == [s EXCEPT !.unsent = X]
         IN  /\ t.real = s.real /\ t.phantom = s.phantom /\ t.unclustered = s.unclustered
             /\ Known(t) = Known(s) /\ Universe(t) = Universe(s)
             /\ Unclustered(t) = Unclustered(s)
             /\ ServerGood(s) => ServerGood(t)
<1> DEFINE t == [s EXCEPT !.unsent = X]
<1>1. t.real = s.real /\ t.phantom = s.phantom /\ t.unclustered = s.unclustered
  BY DEF IsTables
<1> HIDE DEF t
<1>2. /\ Known(t) = Known(s) /\ Universe(t) = Universe(s)
      /\ Unclustered(t) = Unclustered(s)
  BY <1>1 DEF Known, Universe, Unclustered
<1>3. ServerGood(s) => ServerGood(t)
  BY <1>1, <1>2 DEF ServerGood
<1> QED
  BY <1>1, <1>2, <1>3 DEF t

(* The request q of a session e, from the tables s of the client, which do *)
(* not change until the reply has been handled: it asks for all that is    *)
(* missing, or as much as it may, and announces all that is unclustered.   *)
Asked(e, q, s) ==
    /\ q.igots \subseteq s.real
    /\ e.pc \in {"sent", "answered"} =>
         /\ q.push = e.push /\ q.pull = e.pull
         /\ e.pull => /\ q.gimmes \subseteq s.phantom
                      /\ q.gimmes = s.phantom \/ Cardinality(q.gimmes) >= ClientReq
         /\ e.push => Unclustered(s) \subseteq q.igots \cup q.files

(* The reply a to it, from the tables t of the server, while nobody else   *)
(* changes them.                                                           *)
Answered(q, a, s, t) ==
    /\ a.files = {} => t.real \cap q.gimmes = {}
    /\ Unclustered(t) \subseteq a.igots \cup a.files \cup s.real
    /\ a.gimmes \subseteq t.phantom
    /\ t.phantom \ q.gimmes \subseteq a.gimmes \/ Cardinality(a.gimmes) >= ServerReq
    /\ q.igots \cup q.files \subseteq Known(t) /\ q.files \subseteq t.real

BothWays(e) == e.push /\ e.pull

RoundOf(c) ==
    /\ Asked(sess[c], request[c], store[c])
    /\ c \in quiet /\ sess[c].pc = "answered" /\ BothWays(sess[c]) =>
         Answered(request[c], reply[c], store[c], store[Server])

RoundGood == \A c \in Client : RoundOf(c)

LEMMA WorldInit == Init => WorldGood /\ RoundGood
<1> SUFFICES ASSUME Init PROVE WorldGood /\ RoundGood
  OBVIOUS
<1>1. /\ NoData.real = {} /\ NoData.phantom = {} /\ NoData.unclustered = {}
      /\ Known(NoData) = {}
  BY DEF NoData, Known
<1>2. Listed({}) = {}
  BY DEF Listed
<1>3. IsFiniteSet({})
  BY FS_EmptySet
<1>4. ServerGood(NoData)
  BY <1>1, <1>2, <1>3 DEF ServerGood
<1>5. \A r \in Repo : store[r] = NoData
  BY DEF Init
<1>6. Server \in Repo
  BY DEF Repo
<1>7. RoundGood
  <2> SUFFICES ASSUME NEW c \in Client PROVE RoundOf(c)
    BY DEF RoundGood
  <2>1. sess[c].pc = "idle" /\ request[c].igots = {}
    BY DEF Init, NoSession, NoRequest
  <2> QED
    BY <2>1 DEF RoundOf, Asked
<1> QED
  BY <1>1, <1>4, <1>5, <1>6, <1>7 DEF WorldGood

(* A client's repository, and what it receives.                            *)
LEMMA ClientInside ==
  ASSUME StoreGood, SessionGood, WorldGood, NEW c \in Client
  PROVE  /\ c \in Repo /\ c # Server /\ Server \in Repo
         /\ Good(store[c]) /\ Known(store[c]) \subseteq Universe(store[Server])
         /\ Good(store[Server]) /\ ServerGood(store[Server])
         /\ request[c].files \cup request[c].queued \subseteq Universe(store[Server])
         /\ reply[c].files \cup reply[c].igots \subseteq Universe(store[Server])
<1>1. c \in Repo /\ c # Server /\ Server \in Repo
  BY SyncAssumption DEF Repo
<1>2. /\ request[c].files \cup request[c].queued \subseteq store[c].real
      /\ reply[c].files \cup reply[c].igots \subseteq store[Server].real
  BY DEF SessionGood, ClientsGood, ClientGood
<1>3. \A r \in Repo : store[r].real \subseteq Universe(store[Server])
  BY DEF WorldGood, Known
<1> QED
  BY <1>1, <1>2, <1>3 DEF StoreGood, WorldGood

LEMMA WorldStep ==
  ASSUME StoreGood, SessionGood, WorldGood, RoundGood, [Next]_vars
  PROVE  WorldGood'
<1>1. ASSUME NEW new \in Commits, New(new[1], new[2]) PROVE WorldGood'
  <2> DEFINE r == new[1]
             X == new[2]
             p == Put(store[r], X)
             t == [p EXCEPT !.unsent = p.unsent \cup X]
  <2>1. r \in Repo /\ X \subseteq Universe(store[Server])
    BY SyncAssumption DEF Universe
  <2>2. store' = [store EXCEPT ![r] = t]
    BY <1>1 DEF New
  <2>3. Good(store[r]) /\ Good(p)
    BY <2>1, PutGood DEF StoreGood
  <2>4. CASE r = Server
    <3>1. ServerGood(p) /\ Universe(store[Server]) \subseteq Universe(p)
      BY <2>1, <2>3, <2>4, PutServer DEF WorldGood
    <3> HIDE DEF p, r
    <3>2. ServerGood(t) /\ Universe(store[Server]) \subseteq Universe(t)
      BY <2>3, <3>1, UnsentSame DEF Good
    <3> QED
      BY <2>2, <2>4, <3>2, WorldServer
  <2>5. CASE r # Server
    <3>1. Known(p) \subseteq Universe(store[Server])
      BY <2>1, <2>3, PutInside DEF Good, WorldGood
    <3> HIDE DEF p, r
    <3>2. Known(t) \subseteq Universe(store[Server])
      BY <2>3, <3>1, UnsentSame DEF Good
    <3>3. r \in Client
      BY <2>1, <2>5 DEF Repo
    <3> QED
      BY <2>2, <3>2, <3>3, WorldClient
  <2> QED
    BY <2>4, <2>5
<1>2. ASSUME NEW c \in Client, NEW slow \in BOOLEAN, Serve(c, slow)
      PROVE  WorldGood'
  <2> DEFINE m == request[c]
             t == store[Server]
             s1 == Put(t, m.queued)
             s2 == Put(s1, m.files)
             s3 == IF m.push THEN Phantomize(s2, m.igots) ELSE s2
             s4 == IF m.pull THEN CreateCluster(s3) ELSE s3
  <2>1. /\ Good(t) /\ ServerGood(t) /\ m.queued \subseteq Universe(t)
        /\ m.files \subseteq Universe(t) /\ m.igots \subseteq Universe(t)
    <3>1. m.igots \subseteq store[c].real
      BY DEF RoundGood, RoundOf, Asked
    <3> QED
      BY <3>1, ClientInside DEF Known
  <2>2. store' = [store EXCEPT ![Server] = s4]
    BY <1>2 DEF Serve
  <2>3. Good(s1) /\ ServerGood(s1) /\ Universe(t) \subseteq Universe(s1)
    BY <2>1, PutGood, PutServer
  <2> HIDE DEF s1
  <2>4. Good(s2) /\ ServerGood(s2) /\ Universe(t) \subseteq Universe(s2)
    BY <2>1, <2>3, PutGood, PutServer
  <2> HIDE DEF s2
  <2>5. Good(s3) /\ ServerGood(s3) /\ Universe(t) \subseteq Universe(s3)
    BY <2>1, <2>4, PhantomizeGood, PhantomizeServer
  <2> HIDE DEF s3
  <2>6. ServerGood(s4) /\ Universe(t) \subseteq Universe(s4)
    BY <2>5, CreateClusterServer
  <2> HIDE DEF s4
  <2> QED
    BY <2>2, <2>6, WorldServer
<1>3. ASSUME NEW c \in Client, HandleReply(c) PROVE WorldGood'
  <2> DEFINE m == reply[c]
             t1 == Put(store[c], m.files)
             t2 == IF sess[c].pull THEN Phantomize(t1, m.igots) ELSE t1
             Y == IF sess[c].push THEN {} ELSE t2.unsent
             t3 == [t2 EXCEPT !.unsent = Y]
  <2>1. store' = [store EXCEPT ![c] = t3]
    BY <1>3 DEF HandleReply
  <2>2. Good(t1) /\ Known(t1) \subseteq Universe(store[Server])
    BY ClientInside, PutGood, PutInside DEF Good
  <2> HIDE DEF t1
  <2>3. Good(t2) /\ Known(t2) \subseteq Universe(store[Server])
    BY <2>2, ClientInside, PhantomizeGood, PhantomizeInside DEF Good
  <2> HIDE DEF t2, Y
  <2>4. Known(t3) \subseteq Universe(store[Server])
    BY <2>3, UnsentSame DEF Good
  <2> QED
    BY <2>1, <2>4, WorldClient
<1>4. ASSUME NEW c \in Client, Fail(c) PROVE WorldGood'
  <2> DEFINE Y == IF sess[c].push THEN {} ELSE store[c].unsent
             t == [store[c] EXCEPT !.unsent = Y]
  <2>1. store' = [store EXCEPT ![c] = t]
    BY <1>4 DEF Fail
  <2> HIDE DEF Y
  <2>2. Known(t) \subseteq Universe(store[Server])
    BY ClientInside, UnsentSame DEF Good
  <2> QED
    BY <2>1, <2>2, WorldClient
<1>5. ASSUME UNCHANGED store PROVE WorldGood'
  BY <1>5 DEF WorldGood
<1>6. ASSUME NEW c \in Client,
             (\E mode \in Modes[c] : Start(c, mode)) \/ Request(c) \/ Kill(c)
      PROVE  UNCHANGED store
  BY <1>6 DEF Start, Request, Kill
<1> QED
  BY <1>1, <1>2, <1>3, <1>4, <1>5, <1>6 DEF Next, vars

(* A step of client c leaves the rounds of the others alone, or they are   *)
(* no longer quiet.                                                        *)
LEMMA RoundOthers ==
  ASSUME RoundGood, NEW c \in Client,
         \A d \in Client \ {c} : /\ sess'[d] = sess[d] /\ request'[d] = request[d]
                                 /\ reply'[d] = reply[d] /\ store'[d] = store[d]
                                 /\ d \in quiet' =>
                                      d \in quiet /\ store'[Server] = store[Server],
         RoundOf(c)'
  PROVE  RoundGood'
<1> SUFFICES ASSUME NEW d \in Client PROVE RoundOf(d)'
  BY DEF RoundGood
<1>1. CASE d = c
  BY <1>1
<1>2. CASE d # c
  <2>1. RoundOf(d)
    BY DEF RoundGood
  <2>2. /\ sess'[d] = sess[d] /\ request'[d] = request[d]
        /\ reply'[d] = reply[d] /\ store'[d] = store[d]
        /\ d \in quiet' => d \in quiet /\ store'[Server] = store[Server]
    BY <1>2
  <2> QED
    BY <2>1, <2>2 DEF RoundOf
<1> QED
  BY <1>1, <1>2

(* Without a request nothing is said.                                      *)
LEMMA RoundIdle ==
  ASSUME NEW c \in Client, sess'[c].pc \in {"idle", "ready"}, request'[c] = NoRequest
  PROVE  RoundOf(c)'
<1>1. request'[c].igots = {} /\ sess'[c].pc \notin {"sent", "answered"}
  BY DEF NoRequest
<1>2. Asked(sess[c], request[c], store[c])'
  BY <1>1 DEF Asked
<1> QED
  BY <1>1, <1>2 DEF RoundOf

LEMMA NewRound ==
  ASSUME StoreGood, SessionGood, RoundGood,
         NEW new \in Commits, New(new[1], new[2])
  PROVE  RoundGood'
<1> DEFINE r == new[1]
           t == [Put(store[r], new[2]) EXCEPT !.unsent = @ \cup new[2]]
<1>1. r \in Repo /\ Server \in Repo /\ Server \notin Client
  BY SyncAssumption DEF Repo
<1>2. store' = [store EXCEPT ![r] = t] /\ UNCHANGED <<sess, request, reply>>
  BY DEF New
<1>3. quiet' = IF r = Server THEN {} ELSE quiet \ {r}
  BY DEF New
<1> HIDE DEF t
<1>4. \A d \in Repo \ {r} : store'[d] = store[d]
  BY <1>2 DEF StoreGood
<1> SUFFICES ASSUME NEW d \in Client PROVE RoundOf(d)'
  BY DEF RoundGood
<1>5. RoundOf(d)
  BY DEF RoundGood
<1>6. CASE d = r
  <2>1. sess[d].pc \in {"idle", "ready"}
    BY <1>6 DEF New
  <2>2. request[d] = NoRequest
    BY <2>1 DEF SessionGood, ClientsGood, ClientGood
  <2> QED
    BY <1>2, <2>1, <2>2, RoundIdle
<1>7. CASE d # r
  <2>1. store'[d] = store[d]
    BY <1>4, <1>7 DEF Repo
  <2>2. d \in quiet' => d \in quiet /\ store'[Server] = store[Server]
    BY <1>1, <1>3, <1>4
  <2> QED
    BY <1>2, <1>5, <2>1, <2>2 DEF RoundOf
<1> QED
  BY <1>6, <1>7

LEMMA RequestRound ==
  ASSUME StoreGood, SessionGood, WorldGood, RoundGood, NEW c \in Client, Request(c)
  PROVE  RoundGood'
<1> DEFINE s == sess[c]
           unsent == IF s.push THEN store[c].unsent ELSE {}
           phantoms == IF s.pull THEN store[c].phantom ELSE {}
           clusters == IF s.nGimmeRcvd > 0 /\ s.cycle = 2 THEN AllClusters(store[c]) ELSE {}
<1>1. c \in Repo
  BY DEF Repo
<1>2. PICK F \in Fitting(unsent, Cardinality(s.files)), G \in UpTo(s.mxPhantomReq, phantoms) :
        request' = [request EXCEPT ![c] =
              [push |-> s.push, pull |-> s.pull, queued |-> s.files, files |-> F,
               igots |-> s.igots \cup (unsent \ F) \cup
                         (IF s.push THEN (Unclustered(store[c]) \cup clusters) \ F
                                    ELSE {}),
               gimmes |-> G,
               reqClusters |-> G # {} /\ s.cycle = 2]]
  BY DEF Request
<1>3. unsent \subseteq store[c].real
  BY <1>1 DEF StoreGood, Good, Consistent
<1>4. clusters \subseteq store[c].real /\ Unclustered(store[c]) \subseteq store[c].real
  BY DEF AllClusters, Unclustered
<1>5. s.igots \subseteq store[c].real
  BY DEF SessionGood, ClientsGood, ClientGood
<1> HIDE DEF clusters, unsent
<1>6. /\ request'[c].push = s.push /\ request'[c].pull = s.pull
      /\ request'[c].gimmes = G /\ request'[c].files = F
      /\ request'[c].igots = s.igots \cup (unsent \ F) \cup
                         (IF s.push THEN (Unclustered(store[c]) \cup clusters) \ F
                                    ELSE {})
      /\ \A d \in Client \ {c} : request'[d] = request[d]
  BY <1>2 DEF SessionGood
<1>7. /\ sess'[c].pc = "sent" /\ sess'[c].push = s.push /\ sess'[c].pull = s.pull
      /\ \A d \in Client \ {c} : sess'[d] = sess[d]
  BY DEF Request, SessionGood, ClientsGood, ClientGood, Fields
<1>8. UNCHANGED <<store, reply, quiet>>
  BY DEF Request
<1>9. RoundOf(c)'
  <2>1. request'[c].igots \subseteq store[c].real
    BY <1>3, <1>4, <1>5, <1>6
  <2>2. s.push => Unclustered(store[c]) \subseteq request'[c].igots \cup request'[c].files
    BY <1>6
  <2>3. s.pull => /\ request'[c].gimmes \subseteq store[c].phantom
                  /\ \/ request'[c].gimmes = store[c].phantom
                     \/ Cardinality(request'[c].gimmes) >= ClientReq
    <3>1. SUFFICES ASSUME s.pull
                   PROVE  /\ G \subseteq store[c].phantom
                          /\ G = store[c].phantom \/ Cardinality(G) >= ClientReq
      BY <1>6
    <3>2. IsFiniteSet(store[c].phantom)
      BY <1>1, UniverseFinite, FS_Subset DEF WorldGood, Known
    <3>3. s.mxPhantomReq \in Nat /\ s.mxPhantomReq >= ClientReq
      BY DEF SessionGood, ClientsGood, ClientGood
    <3>4. G \in UpTo(s.mxPhantomReq, store[c].phantom)
      BY <3>1
    <3>5. G = store[c].phantom \/ Cardinality(G) = s.mxPhantomReq
      BY <3>2, <3>3, <3>4, UpToAll
    <3> QED
      BY <3>3, <3>4, <3>5, UpToSubset
  <2> QED
    BY <1>6, <1>7, <1>8, <2>1, <2>2, <2>3 DEF RoundOf, Asked
<1> QED
  BY <1>6, <1>7, <1>8, <1>9, RoundOthers

(* What fits into an empty message is something, if there is anything.     *)
LEMMA FittingEmpty ==
  ASSUME NEW X, IsFiniteSet(X), {} \in Fitting(X, 0)
  PROVE  X = {}
<1>1. Budget \in Nat /\ Budget # 0
  BY SyncAssumption
<1>2. Cardinality({}) = 0 /\ (X # {} => Cardinality(X) # 0)
  BY FS_EmptySet
<1>3. Cardinality({}) = IF Cardinality(X) <= Budget THEN Cardinality(X) ELSE Budget
  BY <1>1 DEF Fitting, UpTo, kSubset
<1> QED
  BY <1>1, <1>2, <1>3

(* The reply has what was asked for, and announces what the client lacks.  *)
LEMMA ServeAnswers ==
  ASSUME StoreGood, SessionGood, WorldGood, NEW c \in Client,
         Asked(sess[c], request[c], store[c]), sess[c].pc = "sent", BothWays(sess[c]),
         Serve(c, FALSE)
  PROVE  Answered(request[c], reply'[c], store[c], store'[Server])
<1> DEFINE m == request[c]
           s == store[c]
           t == store[Server]
           s1 == Put(t, m.queued)
           asked == IF m.pull THEN m.gimmes \cap s1.real ELSE {}
           s2 == Put(s1, m.files)
           s3 == IF m.push THEN Phantomize(s2, m.igots) ELSE s2
           s4 == IF m.pull THEN CreateCluster(s3) ELSE s3
           clusters == IF m.reqClusters THEN AllClusters(s1) \ m.queued ELSE {}
<1>1. /\ m.push /\ m.pull /\ m.gimmes \subseteq s.phantom
      /\ m.igots \subseteq s.real /\ m.files \cup m.queued \subseteq s.real
  BY DEF Asked, BothWays, SessionGood, ClientsGood, ClientGood
<1>2. /\ Good(s) /\ Known(s) \subseteq Universe(t) /\ Good(t) /\ ServerGood(t)
      /\ Server \in Repo
  BY ClientInside
<1>3. s.real \cap s.phantom = {}
  BY <1>2 DEF Good, Consistent
<1>4. m.queued \subseteq Universe(t) /\ m.files \subseteq Universe(t)
      /\ m.igots \subseteq Universe(t)
  BY <1>1, <1>2 DEF Known
<1>5. PICK F \in Fitting(asked, 0), W \in UpTo(ServerReq, s3.phantom \ m.gimmes) :
        LET onremote == m.queued \cup F \cup m.files
                          \cup (IF m.push THEN m.igots ELSE {})
        IN  reply' = [reply EXCEPT ![c] =
              [files |-> F,
               igots |-> (asked \ F) \cup (clusters \ F) \cup
                         (IF m.pull THEN Unclustered(s4) \ onremote ELSE {}),
               gimmes |-> W]]
  BY <1>1 DEF Serve, Wanted
<1>6. store'[Server] = s4
  BY <1>2 DEF Serve, StoreGood
<1>7. /\ Good(s1) /\ ServerGood(s1) /\ Universe(t) \subseteq Universe(s1)
      /\ s1.real = t.real \cup m.queued
  BY <1>2, <1>4, PutGood, PutServer
<1> HIDE DEF s1
<1>8. /\ Good(s2) /\ ServerGood(s2) /\ Universe(t) \subseteq Universe(s2)
      /\ s2.real = s1.real \cup m.files
  BY <1>4, <1>7, PutGood, PutServer
<1> HIDE DEF s2
<1>9. /\ Good(s3) /\ ServerGood(s3) /\ Universe(t) \subseteq Universe(s3)
      /\ s3.real = s2.real /\ m.igots \subseteq Known(s3)
  <2>1. s3 = Phantomize(s2, m.igots)
    BY <1>1
  <2>2. m.igots \subseteq Universe(s2)
    BY <1>4, <1>8
  <2>3. s3.phantom = s2.phantom \cup (m.igots \ Known(s2)) /\ s3.real = s2.real
    BY <1>8, <2>1, PhantomizeTables DEF Good
  <2>4. m.igots \subseteq Known(s3)
    BY <2>3 DEF Known
  <2>5. ServerGood(s3) /\ Universe(s2) = Universe(s3) /\ Good(s3)
    BY <1>8, <2>1, <2>2, PhantomizeServer, PhantomizeGood
  <2> QED
    BY <1>8, <2>3, <2>4, <2>5
<1> HIDE DEF s3
<1>10. /\ s4.phantom = s3.phantom /\ s3.real \subseteq s4.real
       /\ Good(s4) /\ \A x \in s4.real \ s3.real : x \notin Universe(s3)
  <2>1. s4 = CreateCluster(s3)
    BY <1>1
  <2> QED
    BY <1>9, <2>1, CreateClusterServer, CreateClusterGood
<1>11. m.igots \subseteq Known(s4)
  <2>1. Known(s3) \subseteq Known(s4)
    <3>1. s4 = CreateCluster(s3) /\ IsTables(s3) /\ Consistent(s3)
      BY <1>1, <1>9 DEF Good
    <3>2. CASE Cardinality(Unclustered(s3)) < MinCluster
      BY <3>1, <3>2 DEF CreateCluster, Unclustered
    <3>3. CASE ~(Cardinality(Unclustered(s3)) < MinCluster)
      BY <3>1, <3>3, ClusterTables DEF Known
    <3> QED
      BY <3>2, <3>3
  <2> QED
    BY <1>9, <2>1
<1> HIDE DEF s4, asked, clusters
<1>12. /\ reply'[c].files = F /\ Unclustered(s4) \subseteq reply'[c].igots \cup
            m.queued \cup F \cup m.files \cup m.igots
       /\ reply'[c].gimmes = W
  BY <1>1, <1>5 DEF SessionGood
<1>13. F = {} => s4.real \cap m.gimmes = {}
  <2>1. SUFFICES ASSUME F = {}, NEW x \in s4.real, x \in m.gimmes PROVE FALSE
    OBVIOUS
  <2>2. asked = {}
    <3>1. asked \subseteq s1.real /\ IsFiniteSet(s1.real)
      BY <1>7 DEF asked, ServerGood
    <3> QED
      BY <2>1, <3>1, FS_Subset, FittingEmpty
  <2>3. x \notin s1.real
    BY <1>1, <2>1, <2>2 DEF asked
  <2>4. x \notin s3.real
    BY <1>1, <1>3, <1>8, <1>9, <2>1, <2>3
  <2>5. x \in Universe(s3)
    BY <1>1, <1>2, <1>9, <2>1 DEF Known
  <2> QED
    BY <1>10, <2>1, <2>4, <2>5
<1>14. /\ W \subseteq s4.phantom
       /\ s4.phantom \ m.gimmes \subseteq W \/ Cardinality(W) >= ServerReq
  <2>1. IsFiniteSet(s3.phantom \ m.gimmes)
    BY <1>9, UniverseFinite, FS_Subset DEF ServerGood, Known
  <2>2. W = s3.phantom \ m.gimmes \/ Cardinality(W) = ServerReq
    BY <2>1, UpToAll, SyncAssumption
  <2> QED
    BY <1>10, <2>2, UpToSubset, SyncAssumption
<1>15. m.igots \cup m.files \subseteq Known(s4) /\ m.files \subseteq s4.real
  BY <1>8, <1>9, <1>10, <1>11 DEF Known
<1>16. Unclustered(s4) \subseteq reply'[c].igots \cup reply'[c].files \cup s.real
  BY <1>1, <1>12
<1> QED
  BY <1>6, <1>12, <1>13, <1>14, <1>15, <1>16 DEF Answered

LEMMA ServeRound ==
  ASSUME StoreGood, SessionGood, WorldGood, RoundGood, NEW c \in Client,
         NEW slow \in BOOLEAN, Serve(c, slow)
  PROVE  RoundGood'
<1> DEFINE m == request[c]
           s1 == Put(store[Server], m.queued)
           s2 == Put(s1, m.files)
           s3 == IF m.push THEN Phantomize(s2, m.igots) ELSE s2
           s4 == IF m.pull THEN CreateCluster(s3) ELSE s3
<1>1. Server \in Repo /\ Server \notin Client /\ Client \subseteq Repo
  BY SyncAssumption DEF Repo
<1>2. /\ sess[c].pc = "sent" /\ request' = request
      /\ sess' = [sess EXCEPT ![c].pc = "answered"]
      /\ \A d \in Client \ {c} : reply'[d] = reply[d]
  BY DEF Serve, SessionGood
<1>3. /\ store' = [store EXCEPT ![Server] = s4]
      /\ quiet' = (IF s4 = store[Server] THEN quiet ELSE quiet \cap {c})
                    \ (IF slow THEN {c} ELSE {})
  BY DEF Serve
<1> HIDE DEF s4
<1>4. /\ \A d \in Client : store'[d] = store[d]
      /\ s4 = store[Server] => store'[Server] = store[Server]
  BY <1>1, <1>3 DEF StoreGood
<1>5. /\ DOMAIN sess'[c] = DOMAIN sess[c] /\ sess'[c].pc = "answered"
      /\ sess'[c].push = sess[c].push /\ sess'[c].pull = sess[c].pull
      /\ \A d \in Client \ {c} : sess'[d] = sess[d]
  BY <1>2 DEF SessionGood, ClientsGood, ClientGood
<1>6. RoundOf(c)'
  <2>1. RoundOf(c)
    BY DEF RoundGood
  <2>2. Asked(sess'[c], request'[c], store'[c])
    BY <1>2, <1>4, <1>5, <2>1 DEF RoundOf, Asked
  <2>3. ASSUME c \in quiet', BothWays(sess'[c])
        PROVE  Answered(request[c], reply'[c], store[c], store'[Server])
    <3>1. slow = FALSE
      BY <1>3, <2>3
    <3>2. BothWays(sess[c])
      BY <1>5, <2>3 DEF BothWays
    <3>3. Serve(c, FALSE)
      BY <3>1
    <3>4. Asked(sess[c], request[c], store[c])
      BY <2>1 DEF RoundOf
    <3> QED
      BY <1>2, <3>2, <3>3, <3>4, ServeAnswers
  <2> QED
    BY <1>2, <1>4, <2>2, <2>3 DEF RoundOf
<1>7. \A d \in Client \ {c} : d \in quiet' => d \in quiet /\ store'[Server] = store[Server]
  BY <1>3, <1>4
<1> QED
  BY <1>2, <1>4, <1>5, <1>6, <1>7, RoundOthers

(* The other steps of a client end a round, or begin a session.            *)
LEMMA OtherRound ==
  ASSUME StoreGood, SessionGood, RoundGood, NEW c \in Client,
         (\E mode \in Modes[c] : Start(c, mode)) \/ HandleReply(c) \/ Fail(c) \/ Kill(c)
  PROVE  RoundGood'
<1>1. Server \in Repo /\ Server # c /\ Client \subseteq Repo
  BY SyncAssumption DEF Repo
<1>2. \A d \in Repo \ {c} : store'[d] = store[d]
  BY DEF Start, HandleReply, Fail, Kill, StoreGood
<1>3. /\ \A d \in Client \ {c} : /\ sess'[d] = sess[d] /\ request'[d] = request[d]
                                 /\ reply'[d] = reply[d]
      /\ quiet' \subseteq quiet \cup {c}
  BY DEF Start, HandleReply, Fail, Kill, SessionGood
<1>4. sess'[c].pc \in {"idle", "ready"} /\ request'[c] = NoRequest
  <2>1. CASE Fail(c) \/ Kill(c)
    BY <2>1 DEF Fail, Kill, SessionGood, NoSession
  <2>2. CASE \E mode \in Modes[c] : Start(c, mode)
    <3>1. request[c] = NoRequest
      BY <2>2 DEF Start, SessionGood, ClientsGood, ClientGood
    <3> QED
      BY <2>2, <3>1 DEF Start, SessionGood, NoSession
  <2>3. CASE HandleReply(c)
    <3>1. request'[c] = NoRequest
      BY <2>3 DEF HandleReply, SessionGood
    <3> DEFINE s == sess[c]
               m == reply[c]
               t1 == Put(store[c], m.files)
               t2 == IF s.pull THEN Phantomize(t1, m.igots) ELSE t1
               newPhantom == s.pull /\ ~(m.igots \subseteq Known(t1))
               onremote == request[c].files \cup m.files \cup m.igots
               asked == IF s.push THEN (m.gimmes \cap t2.real) \ onremote ELSE {}
    <3>2. PICK F \in Fitting(asked, 0) :
            LET go == Go(Cardinality(m.files), newPhantom, t2, F)
            IN  sess' = [sess EXCEPT ![c] =
                  IF ~go THEN NoSession
                  ELSE [s EXCEPT
                         !.pc = "ready", !.files = F, !.igots = asked \ F,
                         !.cycle = IF @ < 3 THEN @ + 1 ELSE @,
                         !.mxPhantomReq =
                            IF Ask(Cardinality(m.files), newPhantom, t2)
                            THEN ReqAfter(Cardinality(m.files)) ELSE @,
                         !.nGimmeRcvd =
                            IF s.push THEN Cardinality(m.gimmes \cap Known(t2)) ELSE 0]]
      BY <2>3 DEF HandleReply
    <3> DEFINE go == Go(Cardinality(m.files), newPhantom, t2, F)
               nGimmeRcvd == IF s.push THEN Cardinality(m.gimmes \cap Known(t2)) ELSE 0
               req == IF Ask(Cardinality(m.files), newPhantom, t2)
                      THEN ReqAfter(Cardinality(m.files)) ELSE s.mxPhantomReq
    <3>3. sess' = [sess EXCEPT ![c] =
                  IF ~go THEN NoSession
                  ELSE [s EXCEPT !.pc = "ready", !.files = F, !.igots = asked \ F,
                                 !.cycle = IF @ < 3 THEN @ + 1 ELSE @,
                                 !.mxPhantomReq = req,
                                 !.nGimmeRcvd = nGimmeRcvd]]
      BY <3>2
    <3> HIDE DEF asked, t2, go, nGimmeRcvd, req
    <3>4. CASE ~go
      <4>1. sess'[c] = NoSession
        BY <3>3, <3>4 DEF SessionGood
      <4> QED
        BY <3>1, <4>1 DEF NoSession
    <3>5. CASE go
      <4>1. sess'[c] = [s EXCEPT !.pc = "ready", !.files = F, !.igots = asked \ F,
                                 !.cycle = IF @ < 3 THEN @ + 1 ELSE @,
                                 !.mxPhantomReq = req,
                                 !.nGimmeRcvd = nGimmeRcvd]
        BY <3>3, <3>5 DEF SessionGood
      <4>2. ClientGood(s, request[c], reply[c], store[c].real, store[Server].real)
        BY DEF SessionGood, ClientsGood
      <4>3. sess'[c].pc = "ready"
        BY <4>1, <4>2 DEF ClientGood
      <4> QED
        BY <3>1, <4>3
    <3> QED
      BY <3>4, <3>5
  <2> QED
    BY <2>1, <2>2, <2>3
<1>5. RoundOf(c)'
  BY <1>4, RoundIdle
<1> QED
  BY <1>1, <1>2, <1>3, <1>5, RoundOthers

LEMMA RoundStep ==
  ASSUME StoreGood, SessionGood, WorldGood, RoundGood, [Next]_vars
  PROVE  RoundGood'
<1>1. CASE UNCHANGED vars
  BY <1>1 DEF vars, RoundGood, RoundOf
<1> QED
  BY <1>1, NewRound, RequestRound, ServeRound, OtherRound DEF Next

(* The four tables of every repository agree with each other, a message    *)
(* promises only artifacts that its sender has, and asks only for those    *)
(* that it lacks, however the round trips of the clients interleave.       *)
THEOREM SyncTyped == Spec => []TypeOK
<1>1. StoreGood /\ SessionGood => TypeOK
  BY DEF StoreGood, Good, Consistent, SessionGood, ClientsGood, ClientGood, TypeOK
<1> QED
  BY <1>1, StoreGoodInit, SessionGoodInit, WorldInit, StoreGoodStep, SessionGoodStep,
     WorldStep, RoundStep, PTL DEF Spec

-----------------------------------------------------------------------------
(* The last round: nothing new came, or nothing is missing, and nothing is *)
(* left to send.                                                           *)
LEMMA LastRound ==
  ASSUME StoreGood, SessionGood, WorldGood, RoundGood, NEW c \in Client,
         HandleReply(c), c \in quiet, BothWays(sess[c]), sess'[c].pc = "idle"
  PROVE  /\ Cardinality(store'[c].phantom \ store'[Server].real) < ClientReq
              => store'[Server].real \subseteq store'[c].real
         /\ Cardinality(store'[Server].phantom \ store'[c].real) < ServerReq
              => store'[c].real \subseteq store'[Server].real
<1> DEFINE s == store[c]
           t == store[Server]
           q == request[c]
           m == reply[c]
           t1 == Put(s, m.files)
           t2 == Phantomize(t1, m.igots)
           newPhantom == ~(m.igots \subseteq Known(t1))
           asked == (m.gimmes \cap t2.real) \ (q.files \cup m.files \cup m.igots)
<1>1. /\ Good(s) /\ Known(s) \subseteq Universe(t) /\ Good(t) /\ ServerGood(t)
      /\ c \in Repo /\ Server \in Repo /\ c # Server
  BY ClientInside
<1>2. Answered(q, m, s, t) /\ Asked(sess[c], q, s) /\ sess[c].pc = "answered"
  BY DEF HandleReply, RoundGood, RoundOf
<1>3. sess[c].push /\ sess[c].pull
  BY DEF BothWays
<1>4. /\ q.gimmes \subseteq s.phantom
      /\ q.gimmes = s.phantom \/ Cardinality(q.gimmes) >= ClientReq
      /\ Unclustered(s) \subseteq q.igots \cup q.files
  BY <1>2, <1>3 DEF Asked
<1>5. m.files \cup m.igots \subseteq t.real /\ q.files \subseteq s.real
  BY DEF SessionGood, ClientsGood, ClientGood
<1>6. PICK F \in Fitting(asked, 0) :
        /\ ~Go(Cardinality(m.files), newPhantom, t2, F)
  <2> DEFINE go(F) == Go(Cardinality(m.files), newPhantom, t2, F)
  <2>1. PICK F \in Fitting(asked, 0) :
          sess' = [sess EXCEPT ![c] =
              IF ~go(F) THEN NoSession
              ELSE [sess[c] EXCEPT
                     !.pc = "ready", !.files = F, !.igots = asked \ F,
                     !.cycle = IF @ < 3 THEN @ + 1 ELSE @,
                     !.mxPhantomReq =
                        IF Ask(Cardinality(m.files), newPhantom, t2)
                        THEN ReqAfter(Cardinality(m.files)) ELSE @,
                     !.nGimmeRcvd = Cardinality(m.gimmes \cap Known(t2))]]
    BY <1>3 DEF HandleReply
  <2> HIDE DEF asked, t2, go, newPhantom
  <2>2. DOMAIN sess[c] = Fields
    BY DEF SessionGood, ClientsGood, ClientGood
  <2>3. go(F) => sess'[c].pc = "ready"
    BY <2>1, <2>2 DEF SessionGood
  <2> QED
    BY <2>3 DEF go
<1>7. store' = [store EXCEPT ![c] = [t2 EXCEPT !.unsent = {}]]
  BY <1>3 DEF HandleReply
<1>8. Good(t1) /\ t1.real = s.real \cup m.files
  BY <1>1, PutGood
<1>9. /\ t1.phantom = (s.phantom \cup
             ((m.files \cup UNION {RefsOf(x) : x \in m.files}) \ Known(s))) \ m.files
  BY <1>1, PutTables DEF Good
<1> HIDE DEF t1
<1>10. /\ Good(t2) /\ t2.real = s.real \cup m.files
       /\ t2.phantom = t1.phantom \cup (m.igots \ Known(t1))
       /\ m.igots \subseteq Known(t2)
  <2>1. Good(t2) /\ t2.real = t1.real
    BY <1>8, PhantomizeGood
  <2>2. t2.phantom = t1.phantom \cup (m.igots \ Known(t1))
    BY <1>8, PhantomizeTables DEF Good
  <2> HIDE DEF t2
  <2> QED
    BY <1>8, <2>1, <2>2 DEF Known
<1> HIDE DEF t2
<1>11. store'[c].real = t2.real /\ store'[c].phantom = t2.phantom /\ store'[Server] = t
  BY <1>1, <1>7, <1>10, UnsentSame DEF StoreGood, Good
<1>12. Cardinality(t2.phantom \ t.real) < ClientReq => t.real \subseteq t2.real
  <2> DEFINE S == t.real \ t2.real
  <2> SUFFICES ASSUME Cardinality(t2.phantom \ t.real) < ClientReq, S # {} PROVE FALSE
    OBVIOUS
  <2>1. PICK x \in S : x \notin Listed(S)
    BY <1>1 DEF ServerGood
  <2>2. x \in Known(t2)
    <3>1. CASE x \in t.unclustered
      <4>1. x \in m.igots \cup m.files \cup s.real
        BY <1>2, <2>1, <3>1 DEF Answered, Unclustered
      <4> QED
        BY <1>10, <4>1 DEF Known
    <3>2. CASE x \notin t.unclustered
      <4>1. x \in Listed(t.real)
        BY <1>1, <2>1, <3>2 DEF Good, Accounted, Known
      <4>2. PICK y \in t.real : IsCluster(y) /\ x \in y[2]
        BY <4>1, ListedHas
      <4>3. y \in t2.real
        BY <2>1, <4>2, ListedHas
      <4> QED
        BY <1>10, <4>2, <4>3 DEF Good, Consistent, RefsOf
    <3> QED
      BY <3>1, <3>2
  <2>3. x \in t2.phantom
    BY <2>1, <2>2 DEF Known
  <2>4. ~(Cardinality(m.files) > 0) /\ ~newPhantom
    BY <1>6, <2>3 DEF Go, Ask
  <2>5. m.files = {}
    <3>1. IsFiniteSet(m.files)
      BY <1>1, <1>5, FS_Subset DEF ServerGood
    <3>2. Cardinality(m.files) \in Nat
      BY <3>1, FS_CardinalityType
    <3> QED
      BY <2>4, <3>1, <3>2, FS_EmptySet
  <2>6. t2.phantom = s.phantom
    <3>1. UNION {RefsOf(z) : z \in m.files} = {}
      BY <2>5
    <3> QED
      BY <1>9, <1>10, <2>4, <2>5, <3>1
  <2>7. q.gimmes \cap t.real = {}
    BY <1>2, <2>5 DEF Answered
  <2>8. q.gimmes \subseteq t2.phantom \ t.real
    BY <1>4, <2>6, <2>7
  <2>9. IsFiniteSet(t2.phantom \ t.real)
    BY <1>1, <2>6, UniverseFinite, FS_Subset DEF Known
  <2>10. ~(Cardinality(q.gimmes) >= ClientReq)
    <3>1. /\ IsFiniteSet(q.gimmes)
          /\ Cardinality(q.gimmes) <= Cardinality(t2.phantom \ t.real)
      BY <2>8, <2>9, FS_Subset
    <3>2. Cardinality(q.gimmes) \in Nat /\ Cardinality(t2.phantom \ t.real) \in Nat
      BY <2>9, <3>1, FS_CardinalityType
    <3> QED
      BY <3>1, <3>2, SyncAssumption
  <2> QED
    BY <1>4, <2>1, <2>3, <2>6, <2>7, <2>10
<1>13. Cardinality(t.phantom \ t2.real) < ServerReq => t2.real \subseteq t.real
  <2> SUFFICES ASSUME Cardinality(t.phantom \ t2.real) < ServerReq,
                      NEW x \in t2.real, x \notin t.real
               PROVE  FALSE
    OBVIOUS
  <2>1. x \in s.real /\ x \notin m.files /\ x \notin m.igots
    BY <1>5, <1>10
  <2>2. x \notin q.files
    BY <1>2 DEF Answered
  <2>3. x \in Known(t)
    <3>1. CASE x \in s.unclustered
      <4>1. x \in q.igots \cup q.files
        BY <1>4, <2>1, <3>1 DEF Unclustered
      <4> QED
        BY <1>2, <4>1 DEF Answered
    <3>2. CASE x \notin s.unclustered
      <4>1. x \in Listed(s.real)
        BY <1>1, <2>1, <3>2 DEF Good, Accounted, Known
      <4>2. s.real \subseteq Universe(t)
        BY <1>1 DEF Known
      <4>3. x \in Listed(t.real)
        BY <4>1, <4>2, ListedOld
      <4> QED
        BY <1>1, <4>3 DEF ServerGood, Known
    <3> QED
      BY <3>1, <3>2
  <2>4. x \in t.phantom
    BY <2>3 DEF Known
  <2>5. x \notin s.phantom
    BY <1>1, <2>1 DEF Good, Consistent
  <2>6. IsFiniteSet(asked)
    <3>1. IsFiniteSet(s.real \cup m.files)
      <4>1. IsFiniteSet(t.real \cup File)
        BY <1>1, FS_Union, SyncAssumption DEF ServerGood
      <4>2. s.real \cup m.files \subseteq t.real \cup File
        BY <1>1, <1>5 DEF Universe, Known
      <4> QED
        BY <4>1, <4>2, FS_Subset
    <3>2. asked \subseteq s.real \cup m.files
      BY <1>10
    <3> QED
      BY <3>1, <3>2, FS_Subset
  <2>7. asked = {}
    <3>1. F = {}
      BY <1>6 DEF Go
    <3> HIDE DEF asked
    <3> QED
      BY <1>6, <2>6, <3>1, FittingEmpty
  <2>8. m.gimmes \subseteq t.phantom \ t2.real
    <3>1. m.gimmes \subseteq t.phantom /\ q.files \subseteq t.real
      BY <1>2 DEF Answered
    <3>2. t.phantom \cap t.real = {}
      BY <1>1 DEF Good, Consistent
    <3> QED
      BY <1>5, <2>7, <3>1, <3>2
  <2>9. IsFiniteSet(t.phantom \ t2.real)
    BY <1>1, UniverseFinite, FS_Subset DEF ServerGood, Known
  <2>10. ~(Cardinality(m.gimmes) >= ServerReq)
    <3>1. /\ IsFiniteSet(m.gimmes)
          /\ Cardinality(m.gimmes) <= Cardinality(t.phantom \ t2.real)
      BY <2>8, <2>9, FS_Subset
    <3>2. Cardinality(m.gimmes) \in Nat /\ Cardinality(t.phantom \ t2.real) \in Nat
      BY <2>9, <3>1, FS_CardinalityType
    <3> QED
      BY <3>1, <3>2, SyncAssumption
  <2>11. t.phantom \ q.gimmes \subseteq m.gimmes
    BY <1>2, <2>10 DEF Answered
  <2> QED
    BY <1>4, <2>4, <2>5, <2>8, <2>11
<1> QED
  BY <1>11, <1>12, <1>13

(* Nothing else ends a session without a fault.                            *)
LEMMA EndsByReply ==
  ASSUME SessionGood, [Next]_vars, NEW c \in quiet,
         sess[c].pc # "idle", sess'[c].pc = "idle", faults' = faults
  PROVE  HandleReply(c)
<1>1. c \in Client /\ faults + 1 # faults
  BY SyncAssumption DEF SessionGood
<1>2. DOMAIN sess = Client
      /\ \A d \in Client : DOMAIN sess[d] = Fields
  BY DEF SessionGood, ClientsGood, ClientGood
<1>3. ASSUME NEW d \in Client, \E mode \in Modes[d] : Start(d, mode) PROVE FALSE
  BY <1>1, <1>2, <1>3 DEF Start, NoSession
<1>4. ASSUME NEW d \in Client, Request(d) PROVE FALSE
  <2>1. sess' = [sess EXCEPT ![d].pc = "sent", ![d].files = {}, ![d].igots = {}]
    BY <1>4 DEF Request
  <2> QED
    BY <1>1, <1>2, <2>1
<1>5. ASSUME NEW d \in Client, NEW slow \in BOOLEAN, Serve(d, slow) PROVE FALSE
  <2>1. sess' = [sess EXCEPT ![d].pc = "answered"]
    BY <1>5 DEF Serve
  <2> QED
    BY <1>1, <1>2, <2>1
<1>6. ASSUME NEW d \in Client, Fail(d) \/ Kill(d) PROVE FALSE
  BY <1>1, <1>6 DEF Fail, Kill
<1>7. ASSUME NEW new \in Commits, New(new[1], new[2]) PROVE FALSE
  BY <1>7 DEF New
<1>8. ASSUME NEW d \in Client, HandleReply(d) PROVE d = c
  BY <1>1, <1>2, <1>8 DEF HandleReply
<1>9. ~UNCHANGED vars
  BY DEF vars
<1> QED
  BY <1>3, <1>4, <1>5, <1>6, <1>7, <1>8, <1>9 DEF Next

(* A sync in both directions that ends by itself, undisturbed and without  *)
(* slow reply, leaves the client and the server with the same artifacts:   *)
(* whatever clusters list them, however many round trips the size of the   *)
(* messages makes of it, and whatever other clients did before; unless one *)
(* side lacks as many artifacts that the other cannot supply as a request  *)
(* has room for.                                                           *)
THEOREM SyncIsComplete == Spec => SyncComplete
<1> DEFINE Shared(c) ==
             /\ Cardinality(store'[c].phantom \ store'[Server].real) < ClientReq
                  => store'[Server].real \subseteq store'[c].real
             /\ Cardinality(store'[Server].phantom \ store'[c].real) < ServerReq
                  => store'[c].real \subseteq store'[Server].real
           Complete(c) ==
             /\ sess[c].pc # "idle" /\ sess'[c].pc = "idle" /\ faults' = faults
             /\ sess[c].push /\ sess[c].pull
             => Shared(c)
<1>1. ASSUME StoreGood, SessionGood, WorldGood, RoundGood, [Next]_vars, NEW c \in quiet
      PROVE  Complete(c)
  <2> SUFFICES ASSUME sess[c].pc # "idle", sess'[c].pc = "idle", faults' = faults,
                      sess[c].push, sess[c].pull
               PROVE  Shared(c)
    OBVIOUS
  <2>1. c \in Client
    BY <1>1 DEF SessionGood
  <2>2. HandleReply(c)
    BY <1>1, EndsByReply
  <2> QED
    BY <1>1, <2>1, <2>2, LastRound DEF BothWays
<1>2. StoreGood /\ SessionGood /\ WorldGood /\ RoundGood /\ [Next]_vars
        => \A c \in quiet : Complete(c)
  BY <1>1
<1> QED
  BY <1>2, StoreGoodInit, SessionGoodInit, WorldInit, StoreGoodStep, SessionGoodStep,
     WorldStep, RoundStep, PTL DEF Spec, SyncComplete
=============================================================================
