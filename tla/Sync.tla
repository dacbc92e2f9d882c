-------------------------------- MODULE Sync --------------------------------
(***************************************************************************)
(* The sync protocol (src/src/xfer.c): clients, each with a repository,    *)
(* exchange artifacts with one server by round trips of igot, gimme and    *)
(* file cards, until neither side has anything to ask for.                 *)
(*                                                                         *)
(* client_sync() holds one transaction per round trip, page_xfer() one per *)
(* request.  A request or its reply may be lost, the client killed, and    *)
(* the server too slow to send what it was asked for.                      *)
(* An artifact is a pair of its kind and its content; that of a cluster is *)
(* the set of the artifacts that it lists.  Deltas, private and shunned    *)
(* artifacts are left to module Content.                                   *)
(***************************************************************************)
EXTENDS Naturals, FiniteSets, FiniteSetsExt

CONSTANTS
    Client,      \* the repositories that start syncs
    Server,      \* the one that answers
    File,        \* the artifacts that are no clusters
    Refs,        \* Refs[m]: the artifacts that manifest m names
    Commits,     \* <<r, X>>: what repository r may create in one transaction
    Modes,       \* Modes[c]: the directions of the syncs of c, push and pull
    MinCluster,  \* create_cluster() wants so many artifacts (100)
    Budget,      \* so many files fit into a message (mxSend)
    ClientReq,   \* so many artifacts a client asks for at least (200),
    ServerReq,   \*   and the server at most (500), when they lack more
    MaxFaults    \* bound on lost messages, killed clients and slow replies

Repo == Client \cup {Server}

ASSUME SyncAssumption ==
    /\ Server \notin Client /\ IsFiniteSet(Client) /\ IsFiniteSet(File)
    /\ \A x \in File : x[1] # "cluster"
    /\ Refs \in [File -> SUBSET File]
    /\ Commits \subseteq Repo \X SUBSET File
    /\ Modes \in [Client -> SUBSET [push: BOOLEAN, pull: BOOLEAN]]
    /\ MinCluster \in Nat /\ MinCluster >= 2
    /\ Budget \in Nat \ {0} /\ MaxFaults \in Nat
    /\ ClientReq \in Nat \ {0} /\ ServerReq \in Nat \ {0}

VARIABLES
    store,    \* per repository: the tables blob, phantom, unclustered, unsent
    sess,     \* per client: the state of client_sync()
    request,  \* per client: the message on its way to the server
    reply,    \* per client: the message on its way back
    quiet,    \* clients during whose sync nobody else has touched the data
    faults    \* how many messages were lost, clients killed, replies slow

vars == <<store, sess, request, reply, quiet, faults>>

NoRequest == [push |-> FALSE, pull |-> FALSE, queued |-> {}, files |-> {},
              igots |-> {}, gimmes |-> {}, reqClusters |-> FALSE]
NoReply == [files |-> {}, igots |-> {}, gimmes |-> {}]
NoSession == [pc |-> "idle", push |-> FALSE, pull |-> FALSE, cycle |-> 0,
              nGimmeRcvd |-> 0, mxPhantomReq |-> ClientReq,
              files |-> {}, igots |-> {}]
NoData == [real |-> {}, phantom |-> {}, unclustered |-> {}, unsent |-> {}]

Cluster(X) == <<"cluster", X>>
IsCluster(x) == x[1] = "cluster"
RefsOf(x) == IF IsCluster(x) THEN x[2] ELSE Refs[x]
Known(s) == s.real \cup s.phantom

TypeOK ==
    /\ \A r \in Repo :
         /\ store[r].real \cap store[r].phantom = {}
         /\ store[r].unclustered \subseteq Known(store[r])
         /\ store[r].unsent \subseteq store[r].real
         /\ \A x \in store[r].real : RefsOf(x) \subseteq Known(store[r])
    /\ \A c \in Client :
         /\ sess[c].pc \in {"idle", "ready", "sent", "answered"}
         /\ sess[c].cycle \in 0 .. 3
         /\ sess[c].mxPhantomReq \in Nat /\ sess[c].mxPhantomReq >= ClientReq
         /\ sess[c].files \cap sess[c].igots = {}
         /\ sess[c].files \cup sess[c].igots \subseteq store[c].real
         /\ request[c].files \cup request[c].queued \subseteq store[c].real
         /\ request[c].gimmes \cap store[c].real = {}
         /\ reply[c].files \cup reply[c].igots \subseteq store[Server].real
    /\ quiet \subseteq Client
    /\ faults \in 0 .. MaxFaults

Init ==
    /\ store = [r \in Repo |-> NoData]
    /\ sess = [c \in Client |-> NoSession]
    /\ request = [c \in Client |-> NoRequest]
    /\ reply = [c \in Client |-> NoReply]
    /\ quiet = {} /\ faults = 0

-----------------------------------------------------------------------------
(* Operators on the tables s of one repository.                            *)

(* content_new() of the unknown artifacts of X.                            *)
Phantomize(s, X) ==
    [s EXCEPT !.phantom = @ \cup (X \ Known(s)),
              !.unclustered = @ \cup (X \ Known(s))]

(* content_put_ex() and manifest_crosslink() of the artifacts of X.  A     *)
(* manifest or cluster makes phantoms of what it names, and what a cluster *)
(* lists leaves table unclustered.                                         *)
Listed(X) == UNION {x[2] : x \in {y \in X : IsCluster(y)}}

(* Broken variant: the row of table phantom stays.                         *)
Put_Phantom(s, X) ==
    LET named == UNION {RefsOf(x) : x \in X}
        t == Phantomize(s, X \cup named)
    IN  [t EXCEPT !.real = @ \cup X, !.unclustered = @ \ Listed(X)]

Put(s, X) ==
    LET named == UNION {RefsOf(x) : x \in X}
        t == Phantomize(s, X \cup named)
    IN  [t EXCEPT !.real = @ \cup X, !.phantom = @ \ X,
                  !.unclustered = @ \ Listed(X)]

(* create_cluster().  A cluster of more than 800 entries, which the code   *)
(* would split, does not occur in the instances.                           *)
(* Broken variant: the phantoms are deleted from unclustered as well.      *)
CreateCluster_Phantoms(s) ==
    LET U == s.unclustered \cap s.real
    IN  IF Cardinality(U) < MinCluster THEN s
        ELSE Put([s EXCEPT !.unclustered = {}], {Cluster(U)})

CreateCluster(s) ==
    LET U == s.unclustered \cap s.real
    IN  IF Cardinality(U) < MinCluster THEN s
        ELSE Put([s EXCEPT !.unclustered = @ \ U], {Cluster(U)})

(* send_unclustered() and send_all_clusters(), but for what is onremote.   *)
Unclustered(s) == s.unclustered \cap s.real
AllClusters(s) == {x \in s.real \ s.unclustered : IsCluster(x)}

(* The choices of n of the artifacts of X, or of all if they are fewer.    *)
UpTo(n, X) == kSubset(IF Cardinality(X) <= n THEN Cardinality(X) ELSE n, X)

(* send_file() of the artifacts of X when n files are in the message: the  *)
(* choices of those that still fit.  The others are announced instead.     *)
Fitting(X, n) == UpTo(IF n >= Budget THEN 0 ELSE Budget - n, X)

-----------------------------------------------------------------------------
(* A commit, a wiki edit: content_put() and db_add_unsent() of each file.  *)
New(r, X) ==
    /\ r \in Client => sess[r].pc \in {"idle", "ready"}
    /\ X \cap store[r].real = {}
    /\ UNION {Refs[x] : x \in X} \subseteq store[r].real \cup X
    /\ store' = [store EXCEPT ![r] = [Put(store[r], X) EXCEPT !.unsent = @ \cup X]]
    /\ quiet' = IF r = Server THEN {} ELSE quiet \ {r}
    /\ UNCHANGED <<sess, request, reply, faults>>

Start(c, mode) ==
    /\ sess[c].pc = "idle"
    /\ sess' = [sess EXCEPT ![c] =
                  [NoSession EXCEPT !.pc = "ready",
                                    !.push = mode.push, !.pull = mode.pull]]
    /\ quiet' = quiet \cup {c}
    /\ UNCHANGED <<store, request, reply, faults>>

(* The first half of a round of client_sync(): the files that the last     *)
(* reply asked for are in the message already.  send_unsent() also empties *)
(* the table, which is undone if the process dies before the commit.       *)
(* request_phantoms() takes the first phantoms by record id; here it may   *)
(* take any.                                                               *)
Request(c) ==
    LET s == sess[c]
        phantoms == IF s.pull THEN store[c].phantom ELSE {}
        unsent == IF s.push THEN store[c].unsent ELSE {}
        clusters == IF s.nGimmeRcvd > 0 /\ s.cycle = 2 THEN AllClusters(store[c]) ELSE {}
    IN  /\ s.pc = "ready"
        /\ \E F \in Fitting(unsent, Cardinality(s.files)),
              G \in UpTo(s.mxPhantomReq, phantoms) :
             request' = [request EXCEPT ![c] =
               [push |-> s.push, pull |-> s.pull, queued |-> s.files, files |-> F,
                igots |-> s.igots \cup (unsent \ F) \cup
                          (IF s.push THEN (Unclustered(store[c]) \cup clusters) \ F
                                     ELSE {}),
                gimmes |-> G,
                reqClusters |-> G # {} /\ s.cycle = 2]]
        /\ sess' = [sess EXCEPT ![c].pc = "sent", ![c].files = {}, ![c].igots = {}]
        /\ UNCHANGED <<store, reply, quiet, faults>>

(* page_xfer(): what the server may ask for, not counting what this        *)
(* message says that the client lacks (table unk).                         *)
Wanted(s, m) == UpTo(ServerReq, IF m.push THEN s.phantom \ m.gimmes ELSE {})

(* A slow server is one that reaches max-download-time before it has sent  *)
(* a file, and only announces what it was asked for.                       *)
Serve(c, slow) ==
    LET m  == request[c]
        s1 == Put(store[Server], m.queued)
        asked == IF m.pull THEN m.gimmes \cap s1.real ELSE {}
        s2 == Put(s1, m.files)
        s3 == IF m.push THEN Phantomize(s2, m.igots) ELSE s2
        s4 == IF m.pull THEN CreateCluster(s3) ELSE s3
        clusters == IF m.reqClusters THEN AllClusters(s1) \ m.queued ELSE {}
    IN  /\ sess[c].pc = "sent"
        /\ slow => asked # {} /\ faults < MaxFaults
        /\ \E F \in Fitting(asked, IF slow THEN Budget ELSE 0), W \in Wanted(s3, m) :
             LET onremote == m.queued \cup F \cup m.files
                               \cup (IF m.push THEN m.igots ELSE {})
             IN  reply' = [reply EXCEPT ![c] =
                   [files |-> F,
                    igots |-> (asked \ F) \cup (clusters \ F) \cup
                              (IF m.pull THEN Unclustered(s4) \ onremote ELSE {}),
                    gimmes |-> W]]
        /\ store' = [store EXCEPT ![Server] = s4]
        /\ sess' = [sess EXCEPT ![c].pc = "answered"]
        /\ quiet' = (IF s4 = store[Server] THEN quiet ELSE quiet \cap {c})
                      \ (IF slow THEN {c} ELSE {})
        /\ faults' = IF slow THEN faults + 1 ELSE faults
        /\ UNCHANGED request

(* Another round?  Broken variants: new phantoms alone are no reason for   *)
(* one; unsent files are one, which only a push ever sends.                *)
Go_NoPhantom(nFileRecv, newPhantom, s, sending) ==
    \/ nFileRecv > 0 /\ s.phantom # {}
    \/ sending # {}
Go_Unsent(nFileRecv, newPhantom, s, sending) ==
    \/ (nFileRecv > 0 \/ newPhantom) /\ s.phantom # {}
    \/ sending # {} \/ s.unsent # {}
Ask(nFileRecv, newPhantom, s) == (nFileRecv > 0 \/ newPhantom) /\ s.phantom # {}
Go(nFileRecv, newPhantom, s, sending) ==
    Ask(nFileRecv, newPhantom, s) \/ sending # {}

(* mxPhantomReq for the next round.                                        *)
ReqAfter(nFileRecv) == IF 2 * nFileRecv < ClientReq THEN ClientReq ELSE 2 * nFileRecv

(* The second half of a round of client_sync().                            *)
HandleReply(c) ==
    LET s == sess[c]
        m == reply[c]
        t1 == Put(store[c], m.files)
        t2 == IF s.pull THEN Phantomize(t1, m.igots) ELSE t1
        newPhantom == s.pull /\ ~(m.igots \subseteq Known(t1))
        onremote == request[c].files \cup m.files \cup m.igots
        asked == IF s.push THEN (m.gimmes \cap t2.real) \ onremote ELSE {}
    IN  /\ s.pc = "answered"
        /\ \E F \in Fitting(asked, 0) :
             LET n == Cardinality(m.files)
                 go == Go(n, newPhantom, t2, F)
             IN  sess' = [sess EXCEPT ![c] =
                   IF ~go THEN NoSession
                   ELSE [s EXCEPT
                          !.pc = "ready", !.files = F, !.igots = asked \ F,
                          !.cycle = IF @ < 3 THEN @ + 1 ELSE @,
                          !.mxPhantomReq =
                             IF Ask(n, newPhantom, t2) THEN ReqAfter(n) ELSE @,
                          !.nGimmeRcvd =
                             IF s.push THEN Cardinality(m.gimmes \cap Known(t2)) ELSE 0]]
        /\ store' = [store EXCEPT ![c] =
                       [t2 EXCEPT !.unsent = IF s.push THEN {} ELSE @]]
        /\ request' = [request EXCEPT ![c] = NoRequest]
        /\ reply' = [reply EXCEPT ![c] = NoReply]
        /\ quiet' = IF sess'[c].pc = "idle" THEN quiet \ {c} ELSE quiet
        /\ UNCHANGED faults

(* The exchange fails: the client commits what the round did so far.       *)
Fail(c) ==
    /\ sess[c].pc \in {"sent", "answered"} /\ faults < MaxFaults
    /\ store' = [store EXCEPT ![c].unsent = IF sess[c].push THEN {} ELSE @]
    /\ sess' = [sess EXCEPT ![c] = NoSession]
    /\ request' = [request EXCEPT ![c] = NoRequest]
    /\ reply' = [reply EXCEPT ![c] = NoReply]
    /\ faults' = faults + 1 /\ quiet' = quiet \ {c}

(* The client dies; a request under way may still be lost or served.       *)
Kill(c) ==
    /\ sess[c].pc # "idle" /\ faults < MaxFaults
    /\ sess' = [sess EXCEPT ![c] = NoSession]
    /\ request' = [request EXCEPT ![c] = NoRequest]
    /\ reply' = [reply EXCEPT ![c] = NoReply]
    /\ faults' = faults + 1 /\ quiet' = quiet \ {c}
    /\ UNCHANGED store

Next ==
    \/ \E new \in Commits : New(new[1], new[2])
    \/ \E c \in Client :
         \/ \E mode \in Modes[c] : Start(c, mode)
         \/ \E slow \in BOOLEAN : Serve(c, slow)
         \/ Request(c) \/ HandleReply(c) \/ Fail(c) \/ Kill(c)

Spec == Init /\ [][Next]_vars

(* A sync that has begun goes on, and every client whose syncs end starts  *)
(* one in both directions again and again.  Nothing makes a message        *)
(* arrive, except that the faults of an instance are bounded.  Request,    *)
(* Serve and HandleReply are enabled as long as sess[c].pc has the value   *)
(* they wait for, and change it, so that weak fairness of each of them is  *)
(* "pc does not keep that value for ever".                                 *)
Fairness ==
    \A c \in Client :
       /\ \A at \in {"ready", "sent", "answered"} : []<>(sess[c].pc # at)
       /\ \/ <>[](sess[c].pc # "idle")
          \/ []<>(sess[c].pc # "idle" /\ sess[c].push /\ sess[c].pull)

LiveSpec == Spec /\ Fairness

-----------------------------------------------------------------------------
(* "An unclustered record is a record ... that is not mentioned by some    *)
(* other cluster" (schema.c:344): whatever a repository has can be found   *)
(* from its unclustered artifacts through the clusters that it has.        *)
Announced ==
    \A r \in Repo : store[r].real \ store[r].unclustered \subseteq Listed(store[r].real)

(* A sync in both directions that ends by itself, with nobody else around  *)
(* and no slow reply, leaves both sides with the same artifacts, however   *)
(* many round trips, clusters of clusters and partial answers it takes.    *)
(* Only phantoms that the other side cannot supply, and as many of them    *)
(* as a request may have gimme cards, can take the places of what it has.  *)
SyncComplete ==
    [][\A c \in quiet :
         /\ sess[c].pc # "idle" /\ sess'[c].pc = "idle" /\ faults' = faults
         /\ sess[c].push /\ sess[c].pull
         => /\ Cardinality(store'[c].phantom \ store'[Server].real) < ClientReq
                 => store'[Server].real \subseteq store'[c].real
            /\ Cardinality(store'[Server].phantom \ store'[c].real) < ServerReq
                 => store'[c].real \subseteq store'[Server].real]_vars

(* A sync ends.                                                            *)
SyncEnds == \A c \in Client : sess[c].pc # "idle" ~> sess[c].pc = "idle"

(* "Synchronization is the process of sharing artifacts between            *)
(* repositories so that all repositories have copies of all artifacts"     *)
(* (sync.wiki:12): with a finite number of faults they do in the end.      *)
Converges == <>[](\A r \in Repo : store[r].real = store[Server].real)
=============================================================================
