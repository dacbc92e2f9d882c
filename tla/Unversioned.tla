---------------------------- MODULE Unversioned -----------------------------
(***************************************************************************)
(* Unversioned files: table unversioned (src/src/unversioned.c) and its    *)
(* synchronisation (the uv cards of src/src/xfer.c).  Only the newest      *)
(* version of a file is kept; a deleted file leaves a marker, a row whose  *)
(* hash is NULL ("-" in a message).                                        *)
(*                                                                         *)
(* The first round of "fossil uv sync" compares a digest of the two tables *)
(* and, if they differ, sends the server's catalog; the later rounds move  *)
(* the files, one transaction per round on each side.  The digest is       *)
(* cached in config entry uv-hash, which every write has to unset.         *)
(* A hash is a number, in the order of strcmp(), and 0 stands for "-".     *)
(***************************************************************************)
EXTENDS Naturals, Sequences, FiniteSets, FiniteSetsExt

CONSTANTS
    Client,     \* the repositories that start syncs
    Server,     \* the one that answers
    Name,       \* names of unversioned files
    Edits,      \* Edits[r]: what users do in r, in this order, a sequence of
                \* <<operation, name, hash, mtime>>
    Writers,    \* the clients with permission to push (capability y)
    Reverters,  \* the clients that run "fossil uv revert", too
    Room,       \* so many files with content fit into a message
    MaxFaults   \* bound on failed exchanges and killed clients

Repo == Client \cup {Server}

UnversionedAssumption ==
    /\ Server \notin Client
    /\ Writers \subseteq Client /\ Reverters \subseteq Client
    /\ Edits \in [Repo -> Seq({"add", "remove", "touch"} \X Name \X Nat \X (Nat \ {0}))]
    /\ \A r \in Repo : \A i \in DOMAIN Edits[r] :
         /\ Edits[r][i][1] = "add" => Edits[r][i][3] # 0
         /\ \A j \in 1 .. i : Edits[r][j][4] <= Edits[r][i][4]
    /\ Room \in Nat \ {0} /\ MaxFaults \in Nat

VARIABLES
    uv,       \* per repository: table unversioned
    cache,    \* per repository: uv-hash, or NoDigest
    sess,     \* per client: the state of client_sync()
    request,  \* per client: the message on its way to the server
    reply,    \* per client: the message on its way back
    quiet,    \* clients during whose sync nobody else has changed anything
    edits,    \* per repository: the edits yet to be made
    faults    \* how many exchanges failed, clients were killed

vars == <<uv, cache, sess, request, reply, quiet, edits, faults>>

NoRow == [mtime |-> 0, hash |-> 0, content |-> FALSE]
NoDigest == {<<>>}
NoRequest == [digest |-> NoDigest, gimmes |-> {}, files |-> {}]
NoReply == [push |-> "unknown", files |-> {}, igots |-> {}]
NoSession == [pc |-> "idle", revert |-> FALSE, doPush |-> FALSE, pullOnly |-> FALSE,
              cycle |-> 0, gimmes |-> {}, tosend |-> {}, mtimeOnly |-> {},
              dropped |-> {}]

Files(t) == {n \in Name : t[n].hash # 0}
Digest(t) == {<<n, t[n].mtime, t[n].hash>> : n \in Files(t)}

(* unversioned_content_hash(): what is cached counts.                      *)
ContentHash(r) == IF cache[r] = NoDigest THEN Digest(uv[r]) ELSE cache[r]

TypeOK ==
    /\ \A r \in Repo, n \in Name :
         /\ uv[r][n].content => uv[r][n].hash # 0
         /\ uv[r][n].hash # 0 => uv[r][n].mtime # 0
    /\ cache[Server] \in {NoDigest, Digest(uv[Server])}
    /\ \A c \in Client :
         /\ sess[c].pc \in {"idle", "ready", "sent", "answered"}
         /\ sess[c].mtimeOnly \subseteq sess[c].tosend
         /\ sess[c].dropped # {} => sess[c].revert
         /\ sess[c].gimmes # {} => sess[c].pc = "ready"
         /\ request[c].gimmes # {} => sess[c].pc \in {"sent", "answered"}
         /\ sess[c].doPush => c \in Writers \/ sess[c].revert
         /\ request[c].files # {} => c \in Writers
    /\ faults \in 0 .. MaxFaults

Init ==
    /\ uv = [r \in Repo |-> [n \in Name |-> NoRow]]
    /\ cache = [r \in Repo |-> NoDigest]
    /\ sess = [c \in Client |-> NoSession]
    /\ request = [c \in Client |-> NoRequest]
    /\ reply = [c \in Client |-> NoReply]
    /\ quiet = {} /\ edits = Edits /\ faults = 0

-----------------------------------------------------------------------------
(* A card names a version of a file: an uvigot card, or an uvfile card,    *)
(* which has the content or has not.                                       *)
Card(n, row) == [name |-> n, mtime |-> row.mtime, hash |-> row.hash,
                 content |-> row.content]

Exists(row) == row.mtime # 0
Cmp(a, b) == IF a < b THEN 2 ELSE IF a = b THEN 3 ELSE 4

(* unversioned_status().  Broken variant: a tie of the times is for the    *)
(* local file.                                                             *)
Status_Tie(row, mtime, hash) ==
    IF ~Exists(row) THEN 0
    ELSE IF row.hash = hash THEN Cmp(row.mtime, mtime)
    ELSE IF row.mtime < mtime THEN 1 ELSE 5
Status(row, mtime, hash) ==
    IF ~Exists(row) THEN 0
    ELSE IF row.hash = hash THEN Cmp(row.mtime, mtime)
    ELSE IF row.mtime < mtime \/ (row.mtime = mtime /\ row.hash < hash) THEN 1
    ELSE 5

(* xfer_accept_unversioned_file(): the row after an uvfile card.  Broken   *)
(* variant: the sender is trusted.                                         *)
Accept_Trust(row, card) ==
    [mtime |-> card.mtime, hash |-> card.hash, content |-> card.content]
Accept(row, card) ==
    LET status == Status(row, card.mtime, card.hash)
        new == [mtime |-> card.mtime, hash |-> card.hash, content |-> card.content]
    IN  CASE status >= 3   -> row
          [] status = 2    -> [row EXCEPT !.mtime = card.mtime]
          [] card.hash = 0 -> IF Exists(row) THEN new ELSE row
          [] OTHER         -> new

CardFor(n, cards) == CHOOSE c \in cards : c.name = n
Named(cards) == {c.name : c \in cards}
AcceptAll(t, cards) ==
    [n \in Name |-> IF n \in Named(cards) THEN Accept(t[n], CardFor(n, cards))
                    ELSE t[n]]

(* Did an uvfile card reach the db_unset() of uv-hash?                     *)
Changes(t, cards) == \E c \in cards : Status(t[c.name], c.mtime, c.hash) < 3

(* send_unversioned_file() of the names of X, of which those in big are    *)
(* sent with their content: as many of these as there is Room for, and     *)
(* never none.  Deletion markers and mtimes need no room, but those that   *)
(* come when the message is full wait, too.                                *)
Sendable(X, big) ==
    {Y \cup Z : Y \in kSubset(IF Cardinality(big) < Room THEN Cardinality(big) ELSE Room, big),
                Z \in IF Cardinality(big) < Room THEN {X \ big} ELSE SUBSET (X \ big)}

-----------------------------------------------------------------------------
(* "uv add" (or edit, or an upload), "uv remove" and "uv touch": one       *)
(* transaction, which unsets uv-hash.  The time is that of the local       *)
(* clock, which does not run backwards.                                    *)
Edit(r) ==
    LET e == Head(edits[r])
        n == e[2]
        row == uv[r][n]
    IN  /\ edits[r] # <<>>
        /\ e[4] >= row.mtime
        /\ r \in Client => sess[r].pc \in {"idle", "ready"}
        /\ uv' = [uv EXCEPT ![r][n] =
             CASE e[1] = "add" -> [mtime |-> e[4], hash |-> e[3], content |-> TRUE]
               [] ~Exists(row) -> row
               [] e[1] = "remove" -> [NoRow EXCEPT !.mtime = e[4]]
               [] OTHER -> [row EXCEPT !.mtime = e[4]]]
        /\ cache' = [cache EXCEPT ![r] = NoDigest]
        /\ edits' = [edits EXCEPT ![r] = Tail(@)]
        /\ quiet' = IF r = Server THEN {} ELSE quiet \ {r}
        /\ UNCHANGED <<sess, request, reply, faults>>

(* client_sync() begins: everything may have to be sent (uv_tosend).       *)
Start(c, revert) ==
    /\ sess[c].pc = "idle"
    /\ revert => c \in Reverters
    /\ sess' = [sess EXCEPT ![c] = [NoSession EXCEPT !.pc = "ready", !.revert = revert,
                                                     !.tosend = Files(uv[c])]]
    /\ quiet' = quiet \cup {c}
    /\ UNCHANGED <<uv, cache, request, reply, edits, faults>>

(* The first half of a round.  The first request has the digest; a later   *)
(* one has the uvgimme cards, which the handling of the last reply has     *)
(* written, and as many files as fit.  A message that gets full is taken   *)
(* for a sign that there are more.  "uv revert" deletes the files instead, *)
(* and leaves uv-hash alone.                                               *)
Request(c) ==
    LET s == sess[c]
        pushing == s.doPush /\ ~s.revert
        big == Files(uv[c]) \ s.mtimeOnly
        dropped == IF s.doPush /\ s.revert THEN s.tosend ELSE {}
    IN  /\ s.pc = "ready"
        /\ \E X \in IF pushing THEN Sendable(s.tosend, s.tosend \cap big) ELSE {{}} :
           \E more \in {X # s.tosend, Cardinality(X \cap big) = Room} :
             /\ X # s.tosend => more
             /\ request' = [request EXCEPT ![c] =
                  [digest |-> IF s.cycle = 0 THEN ContentHash(c) ELSE NoDigest,
                   gimmes |-> s.gimmes,
                   files |-> {Card(n, [uv[c][n] EXCEPT !.content = @ /\ n \notin s.mtimeOnly]) :
                              n \in {x \in X : Exists(uv[c][x])}}]]
             /\ sess' = [sess EXCEPT ![c] =
                  [s EXCEPT !.pc = "sent", !.gimmes = {}, !.dropped = dropped,
                            !.tosend = @ \ (X \cup dropped), !.mtimeOnly = @ \ (X \cup dropped),
                            !.doPush = pushing /\ more]]
        /\ UNCHANGED <<uv, cache, reply, quiet, edits, faults>>

(* page_xfer(), one transaction: the digest, or the files asked for, and   *)
(* then those that come with the message.                                  *)
Serve(c) ==
    LET m == request[c]
        t == uv[Server]
        differ == m.digest # NoDigest /\ m.digest # ContentHash(Server)
        asked == {n \in m.gimmes : Exists(t[n])}
    IN  /\ sess[c].pc = "sent"
        /\ \E X \in Sendable(asked, asked \cap Files(t)) :
             reply' = [reply EXCEPT ![c] =
               [push |-> IF ~differ THEN "unknown" ELSE IF c \in Writers THEN "ok" ELSE "no",
                files |-> {Card(n, t[n]) : n \in X},
                igots |-> {Card(n, t[n]) : n \in IF differ THEN {x \in Name : Exists(t[x])}
                                                  ELSE asked \ X}]]
        /\ uv' = [uv EXCEPT ![Server] = AcceptAll(t, m.files)]
        /\ cache' = [cache EXCEPT ![Server] =
             IF Changes(t, m.files) THEN NoDigest
             ELSE IF m.digest # NoDigest THEN ContentHash(Server) ELSE @]
        /\ sess' = [sess EXCEPT ![c].pc = "answered"]
        /\ quiet' = IF uv'[Server] = t THEN quiet ELSE quiet \cap {c}
        /\ UNCHANGED <<request, edits, faults>>

(* The client's transaction of a round: what Request has done in it.       *)
Begun(c) == [n \in Name |-> IF n \in sess[c].dropped THEN NoRow ELSE uv[c][n]]
BegunCache(c) == IF request[c].digest # NoDigest THEN request[c].digest ELSE cache[c]

(* "uv revert" takes the server's version, even of a newer file.           *)
ReplyStatus(row, card, revert) ==
    LET status == Status(row, card.mtime, card.hash)
    IN  IF revert /\ status = 4 THEN 2 ELSE IF revert /\ status = 5 THEN 1 ELSE status

(* An uvigot card: the row of a file that has to be fetched is deleted.    *)
Got(row, card, revert) ==
    LET status == ReplyStatus(row, card, revert)
    IN  CASE status <= 1 /\ card.hash # 0 -> NoRow
          [] status = 1 /\ card.hash = 0  -> [NoRow EXCEPT !.mtime = card.mtime]
          [] status = 2                    -> [row EXCEPT !.mtime = card.mtime]
          [] OTHER                         -> row

(* Another round?                                                          *)
Go(doPush, nUvGimmeSent, nUvFileRcvd, nCycle) ==
    doPush \/ (nUvGimmeSent > 0 /\ (nUvFileRcvd > 0 \/ nCycle < 3))

Idle(c) ==
    /\ sess' = [sess EXCEPT ![c] = NoSession]
    /\ quiet' = quiet \ {c}

(* The second half of a round.                                             *)
HandleReply(c) ==
    LET s == sess[c]
        m == reply[c]
        t == AcceptAll(Begun(c), m.files)
        at(n) == CardFor(n, m.igots)
        status(n) == ReplyStatus(t[n], at(n), s.revert)
        with(S) == {n \in Named(m.igots) : status(n) \in S}
        gimmes == {n \in with({0, 1}) : at(n).hash # 0}
        pullOnly == s.pullOnly \/ m.push = "no"
        doPush == s.doPush \/ m.push = "ok" \/ (m.push = "no" /\ s.revert)
        settled == IF pullOnly THEN Named(m.igots) ELSE with({0, 1, 2, 3})
        cycle == IF s.cycle < 3 THEN s.cycle + 1 ELSE 3
    IN  /\ s.pc = "answered"
        /\ uv' = [uv EXCEPT ![c] = [n \in Name |->
                    IF n \in Named(m.igots) THEN Got(t[n], at(n), s.revert) ELSE t[n]]]
        /\ cache' = [cache EXCEPT ![c] =
             IF Changes(Begun(c), m.files) \/ with({1}) \ gimmes # {}
                \/ with({2}) # {}
             THEN NoDigest ELSE BegunCache(c)]
        /\ IF Go(doPush, Cardinality(gimmes), Cardinality(m.files), cycle)
           THEN /\ sess' = [sess EXCEPT ![c] =
                     [pc |-> "ready", revert |-> s.revert, doPush |-> doPush,
                      pullOnly |-> pullOnly, cycle |-> cycle, gimmes |-> gimmes,
                      tosend |-> (s.tosend \cup with({5})) \ settled,
                      mtimeOnly |-> ((s.mtimeOnly \cup (with({4}) \cap s.tosend)) \ with({5}))
                                      \ settled,
                      dropped |-> {}]]
                /\ UNCHANGED quiet
           ELSE Idle(c)
        /\ request' = [request EXCEPT ![c] = NoRequest]
        /\ reply' = [reply EXCEPT ![c] = NoReply]
        /\ UNCHANGED <<edits, faults>>

(* The exchange fails, before or after the server has done its part: the   *)
(* client commits what the round did so far.                               *)
Fail(c) ==
    /\ sess[c].pc \in {"sent", "answered"} /\ faults < MaxFaults
    /\ uv' = [uv EXCEPT ![c] = Begun(c)]
    /\ cache' = [cache EXCEPT ![c] = BegunCache(c)]
    /\ request' = [request EXCEPT ![c] = NoRequest]
    /\ reply' = [reply EXCEPT ![c] = NoReply]
    /\ faults' = faults + 1
    /\ Idle(c)
    /\ UNCHANGED edits

(* The client dies, and its transaction is rolled back.                    *)
Kill(c) ==
    /\ sess[c].pc # "idle" /\ faults < MaxFaults
    /\ request' = [request EXCEPT ![c] = NoRequest]
    /\ reply' = [reply EXCEPT ![c] = NoReply]
    /\ faults' = faults + 1
    /\ Idle(c)
    /\ UNCHANGED <<uv, cache, edits>>

Sync(c) == Request(c) \/ Serve(c) \/ HandleReply(c) \/ Fail(c) \/ Kill(c)

Next ==
    \/ \E r \in Repo : Edit(r)
    \/ \E c \in Client : Sync(c) \/ \E revert \in BOOLEAN : Start(c, revert)

Spec == Init /\ [][Next]_vars

(* A sync that has begun goes on, and every client starts one again and    *)
(* again.  As in module Sync, a step of a round is enabled as long as pc   *)
(* has the value it waits for, and changes it.                             *)
Fairness ==
    \A c \in Client :
       /\ \A at \in {"ready", "sent", "answered"} : []<>(sess[c].pc # at)
       /\ []<>(sess[c].pc # "idle")

LiveSpec == Spec /\ Fairness

-----------------------------------------------------------------------------
(* How new a version is, and the newest version of n in any repository.    *)
Version(row) == <<row.mtime, row.hash>>
Newer(v, w) == v[1] > w[1] \/ (v[1] = w[1] /\ v[2] > w[2])
Visible(t) == [n \in Name |-> IF t[n].hash = 0 THEN NoRow ELSE t[n]]

(* "The most recent version of each file is propagated to all repositories *)
(* and all prior versions are permanently forgotten" (unversioned.c:290),  *)
(* and not the other way round: no step of a sync other than a revert      *)
(* takes the newest version of a file, or the news of its deletion, from   *)
(* the last repository that has it; the client forgets its own version     *)
(* before it has got the newer one.                                        *)
KeepsNewest ==
    edits' = edits /\ (\A c \in Client : ~sess[c].revert) =>
      \A r \in Repo, n \in Name : \E q \in Repo :
         ~Newer(Version(uv[r][n]), Version(uv'[q][n]))

(* A sync that ends by itself, of a client that may write and with nobody  *)
(* else around, leaves both sides with the same files, however many round  *)
(* trips the size limit makes of it.                                       *)
SyncCompletes ==
    \A c \in quiet \cap Writers :
      sess[c].pc # "idle" /\ sess'[c].pc = "idle" /\ faults' = faults /\ ~sess[c].revert
      => Digest(uv'[c]) = Digest(uv'[Server])

(* Both, of each step of a sync.                                           *)
SyncKeepsNewest == [][KeepsNewest /\ SyncCompletes]_vars

(* After the last edit and the last fault all repositories have the same   *)
(* files.                                                                  *)
SameFiles == \A r \in Repo : Digest(uv[r]) = Digest(uv[Server])
UvConverges == <>[]SameFiles

(* "That means the CONTENT is omitted ... because it is unchanged and this *)
(* record exists purely to update the MTIME" (xfer.c:316): a record never  *)
(* takes the place of another version without bringing its content.        *)
RowsHaveContent == \A r \in Repo : \A n \in Files(uv[r]) : uv[r][n].content
=============================================================================
