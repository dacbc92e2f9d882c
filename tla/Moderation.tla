----------------------------- MODULE Moderation -----------------------------
(***************************************************************************)
(* Posts that wait for a moderator (moderate.c, with wiki_put(),           *)
(* attach_commit() and the tables they write): operators on a record db    *)
(* that stands for the tables concerned.                                   *)
(*                                                                         *)
(* Rows are kept under record ids, because what moderation removes makes   *)
(* its record id available to the next artifact.                           *)
(***************************************************************************)
EXTENDS Naturals, FiniteSets, FiniteSetsExt

CONSTANTS
    Rid,        \* record ids: 1 .. n
    Artifact,   \* names of artifacts
    FileOf,     \* FileOf[a]: the file attached by the attachment artifact a
    None

ModerationAssumption ==
    /\ IsFiniteSet(Rid) /\ Rid = 1 .. Cardinality(Rid)
    /\ FileOf \in [DOMAIN FileOf -> Artifact] /\ DOMAIN FileOf \subseteq Artifact
    /\ None \notin Artifact

NoAlert == [queued |-> FALSE, sep |-> FALSE, digest |-> FALSE, mod |-> FALSE]
Queued == [NoAlert EXCEPT !.queued = TRUE]

Tables == [blob : [Rid -> Artifact \cup {None}],
           phantom : SUBSET Rid, private : SUBSET Rid,
           unclustered : SUBSET Rid, unsent : SUBSET Rid, event : SUBSET Rid,
           modreq : SUBSET (Rid \X (Rid \cup {0})),
           attachment : SUBSET (Rid \X Artifact),
           alert : [Rid -> [queued : BOOLEAN, sep : BOOLEAN,
                            digest : BOOLEAN, mod : BOOLEAN]]]

EmptyTables ==
    [blob |-> [r \in Rid |-> None], phantom |-> {}, private |-> {},
     unclustered |-> {}, unsent |-> {}, event |-> {}, modreq |-> {},
     attachment |-> {}, alert |-> [r \in Rid |-> NoAlert]]

Used(db) == {r \in Rid : db.blob[r] # None}
RidOf(db, a) == IF \E r \in Rid : db.blob[r] = a
                THEN CHOOSE r \in Rid : db.blob[r] = a ELSE 0

(* SQLite gives a new row of blob the largest rid in use, plus one.        *)
NewRid(db) == 1 + Max(Used(db) \cup {0})

IsPending(db, r) == \E row \in db.modreq : row[1] = r
AttachRid(db, r) == IF IsPending(db, r)
                    THEN (CHOOSE row \in db.modreq : row[1] = r)[2] ELSE 0

-----------------------------------------------------------------------------
(* content_put_ex() of full text, for a new artifact or for a phantom.     *)
Put(db, a, isPrivate) ==
    LET old == RidOf(db, a)
        r == IF old = 0 THEN NewRid(db) ELSE old
    IN  IF old # 0 /\ old \notin db.phantom THEN db
        ELSE [db EXCEPT !.blob[r] = a,
                        !.phantom = @ \ {r},
                        !.private = IF isPrivate THEN @ \cup {r} ELSE @,
                        !.unclustered = IF old = 0 /\ ~isPrivate
                                        THEN @ \cup {r} ELSE @]

(* content_new() inserts into unclustered without OR IGNORE: the statement *)
(* fails when a row of that rid is there already.                          *)
PhantomFails(db) == NewRid(db) \in db.unclustered
PutPhantom(db, a) ==
    LET r == NewRid(db)
    IN  [db EXCEPT !.blob[r] = a, !.phantom = @ \cup {r},
                   !.unclustered = @ \cup {r}]

(* What manifest_crosslink() adds to the timeline, and what the trigger on *)
(* table event does: a row of pending_alert that is there already stays.   *)
Recorded(db, r) ==
    [db EXCEPT !.event = @ \cup {r},
               !.alert[r] = IF @.queued THEN @ ELSE Queued]

(* db_add_unsent(), and INSERT OR IGNORE INTO unclustered.                 *)
Announced(db, r) ==
    [db EXCEPT !.unsent = @ \cup {r}, !.unclustered = @ \cup {r}]

Waiting(db, r, attachRid) == [db EXCEPT !.modreq = @ \cup {<<r, attachRid>>}]

(* wiki_put(): a wiki page or a forum post.                                *)
WikiPut(db, a, needMod) ==
    LET d == Put(db, a, needMod)
        r == RidOf(d, a)
    IN  Recorded(Announced(IF needMod THEN Waiting(d, r, 0) ELSE d, r), r)

(* attach_commit(): the file, then the artifact that attaches it.          *)
AttachCommit(db, a, target, needMod) ==
    LET d == Put(Put(db, FileOf[a], needMod), a, needMod)
        r == RidOf(d, a)
        e == IF needMod THEN Waiting(d, r, RidOf(d, FileOf[a])) ELSE Announced(d, r)
    IN  Recorded([e EXCEPT !.attachment = @ \cup {<<r, target>>}], r)

-----------------------------------------------------------------------------
(* moderation_approve().                                                   *)
Approve(db, r) ==
    IF ~IsPending(db, r) THEN db
    ELSE Announced([db EXCEPT !.private = @ \ {r},
                              !.modreq = {row \in @ : row[1] # r}], r)

(* The rows that moderation_disapprove() deletes for one rid.              *)
Erased(db, r) ==
    [db EXCEPT !.blob[r] = None, !.event = @ \ {r}, !.private = @ \ {r},
               !.attachment = {row \in @ : row[1] # r}]

(* moderation_disapprove(): the object, then the attached file unless some *)
(* other request names it.                                                 *)
InUse(db, r) == \E row \in db.modreq : row[2] = r
Disapprove(db, r) ==
    LET fid == AttachRid(db, r)
        d == [Erased(db, r) EXCEPT !.modreq = {row \in @ : row[1] # r}]
    IN  IF ~IsPending(db, r) \/ r \notin db.private THEN db
        ELSE IF fid = 0 \/ fid \notin d.private \/ InUse(d, fid) THEN d
        ELSE Erased(d, fid)

(* moderation_forumpost_approve() and _disapprove(): the post, then its    *)
(* attachments, which are looked up by the post's name in table blob.      *)
PendingAttachments(db, r) ==
    {q \in Rid : IsPending(db, q) /\ <<q, db.blob[r]>> \in db.attachment}
ApprovePost(db, r) ==
    LET d == Approve(db, r)
    IN  FoldSet(LAMBDA q, acc : Approve(acc, q), d, PendingAttachments(d, r))
DisapprovePost(db, r) ==
    LET d == Disapprove(db, r)
    IN  FoldSet(LAMBDA q, acc : Disapprove(acc, q), d, PendingAttachments(d, r))

-----------------------------------------------------------------------------
(* Whatever is decided, the rows of the timeline, of the requests, of the  *)
(* attachments and of table private are about artifacts of the repository. *)
RowsAreOfArtifacts(db) ==
    LET requests == {row[1] : row \in db.modreq}
        attached == {row[1] : row \in db.attachment}
    IN  /\ requests \cup attached \cup db.event \cup db.private \subseteq Used(db)
        /\ requests \subseteq db.private
=============================================================================
