------------------------------- MODULE Alerts -------------------------------
(***************************************************************************)
(* E-mail notifications (alerts.c) about the forum, whose posts may have   *)
(* to wait for a moderator.  Users post, moderators decide and peers send  *)
(* artifacts in transactions of their own; meanwhile the backoffice goes   *)
(* through alert_send_alerts() statement by statement, once for the        *)
(* subscribers of single alerts and once a day for those of digests, and   *)
(* may be killed.                                                          *)
(***************************************************************************)
EXTENDS Moderation

CONSTANTS
    Post,         \* the forum posts that will be made
    Attached,     \* Attached[a]: the post to which the attachment a belongs
    Remote,       \* artifacts that peers announce and send
    Casts,        \* the sets of these of which one comes into play
    Subscriber,
    Moderators,   \* the subscribers who may see what waits for approval
    DigestOnly,   \* the subscribers of the daily digest
    MaxCrashes    \* bound on kills of the backoffice

Attachments == DOMAIN Attached
Notified == Post \cup Attachments \cup Remote

AlertsAssumption ==
    /\ ModerationAssumption
    /\ Notified \subseteq Artifact /\ Attached \in [DOMAIN FileOf -> Post]
    /\ Post \cap Attachments = {} /\ Remote \cap (Post \cup Attachments) = {}
    /\ {FileOf[a] : a \in Attachments} \cap Notified = {}
    /\ Casts \subseteq SUBSET Notified
    /\ Moderators \subseteq Subscriber /\ DigestOnly \subseteq Subscriber
    /\ MaxCrashes \in Nat

VARIABLES
    db,       \* the tables, as committed
    task,     \* where the backoffice is in alert_send_alerts(), and
    want,     \*   temp.wantalert: record ids, and whether they are pending
    list,     \*   the events composed from it
    todo,     \*   the subscribers who have not been written to yet
    daily,    \*   is this the digest?
    newDay,   \* a day has begun since email-last-digest
    mail,     \* the letters <<subscriber, artifact, pending>> sent so far,
    anew,     \*   those of them that are due once more (see below),
    again,    \*   and those sent twice though they were not
    cast,     \* the artifacts that come into play, and those of them that
    made,     \*   users have made (a name is never used twice)
    excused,  \* artifacts about which the code promises nothing (see below)
    shown,    \* artifacts that were public at some time
    crashes

alertsVars == <<db, task, want, list, todo, daily, newDay, mail, anew, again, cast,
                made, excused, shown, crashes>>
sender == <<task, want, list, todo, daily>>

Tasks == {"idle", "selected", "composed", "marked", "between"}
Letter == Subscriber \X Notified \X BOOLEAN

AlertsTypeOK ==
    /\ db \in Tables /\ RowsAreOfArtifacts(db)
    /\ task \in Tasks /\ daily \in BOOLEAN /\ newDay \in BOOLEAN
    /\ want \in SUBSET (Rid \X BOOLEAN)
    /\ list \in SUBSET (Notified \X BOOLEAN)
    /\ todo \in SUBSET Subscriber
    /\ mail \in SUBSET Letter /\ anew \in SUBSET mail /\ again \in SUBSET mail
    /\ cast \in Casts /\ made \subseteq cast
    /\ excused \in SUBSET Notified /\ shown \in SUBSET Artifact
    /\ crashes \in 0 .. MaxCrashes

Idle == task = "idle" /\ want = {} /\ list = {} /\ todo = {} /\ daily = FALSE
AlertsInit ==
    /\ db = EmptyTables
    /\ Idle
    /\ newDay \in BOOLEAN /\ cast \in Casts
    /\ mail = {} /\ anew = {} /\ again = {} /\ made = {} /\ excused = {} /\ shown = {}
    /\ crashes = 0

-----------------------------------------------------------------------------
(* A transaction leaves the tables d behind.  Nothing is promised about an *)
(* artifact that has taken over the record id of a rejected one, together  *)
(* with its row in pending_alert or in temp.wantalert; nor about one that  *)
(* was posted "without alerts".                                            *)
Taken(r) == db.alert[r].queued \/ \E w \in want : w[1] = r
Inherited(d) == {d.blob[r] : r \in {q \in d.event \ db.event : Taken(q)}}
Public(d) == {d.blob[r] : r \in Used(d) \ (d.private \cup d.phantom)}
Commit(d, silenced) ==
    /\ db' = d
    /\ shown' = shown \cup Public(d)
    /\ excused' = excused \cup Inherited(d) \cup silenced
    /\ UNCHANGED <<sender, newDay, mail, again, cast, crashes>>

(* alert_unqueue().                                                        *)
Unqueued(d, r) == [d EXCEPT !.alert[r] = NoAlert]

HasRoom(n) == NewRid(db) + n \in Rid
Make(a) == a \in cast \ made /\ made' = made \cup {a}

NewPost(a, needMod, silent) ==
    /\ Make(a) /\ HasRoom(0)
    /\ LET d == WikiPut(db, a, needMod)
       IN  IF silent THEN Commit(Unqueued(d, RidOf(d, a)), {a})
           ELSE Commit(d, {})
    /\ UNCHANGED anew

Attach(a, needMod) ==
    /\ Make(a) /\ HasRoom(1)
    /\ RidOf(db, Attached[a]) # 0
    /\ Commit(AttachCommit(db, a, Attached[a], needMod), {})
    /\ UNCHANGED anew

ApproveOne(a) == Commit(IF a \in Post THEN ApprovePost(db, RidOf(db, a))
                        ELSE Approve(db, RidOf(db, a)), {})
RejectOne(a) == Commit(IF a \in Post THEN DisapprovePost(db, RidOf(db, a))
                       ELSE Disapprove(db, RidOf(db, a)), {})
Decide(a) ==
    /\ RidOf(db, a) # 0 /\ IsPending(db, RidOf(db, a))
    /\ ApproveOne(a) \/ RejectOne(a)
    /\ UNCHANGED <<anew, made>>

(* A peer announces an artifact, or sends it.  When a statement fails the  *)
(* transaction is rolled back.                                             *)
Announce(a) ==
    /\ a \in cast /\ RidOf(db, a) = 0 /\ HasRoom(0) /\ ~PhantomFails(db)
    /\ Commit(PutPhantom(db, a), {})
    /\ UNCHANGED <<anew, made>>

(* A file that is held already is crosslinked once more, too.  When all    *)
(* have been told of it, and its row in pending_alert has been deleted,    *)
(* this makes a new one, and every letter about it is due again.           *)
ReceiveArtifact(a) ==
    /\ a \in cast
    /\ RidOf(db, a) = 0 => HasRoom(0)
    /\ LET d == Put(db, a, FALSE)
           r == RidOf(d, a)
       IN  /\ Commit(Recorded(d, r), {})
           /\ anew' = IF d.alert[r].queued THEN anew
                      ELSE anew \cup {m \in mail : m[2] = a}
    /\ UNCHANGED made

-----------------------------------------------------------------------------
(* alert_send_alerts(), for single alerts and for the digest.              *)
InPrivate(r) == r \in db.private
ForSingle ==
    {<<r, InPrivate(r)>> : r \in {q \in Rid :
        /\ db.alert[q].queued /\ ~db.alert[q].sep
        /\ ~(InPrivate(q) /\ db.alert[q].mod)}}

(* Broken variant: the digest does not look at table private.              *)
ForDigest_All ==
    {<<r, FALSE>> : r \in {q \in Rid :
        db.alert[q].queued /\ ~db.alert[q].digest}}

ForDigest ==
    {<<r, FALSE>> : r \in {q \in Rid :
        db.alert[q].queued /\ ~db.alert[q].digest /\ ~InPrivate(q)}}

Quiet == UNCHANGED <<db, newDay, mail, anew, again, cast, made, excused,
                     shown, crashes>>
GoTo(t) ==
    task' = t /\ want' = {} /\ list' = {} /\ todo' = {} /\ daily' = FALSE

StartSingle ==
    /\ task = "idle"
    /\ task' = "selected" /\ daily' = FALSE
    /\ want' = ForSingle
    /\ UNCHANGED <<list, todo>> /\ Quiet

(* alert_backoffice(): email-last-digest is set before the digest.         *)
StartDigest ==
    /\ task = "between" /\ newDay
    /\ newDay' = FALSE
    /\ task' = "selected" /\ daily' = TRUE
    /\ want' = ForDigest
    /\ UNCHANGED <<list, todo, db, mail, anew, again, cast, made, excused,
                   shown, crashes>>

NoDigest ==
    /\ task = "between" /\ ~newDay
    /\ GoTo("idle") /\ Quiet

Over == GoTo(IF daily THEN "idle" ELSE "between")

(* alert_compute_event_text() finds the events of wantalert, except that   *)
(* the single alerts about the forum know forum posts only, not what is    *)
(* attached to them.  Without any event there is nothing to mark and send. *)
Events == {w \in want : /\ w[1] \in db.event
                        /\ daily \/ db.blob[w[1]] \notin Attachments}
Compose ==
    /\ task = "selected"
    /\ LET found == {<<db.blob[w[1]], w[2]>> : w \in Events}
       IN  IF found = {} THEN Over
           ELSE /\ task' = "composed" /\ list' = found
                /\ UNCHANGED <<want, todo, daily>>
    /\ Quiet

(* Step 4a precedes step 3: the alerts are marked as sent.  Broken variant:*)
(* what is sent to all is not marked.                                      *)
MarkedRow_Later(row, r) ==
    IF <<r, TRUE>> \in want THEN [row EXCEPT !.mod = TRUE]
    ELSE IF daily /\ <<r, FALSE>> \in want THEN [row EXCEPT !.digest = TRUE]
    ELSE row

MarkedRow(row, r) ==
    IF ~row.queued THEN row
    ELSE IF <<r, TRUE>> \in want THEN [row EXCEPT !.mod = TRUE]
    ELSE IF <<r, FALSE>> \notin want THEN row
    ELSE IF daily THEN [row EXCEPT !.digest = TRUE]
    ELSE [row EXCEPT !.sep = TRUE]

Mark ==
    /\ task = "composed"
    /\ task' = "marked"
    /\ db' = [db EXCEPT !.alert = [r \in Rid |-> MarkedRow(@[r], r)]]
    /\ todo' = IF daily THEN DigestOnly ELSE Subscriber \ DigestOnly
    /\ UNCHANGED <<want, list, daily, newDay, mail, anew, again, cast, made,
                   excused, shown, crashes>>

(* Step 3: one subscriber after the other.                                 *)
MaySee(s, pending) == pending => s \in Moderators
Send(s) ==
    /\ task = "marked" /\ s \in todo
    /\ todo' = todo \ {s}
    /\ LET letters == {<<s, e[1], e[2]>> : e \in {x \in list : MaySee(s, x[2])}}
       IN  /\ mail' = mail \cup letters
           /\ anew' = anew \ letters
           /\ again' = again \cup (letters \cap (mail \ anew))
    /\ UNCHANGED <<db, task, want, list, daily, newDay, cast, made, excused,
                   shown, crashes>>

(* Step 4b: what both kinds of subscribers have been told is forgotten.    *)
(* Broken variant: what the single alerts have told.                       *)
Told_Single(row) == row.queued /\ row.sep
Told(row) == row.queued /\ row.sep /\ row.digest
Finish ==
    /\ task = "marked" /\ todo = {}
    /\ db' = [db EXCEPT !.alert =
                [r \in Rid |-> IF Told(@[r]) THEN NoAlert ELSE @[r]]]
    /\ Over
    /\ UNCHANGED <<newDay, mail, anew, again, cast, made, excused, shown,
                   crashes>>

(* The backoffice is killed: of what it has marked, some is never sent.    *)
Crash ==
    /\ task # "idle" /\ crashes < MaxCrashes
    /\ crashes' = crashes + 1
    /\ excused' = excused \cup
                    {e[1] : e \in {x \in list : task = "marked"}}
    /\ GoTo("idle")
    /\ UNCHANGED <<db, newDay, mail, anew, again, cast, made, shown>>

NewDay ==
    /\ newDay' = TRUE
    /\ UNCHANGED <<db, sender, mail, anew, again, cast, made, excused,
                   shown, crashes>>

-----------------------------------------------------------------------------
Step == StartSingle \/ StartDigest \/ NoDigest \/ Compose \/ Mark \/ Finish
        \/ \E s \in Subscriber : Send(s)

AlertsNext ==
    \/ \E a \in Post, needMod, silent \in BOOLEAN : NewPost(a, needMod, silent)
    \/ \E a \in Attachments, needMod \in BOOLEAN : Attach(a, needMod)
    \/ \E a \in Post \cup Attachments : Decide(a)
    \/ \E a \in Remote : Announce(a) \/ ReceiveArtifact(a)
    \/ Step \/ Crash \/ NewDay

(* The backoffice is called again and again, and days go by.  Nobody needs *)
(* to post or to decide.                                                   *)
AlertsSpec == AlertsInit /\ [][AlertsNext]_alertsVars
AlertsLiveSpec == AlertsSpec /\ WF_alertsVars(Step) /\ WF_alertsVars(NewDay)

-----------------------------------------------------------------------------
(* "Events with the needMod flag are only shown to users that have         *)
(* moderator privileges" (alerts.c:3030): whatever is decided while the    *)
(* mails are made, nobody else is told of a post that was never public.    *)
(* The posts that inherit a row of pending_alert are excepted: the         *)
(* backoffice may have selected that row as the public one of its          *)
(* predecessor.                                                            *)
OutsidersSeeApproved ==
    \A m \in mail : m[1] \in Moderators \/ m[2] \in shown \cup excused

(* "a crash will not cause alerts to be sent multiple times"               *)
(* (alerts.c:3124): nobody gets the same letter twice, unless its artifact *)
(* has come again after all had been told, and then once more for that.    *)
MailedOnce == again = {}

(* In the end everybody has been told of everything that is public, in     *)
(* single mails or in a digest, and moderators of what waits for them.     *)
(* (No single mail tells of what is attached to a forum post.)             *)
IsDue(s, a) ==
    LET r == RidOf(db, a)
    IN  /\ r \in db.event /\ a \notin excused
        /\ a \in Attachments => s \in DigestOnly
        /\ InPrivate(r) => s \in Moderators \ DigestOnly
AllTold ==
    \A s \in Subscriber, a \in Notified :
        IsDue(s, a) => <<s, a, InPrivate(RidOf(db, a))>> \in mail
EverybodyIsTold == <>[]AllTold

(* A rejected update "is unceremoniously removed from the tip of the block *)
(* chain.  This is safe" (doc/web/forum.wiki:335): what peers announce can *)
(* still be recorded.                                                      *)
ReceiptsSucceed == \A a \in Remote : RidOf(db, a) = 0 => ~PhantomFails(db)
=============================================================================
