---------------------------- MODULE AlertsProofs ----------------------------
(***************************************************************************)
(* Proofs about the e-mail alerts: whatever is posted, decided and         *)
(* received while letters are made, and wherever the backoffice is killed, *)
(* nobody gets a letter twice for one receipt, and outsiders learn of      *)
(* nothing that never was public.                                          *)
(***************************************************************************)
EXTENDS Alerts, FiniteLemmas, TLAPS

Files == {FileOf[a] : a \in Attachments}

-----------------------------------------------------------------------------
(* What holds of the tables at any time.                                   *)
OneRow(d) == \A q, r \in Used(d) : d.blob[q] = d.blob[r] => q = r

Kinds(d) == \A r \in Rid :
    /\ r \in d.phantom => d.blob[r] \in Remote
    /\ r \in d.private => d.blob[r] \in Post \cup Attachments \cup Files
    /\ r \in d.event => d.blob[r] \in Notified /\ r \notin d.phantom
    /\ d.blob[r] \in Remote => r \in d.phantom \cup d.event

Requests(d) == \A row \in d.modreq :
    /\ d.blob[row[1]] \in Post \cup Attachments /\ row[1] \in d.private
    /\ row[2] # 0 => d.blob[row[2]] \in Files

Attaching(d) == \A row \in d.attachment : d.blob[row[1]] # None

Good(d) == d \in Tables /\ OneRow(d) /\ Kinds(d) /\ Requests(d) /\ Attaching(d)

(* Posts and attachments come from users, and not twice.                   *)
Known(d, m) == \A r \in Rid : d.blob[r] \in Post \cup Attachments => d.blob[r] \in m

-----------------------------------------------------------------------------
(* An artifact of which a letter can tell: it will not come, or come into  *)
(* the timeline, again.                                                    *)
Seen(a) == a \in made \/ (a \in Remote /\ \E r \in db.event : db.blob[r] = a)

(* The row of an artifact says that letter m needs not be sent any more.   *)
Marked(m, row) ==
    \/ ~row.queued
    \/ IF m[3] THEN row.mod ELSE IF m[1] \in DigestOnly THEN row.digest ELSE row.sep

Readers == IF daily THEN DigestOnly ELSE Subscriber \ DigestOnly

Open(a) == a \in shown \cup excused

(* The letters that are not to be sent any more.                           *)
Sent == mail \ anew

MailRight == \A m \in mail :
    /\ Seen(m[2]) /\ (m[1] \in DigestOnly => m[3] = FALSE)
    /\ m[1] \in Moderators \/ Open(m[2])
    /\ m \in Sent => \A r \in Rid : db.blob[r] = m[2] => Marked(m, db.alert[r])

WantRight ==
    /\ \A v, w \in want : v[1] = w[1] => v = w
    /\ daily => \A w \in want : w[2] = FALSE
    /\ \A w \in want : w[1] \in db.event /\ db.blob[w[1]] \in Remote => db.alert[w[1]].queued
    /\ task = "selected" => \A w \in want : w[1] \in db.event =>
          /\ \A s \in Readers : <<s, db.blob[w[1]], w[2]>> \notin Sent
          /\ w[2] \/ Open(db.blob[w[1]])

ListRight ==
    /\ daily => \A e \in list : e[2] = FALSE
    /\ todo \subseteq Readers /\ (task # "marked" => todo = {})
    /\ task \notin {"composed", "marked"} => list = {}
    /\ \A e \in list :
         /\ Seen(e[1]) /\ (e[2] \/ Open(e[1]))
         /\ \A r \in Rid : db.blob[r] = e[1] => <<r, e[2]>> \in want
         /\ task = "composed" => \A s \in Readers : <<s, e[1], e[2]>> \notin Sent
         /\ task = "marked" => 
              /\ \A s \in todo : <<s, e[1], e[2]>> \notin Sent
              /\ \A s \in Readers, r \in Rid :
                    db.blob[r] = e[1] => Marked(<<s, e[1], e[2]>>, db.alert[r])

IInv ==
    /\ AlertsTypeOK /\ again = {}
    /\ Good(db) /\ Known(db, made) /\ made \subseteq Post \cup Attachments
    /\ Public(db) \subseteq shown
    /\ MailRight /\ WantRight /\ ListRight

-----------------------------------------------------------------------------
(* What a transaction that brings the artifacts N may do to the tables: it *)
(* removes only what waits for a moderator, and looks at the alerts of     *)
(* what enters the timeline only.                                          *)
Moves(d, e, N) ==
    /\ \A a \in N, r \in Rid : d.blob[r] # a
    /\ \A r \in Rid : \/ e.blob[r] = d.blob[r]
                      \/ d.blob[r] = None /\ e.blob[r] \in N
                      \/ r \in d.private /\ e.blob[r] = None
    /\ \A r \in Rid : e.blob[r] = d.blob[r] /\ r \in d.event => r \in e.event
    /\ \A r \in e.event \ d.event : e.blob[r] \in N \/ r \in d.phantom
    /\ \A r \in Rid : e.alert[r] = d.alert[r] \/ r \in e.event \ d.event
    /\ \A r \in e.event \ d.event : e.blob[r] \in Remote => e.alert[r].queued

LEMMA KindsApart ==
    ASSUME AlertsAssumption
    PROVE  /\ Remote \cap (Post \cup Attachments \cup Files) = {}
           /\ Files \cap Notified = {} /\ Files \subseteq Artifact
           /\ None \notin Notified \cup Files /\ Notified = Post \cup Attachments \cup Remote
           /\ Notified \subseteq Artifact /\ Post \cap Attachments = {}
           /\ 0 \notin Rid /\ IsFiniteSet(Rid) /\ Rid \subseteq Nat
<1>1. DOMAIN FileOf = DOMAIN Attached
  BY DEF AlertsAssumption
<1>2. Files \subseteq Artifact
  BY <1>1 DEF AlertsAssumption, ModerationAssumption, Files, Attachments
<1>3. Files \cap Notified = {}
  BY DEF AlertsAssumption, Files
<1>4. 0 \notin Rid /\ Rid \subseteq Nat
  <2>1. Cardinality(Rid) \in Nat
    BY FS_CardinalityType DEF AlertsAssumption, ModerationAssumption
  <2> QED BY <2>1 DEF AlertsAssumption, ModerationAssumption
<1> QED BY <1>2, <1>3, <1>4 DEF AlertsAssumption, ModerationAssumption, Notified

LEMMA GoodTypes ==
    ASSUME NEW d, Good(d)
    PROVE  /\ d.blob \in [Rid -> Artifact \cup {None}]
           /\ d.phantom \in SUBSET Rid /\ d.private \in SUBSET Rid
           /\ d.unclustered \in SUBSET Rid /\ d.unsent \in SUBSET Rid /\ d.event \in SUBSET Rid
           /\ d.modreq \in SUBSET (Rid \X (Rid \cup {0}))
           /\ d.attachment \in SUBSET (Rid \X Artifact)
           /\ d.alert \in [Rid -> [queued : BOOLEAN, sep : BOOLEAN,
                                   digest : BOOLEAN, mod : BOOLEAN]]
BY DEF Good, Tables

-----------------------------------------------------------------------------
(* Rows of table blob: the names of artifacts identify them, and a new row *)
(* is a free one.                                                          *)
LEMMA RidOfRow ==
    ASSUME AlertsAssumption, NEW d, Good(d), NEW a \in Artifact
    PROVE  /\ RidOf(d, a) = 0 => \A r \in Rid : d.blob[r] # a
           /\ RidOf(d, a) # 0 => RidOf(d, a) \in Rid /\ d.blob[RidOf(d, a)] = a
           /\ \A r \in Rid : d.blob[r] = a => r = RidOf(d, a)
<1>1. a # None /\ 0 \notin Rid
  BY KindsApart DEF AlertsAssumption, ModerationAssumption
<1> DEFINE r == CHOOSE r \in Rid : d.blob[r] = a
<1>2. CASE \E q \in Rid : d.blob[q] = a
  <2>1. r \in Rid /\ d.blob[r] = a /\ RidOf(d, a) = r
    BY <1>2 DEF RidOf
  <2>2. \A q \in Rid : d.blob[q] = a => q = r
    <3> HIDE DEF r
    <3> QED BY <1>1, <2>1 DEF Good, OneRow, Used
  <2> HIDE DEF r
  <2> QED BY <1>1, <2>1, <2>2
<1>3. CASE ~ \E q \in Rid : d.blob[q] = a
  BY <1>3 DEF RidOf
<1> QED BY <1>2, <1>3

LEMMA NewRidIsFree ==
    ASSUME AlertsAssumption, NEW d, Good(d)
    PROVE  /\ NewRid(d) \in Nat
           /\ \A r \in Used(d) : r < NewRid(d)
           /\ NewRid(d) = 1 \/ NewRid(d) - 1 \in Used(d)
           /\ NewRid(d) \in Rid => d.blob[NewRid(d)] = None
<1> DEFINE T == Used(d) \cup {0}
           n == Cardinality(Rid)
<1>1. n \in Nat /\ Rid = 1 .. n
  BY FS_CardinalityType DEF AlertsAssumption, ModerationAssumption
<1>2. T \subseteq 0 .. n /\ T # {}
  BY <1>1 DEF Used
<1>3. Max(T) \in T /\ \A y \in T : y <= Max(T)
  <2> HIDE DEF T, n
  <2> QED BY <1>1, <1>2, Greatest
<1>4. NewRid(d) = 1 + Max(T)
  BY DEF NewRid
<1> PICK m \in T : m = Max(T)
  BY <1>3
<1>5. m \in Nat /\ \A y \in Used(d) : y \in Nat /\ y <= m
  <2>1. T \subseteq Nat
    BY <1>1, <1>2
  <2>2. \A y \in Used(d) : y \in T
    OBVIOUS
  <2> HIDE DEF T, n
  <2> QED BY <1>3, <2>1, <2>2
<1>6. m = 0 \/ m \in Used(d)
  OBVIOUS
<1> HIDE DEF T, n
<1>7. NewRid(d) = 1 + m /\ NewRid(d) \notin Used(d)
  BY <1>4, <1>5
<1> QED BY <1>5, <1>6, <1>7 DEF Used

LEMMA NextNewRid ==
    ASSUME AlertsAssumption, NEW d, NEW e, Good(d), Good(e), NEW a \in Artifact,
           NewRid(d) \in Rid, e.blob = [d.blob EXCEPT ![NewRid(d)] = a]
    PROVE  NewRid(e) = NewRid(d) + 1
<1> PICK r \in Rid : r = NewRid(d)
  OBVIOUS
<1>1. a # None /\ Rid \subseteq Nat
  BY KindsApart DEF AlertsAssumption, ModerationAssumption
<1>2. Used(e) = Used(d) \cup {r}
  BY <1>1, GoodTypes DEF Used
<1>3. /\ NewRid(e) \in Nat /\ (NewRid(e) = 1 \/ NewRid(e) - 1 \in Used(e))
      /\ \A q \in Used(e) : q < NewRid(e)
      /\ \A q \in Used(d) : q < r
  BY NewRidIsFree
<1> PICK s \in Nat : s = NewRid(e)
  BY <1>3
<1>4. r < s /\ (s - 1 = r \/ s - 1 < r \/ s = 1)
  BY <1>1, <1>2, <1>3
<1>5. r # 0
  BY KindsApart
<1> QED BY <1>1, <1>4, <1>5

-----------------------------------------------------------------------------
(* What the statements of a transaction do to the tables, field by field.  *)
Elsewhere(d, e, r) ==
    /\ e \in Tables
    /\ \A q \in Rid \ {r} : e.blob[q] = d.blob[q] /\ e.alert[q] = d.alert[q]
    /\ e.phantom \subseteq d.phantom \cup {r} /\ d.phantom \subseteq e.phantom \cup {r}
    /\ e.private \subseteq d.private \cup {r} /\ d.private \subseteq e.private
    /\ e.event \subseteq d.event \cup {r} /\ d.event \subseteq e.event

RowFor(d, a, r) ==
    \/ RidOf(d, a) = 0 /\ r = NewRid(d)
    \/ RidOf(d, a) # 0 /\ r = RidOf(d, a) /\ r \in d.phantom

PutIs(d, a, p, r, e) ==
    /\ e \in Tables
    /\ e.blob = [d.blob EXCEPT ![r] = a] /\ e.phantom = d.phantom \ {r}
    /\ e.private = IF p THEN d.private \cup {r} ELSE d.private
    /\ e.event = d.event /\ e.modreq = d.modreq
    /\ e.attachment = d.attachment /\ e.alert = d.alert

LEMMA PutFields ==
    ASSUME AlertsAssumption, NEW d, Good(d), NEW a \in Artifact, NEW p \in BOOLEAN,
           NEW r \in Rid, RowFor(d, a, r), NEW e, e = Put(d, a, p)
    PROVE  PutIs(d, a, p, r, e)
<1> PICK old : old = RidOf(d, a)
  OBVIOUS
<1> PICK un \in SUBSET Rid : un = IF old = 0 /\ ~p THEN d.unclustered \cup {r} ELSE d.unclustered
  BY GoodTypes
<1> PICK pr \in SUBSET Rid : pr = IF p THEN d.private \cup {r} ELSE d.private
  BY GoodTypes
<1> DEFINE bl == [d.blob EXCEPT ![r] = a]
<1>1. e = [d EXCEPT !.blob = bl, !.phantom = d.phantom \ {r}, !.private = pr,
                   !.unclustered = un]
  BY DEF Put, Good, Tables, RowFor
<1>2. bl \in [Rid -> Artifact \cup {None}] /\ d.phantom \ {r} \in SUBSET Rid /\ d \in Tables
  BY GoodTypes DEF Good
<1> HIDE DEF bl
<1>3. e \in Tables
  BY <1>1, <1>2 DEF Tables
<1>4. /\ e.blob = bl /\ e.phantom = d.phantom \ {r} /\ e.private = pr
      /\ e.event = d.event /\ e.modreq = d.modreq
      /\ e.attachment = d.attachment /\ e.alert = d.alert
  BY <1>1, <1>2 DEF Tables
<1> QED BY <1>3, <1>4 DEF bl, PutIs

LEMMA AnnouncedFields ==
    ASSUME NEW d \in Tables, NEW r \in Rid, NEW e, e = Announced(d, r)
    PROVE  /\ e \in Tables
           /\ e.blob = d.blob /\ e.phantom = d.phantom /\ e.private = d.private
           /\ e.event = d.event /\ e.modreq = d.modreq
           /\ e.attachment = d.attachment /\ e.alert = d.alert
BY DEF Announced, Tables

LEMMA WaitingFields ==
    ASSUME NEW d \in Tables, NEW r \in Rid, NEW f \in Rid \cup {0}, NEW e, e = Waiting(d, r, f)
    PROVE  /\ e \in Tables
           /\ e.blob = d.blob /\ e.phantom = d.phantom /\ e.private = d.private
           /\ e.event = d.event /\ e.modreq = d.modreq \cup {<<r, f>>}
           /\ e.attachment = d.attachment /\ e.alert = d.alert
BY DEF Waiting, Tables

LEMMA RecordedFields ==
    ASSUME NEW d \in Tables, NEW r \in Rid, NEW e, e = Recorded(d, r)
    PROVE  /\ e \in Tables
           /\ e.blob = d.blob /\ e.phantom = d.phantom /\ e.private = d.private
           /\ e.event = d.event \cup {r} /\ e.modreq = d.modreq
           /\ e.attachment = d.attachment
           /\ \A q \in Rid \ {r} : e.alert[q] = d.alert[q]
           /\ e.alert[r] = IF d.alert[r].queued THEN d.alert[r] ELSE Queued
           /\ e.alert[r].queued
<1> DEFINE row == IF d.alert[r].queued THEN d.alert[r] ELSE Queued
<1>1. row \in [queued : BOOLEAN, sep : BOOLEAN, digest : BOOLEAN, mod : BOOLEAN] /\ row.queued
  BY DEF Tables, Queued, NoAlert
<1> DEFINE al == [d.alert EXCEPT ![r] = row]
<1>2. e = [d EXCEPT !.event = d.event \cup {r}, !.alert = al]
  BY DEF Recorded, Tables
<1> HIDE DEF row
<1>3. /\ al \in [Rid -> [queued : BOOLEAN, sep : BOOLEAN, digest : BOOLEAN, mod : BOOLEAN]]
      /\ \A q \in Rid \ {r} : al[q] = d.alert[q]
      /\ al[r] = row
  BY <1>1 DEF Tables
<1>4. d.event \cup {r} \in SUBSET Rid
  BY DEF Tables
<1> HIDE DEF al
<1>5. e \in Tables
  BY <1>2, <1>3, <1>4 DEF Tables
<1>6. /\ e.blob = d.blob /\ e.phantom = d.phantom /\ e.private = d.private
      /\ e.event = d.event \cup {r} /\ e.modreq = d.modreq
      /\ e.attachment = d.attachment /\ e.alert = al
  BY <1>2 DEF Tables
<1> QED BY <1>1, <1>3, <1>5, <1>6 DEF row

LEMMA UnqueuedFields ==
    ASSUME NEW d \in Tables, NEW r \in Rid, NEW e, e = Unqueued(d, r)
    PROVE  /\ e \in Tables
           /\ e.blob = d.blob /\ e.phantom = d.phantom /\ e.private = d.private
           /\ e.event = d.event /\ e.modreq = d.modreq
           /\ e.attachment = d.attachment
           /\ \A q \in Rid \ {r} : e.alert[q] = d.alert[q]
BY DEF Unqueued, Tables, NoAlert

(* One row is added, or a phantom filled.                                  *)
Touches(d, e, r) ==
    /\ Elsewhere(d, e, r) /\ e.blob[r] # None
    /\ \A q \in Rid \ {r} : d.blob[q] # e.blob[r]
    /\ d.blob[r] = None \/ (d.blob[r] = e.blob[r] /\ r \in d.phantom)
    /\ r \in e.phantom => e.blob[r] \in Remote
    /\ r \in e.private => e.blob[r] \in Post \cup Attachments \cup Files
    /\ r \in e.event => e.blob[r] \in Notified /\ r \notin e.phantom
    /\ \A row \in e.modreq : row \notin d.modreq =>
          /\ row[1] = r /\ e.blob[r] \in Post \cup Attachments /\ r \in e.private
          /\ row[2] # 0 => row[2] # r /\ d.blob[row[2]] \in Files
    /\ \A row \in e.attachment : row \in d.attachment \/ row[1] = r
    /\ e.alert[r] = d.alert[r] \/ r \in e.event
    /\ r \in e.event /\ e.blob[r] \in Remote => e.alert[r].queued
    /\ e.blob[r] \in Remote => r \in e.phantom \cup e.event

Brought(d, e, r) == IF d.blob[r] = None THEN {e.blob[r]} ELSE {}

LEMMA TouchesIsGood ==
    ASSUME AlertsAssumption, NEW d, Good(d), NEW e, NEW r \in Rid, Touches(d, e, r)
    PROVE  Good(e) /\ Moves(d, e, Brought(d, e, r))
<1>1. /\ e \in Tables /\ e.blob[r] # None /\ r \notin d.event
      /\ \A q \in Rid \ {r} : e.blob[q] = d.blob[q] /\ e.alert[q] = d.alert[q]
      /\ \A q \in Rid : d.blob[q] # None => e.blob[q] = d.blob[q]
  BY GoodTypes, KindsApart DEF Touches, Elsewhere, Good, Kinds
<1>2. OneRow(e)
  BY <1>1 DEF Touches, Good, OneRow, Used
<1>3. Kinds(e)
  BY <1>1 DEF Touches, Elsewhere, Good, Kinds
<1>4. Requests(e)
  <2> SUFFICES ASSUME NEW row \in e.modreq
               PROVE  /\ e.blob[row[1]] \in Post \cup Attachments /\ row[1] \in e.private
                      /\ row[2] # 0 => e.blob[row[2]] \in Files
    BY DEF Requests
  <2>1. row[1] \in Rid /\ row[2] \in Rid \cup {0}
    BY <1>1 DEF Tables
  <2>2. CASE row \in d.modreq
    <3>1. /\ d.blob[row[1]] \in Post \cup Attachments /\ row[1] \in d.private
          /\ row[2] # 0 => d.blob[row[2]] \in Files
      BY <2>2 DEF Good, Requests
    <3> QED BY <1>1, <2>1, <3>1, KindsApart DEF Touches, Elsewhere
  <2>3. CASE row \notin d.modreq
    BY <1>1, <2>1, <2>3 DEF Touches
  <2> QED BY <2>2, <2>3
<1>5. Attaching(e)
  <2> SUFFICES ASSUME NEW row \in e.attachment PROVE e.blob[row[1]] # None
    BY DEF Attaching
  <2>1. row[1] \in Rid
    BY <1>1 DEF Tables
  <2> QED BY <1>1, <2>1 DEF Touches, Good, Attaching
<1>6. Moves(d, e, Brought(d, e, r))
  BY <1>1 DEF Touches, Elsewhere, Moves, Brought
<1> QED BY <1>1, <1>2, <1>3, <1>4, <1>5, <1>6 DEF Good

(* Two rows are added, one after the other.                                *)
BroughtTwo(e, f, r, s) == {e.blob[r], f.blob[s]}

LEMMA TouchesTwice ==
    ASSUME AlertsAssumption, NEW d, Good(d), NEW e, NEW f, NEW r \in Rid, NEW s \in Rid,
           Touches(d, e, r), d.blob[r] = None, r \notin e.phantom,
           Touches(e, f, s), e.blob[s] = None
    PROVE  Moves(d, f, BroughtTwo(e, f, r, s))
<1>1. r # s /\ e.blob[r] # None /\ f.blob[s] # None /\ r \notin d.event /\ s \notin d.event
  BY GoodTypes, KindsApart DEF Touches, Elsewhere, Good, Kinds
<1>2. /\ \A q \in Rid \ {r} : e.blob[q] = d.blob[q] /\ e.alert[q] = d.alert[q]
      /\ \A q \in Rid \ {s} : f.blob[q] = e.blob[q] /\ f.alert[q] = e.alert[q]
      /\ d.event \subseteq f.event /\ f.event \subseteq d.event \cup {r, s}
      /\ e.alert[r] = d.alert[r] \/ r \in f.event
      /\ f.alert[s] = e.alert[s] \/ s \in f.event
      /\ \A q \in Rid \ {r} : d.blob[q] # e.blob[r]
      /\ \A q \in Rid \ {s} : e.blob[q] # f.blob[s]
  BY DEF Touches, Elsewhere
<1>3. d.blob[s] = None /\ f.blob[r] = e.blob[r]
  BY <1>1, <1>2
<1>4. \A q \in Rid : d.blob[q] # e.blob[r] /\ d.blob[q] # f.blob[s]
  BY <1>1, <1>2, <1>3
<1>5. f.event \subseteq Rid
  BY DEF Touches, Elsewhere, Tables
<1>6. \A q \in f.event \ d.event : f.blob[q] \in Remote => f.alert[q].queued
  <2>1. /\ r \in e.event /\ e.blob[r] \in Remote => e.alert[r].queued
        /\ s \in f.event /\ f.blob[s] \in Remote => f.alert[s].queued
        /\ r \in f.event => r \in e.event
    BY <1>1 DEF Touches, Elsewhere
  <2> QED BY <1>1, <1>2, <1>3, <1>5, <2>1
<1> QED BY <1>1, <1>2, <1>3, <1>4, <1>5, <1>6 DEF Moves, BroughtTwo

-----------------------------------------------------------------------------
(* What is seen stays so, and keeps its rows.                              *)
LEMMA SeenStays ==
    ASSUME AlertsAssumption, Good(db), made \subseteq Post \cup Attachments,
           NEW d, NEW N, Good(d), Moves(db, d, N), N \cap made = {},
           db' = d, made \subseteq made', NEW a, Seen(a)
    PROVE  /\ Seen(a)' /\ a \notin N
           /\ \A r \in Rid : d.blob[r] = a =>
                 /\ db.blob[r] = a /\ d.alert[r] = db.alert[r]
                 /\ ~ (r \in d.event /\ r \notin db.event)
<1>1. a \in Notified /\ a # None
  BY KindsApart DEF Seen
<1>2. ASSUME NEW r \in db.event, db.blob[r] = a, a \in Remote
      PROVE  d.blob[r] = a /\ r \in d.event
  <2>1. r \in Rid /\ r \notin db.private
    BY <1>2, KindsApart, GoodTypes DEF Good, Kinds
  <2> QED BY <1>1, <1>2, <2>1 DEF Moves
<1>3. Seen(a)'
  BY <1>2 DEF Seen
<1>4. a \notin N
  <2>1. CASE a \in made
    BY <2>1
  <2>2. CASE a \notin made
    <3>1. PICK r \in db.event : db.blob[r] = a
      BY <2>2 DEF Seen
    <3> QED BY <3>1, GoodTypes DEF Moves
  <2> QED BY <2>1, <2>2
<1>5. ASSUME NEW r \in Rid, d.blob[r] = a
      PROVE  db.blob[r] = a /\ ~ (r \in d.event /\ r \notin db.event)
  <2>1. db.blob[r] = a
    BY <1>1, <1>4, <1>5 DEF Moves
  <2>2. ASSUME r \in d.event, r \notin db.event PROVE FALSE
    <3>1. r \in db.phantom
      BY <1>4, <1>5, <2>2 DEF Moves
    <3>2. a \in Remote
      BY <2>1, <3>1 DEF Good, Kinds
    <3>3. PICK q \in db.event : db.blob[q] = a
      BY <3>2, KindsApart DEF Seen
    <3>4. q = r
      BY <1>1, <2>1, <3>3, GoodTypes DEF Good, OneRow, Used
    <3> QED BY <2>2, <3>3, <3>4
  <2> QED BY <2>1, <2>2
<1>6. \A r \in Rid : d.blob[r] = a => d.alert[r] = db.alert[r]
  BY <1>5 DEF Moves
<1> QED BY <1>3, <1>4, <1>5, <1>6

LEMMA CommitKeeps ==
    ASSUME IInv, AlertsAssumption,
           NEW d, NEW N, NEW silenced \in SUBSET Notified, Commit(d, silenced),
           Good(d), Moves(db, d, N), N \cap made = {},
           Known(d, made'), made \subseteq made', made' \subseteq Post \cup Attachments,
           made' \subseteq cast, anew' = anew
    PROVE  IInv'
<1>1. /\ db' = d /\ Good(db) /\ made \subseteq Post \cup Attachments
      /\ UNCHANGED <<task, want, list, todo, daily, newDay, mail, anew, again, cast, crashes>>
      /\ Sent' = Sent /\ shown' = shown \cup Public(d)
      /\ excused' = excused \cup Inherited(d) \cup silenced
  BY DEF IInv, Commit, sender, Sent
<1>2. \A a : Seen(a) =>
        /\ Seen(a)' /\ a \notin N
        /\ \A r \in Rid : d.blob[r] = a =>
              /\ db.blob[r] = a /\ d.alert[r] = db.alert[r]
              /\ ~ (r \in d.event /\ r \notin db.event)
  BY <1>1, SeenStays
<1>3. \A a : Open(a) => Open(a)'
  BY <1>1 DEF Open
<1>4. Readers' = Readers
  BY <1>1 DEF Readers
<1>5. MailRight'
  <2>1. \A m \in mail : /\ Seen(m[2])' /\ (m[1] \in DigestOnly => m[3] = FALSE)
                        /\ m[1] \in Moderators \/ Open(m[2])'
    BY <1>2, <1>3 DEF IInv, MailRight
  <2>2. \A m \in mail, r \in Rid : m \in Sent /\ d.blob[r] = m[2] => Marked(m, d.alert[r])
    BY <1>2 DEF IInv, MailRight
  <2> QED BY <1>1, <2>1, <2>2 DEF MailRight
<1>6. WantRight'
  <2>1. ASSUME task = "selected", NEW w \in want, w[1] \in d.event
        PROVE  /\ \A s \in Readers : <<s, d.blob[w[1]], w[2]>> \notin Sent
               /\ w[2] \/ Open(d.blob[w[1]])'
    <3> PICK r \in Rid : r = w[1]
      BY <2>1, GoodTypes
    <3>1. CASE r \in db.event
      <4>1. d.blob[r] = db.blob[r]
        <5>1. d.blob[r] \in Notified /\ db.blob[r] \in Notified
          BY <1>1, <2>1, <3>1 DEF Good, Kinds
        <5> QED BY <5>1, KindsApart DEF Moves
      <4> QED BY <1>3, <2>1, <3>1, <4>1 DEF IInv, WantRight
    <3>2. CASE r \notin db.event
      <4>1. \A s : <<s, d.blob[r], w[2]>> \notin Sent
        <5>1. ~Seen(d.blob[r])
          BY <1>2, <2>1, <3>2
        <5> QED BY <5>1 DEF IInv, MailRight, Sent
      <4>2. d.blob[r] \in Inherited(d)
        BY <2>1, <3>2 DEF Inherited, Taken
      <4> QED BY <1>1, <4>1, <4>2 DEF Open
    <3> QED BY <3>1, <3>2
  <2>2. \A v, w \in want : v[1] = w[1] => v = w
    BY DEF IInv, WantRight
  <2>3. daily => \A w \in want : w[2] = FALSE
    BY DEF IInv, WantRight
  <2>4. ASSUME NEW w \in want, w[1] \in d.event, d.blob[w[1]] \in Remote
        PROVE  d.alert[w[1]].queued
    <3> PICK r \in Rid : r = w[1]
      BY <2>4, GoodTypes
    <3>1. CASE r \notin db.event
      BY <2>4, <3>1 DEF Moves
    <3>2. CASE r \in db.event
      <4>1. d.blob[r] = db.blob[r]
        <5>1. d.blob[r] \in Notified /\ db.blob[r] \in Notified
          BY <1>1, <2>4, <3>2 DEF Good, Kinds
        <5> QED BY <5>1, <3>2, KindsApart DEF Moves
      <4>2. d.alert[r] = db.alert[r]
        BY <3>2 DEF Moves
      <4> QED BY <2>4, <3>2, <4>1, <4>2 DEF IInv, WantRight
    <3> QED BY <3>1, <3>2
  <2> QED BY <1>1, <1>4, <2>1, <2>2, <2>3, <2>4 DEF WantRight
<1>7. ListRight'
  <2>1. /\ daily => \A e \in list : e[2] = FALSE
        /\ todo \subseteq Readers /\ (task # "marked" => todo = {})
        /\ task \notin {"composed", "marked"} => list = {}
    BY DEF IInv, ListRight
  <2>2. \A e \in list : Seen(e[1])' /\ (e[2] \/ Open(e[1])')
    BY <1>2, <1>3 DEF IInv, ListRight
  <2>3. \A e \in list :
          /\ task = "composed" => \A s \in Readers : <<s, e[1], e[2]>> \notin Sent
          /\ \A r \in Rid : d.blob[r] = e[1] => <<r, e[2]>> \in want
    BY <1>2 DEF IInv, ListRight
  <2>4. task = "marked" => \A e \in list :
          /\ \A s \in todo : <<s, e[1], e[2]>> \notin Sent
          /\ \A s \in Readers, r \in Rid :
                d.blob[r] = e[1] => Marked(<<s, e[1], e[2]>>, d.alert[r])
    BY <1>2 DEF IInv, ListRight
  <2> QED BY <1>1, <1>4, <2>1, <2>2, <2>3, <2>4 DEF ListRight
<1>8. Public(d) \subseteq shown' /\ Public(d) \subseteq Artifact
  <2>1. Public(d) \subseteq Artifact
    BY GoodTypes DEF Public, Used
  <2> QED BY <1>1, <2>1
<1>9. AlertsTypeOK'
  <2>1. RowsAreOfArtifacts(d)
    <3>1. /\ \A row \in d.modreq : row[1] \in d.private /\ row[1] \in Used(d)
          /\ \A row \in d.attachment : row[1] \in Used(d)
          /\ d.event \subseteq Used(d) /\ d.private \subseteq Used(d)
      BY GoodTypes, KindsApart DEF Good, Kinds, Requests, Attaching, Used
    <3> QED BY <3>1 DEF RowsAreOfArtifacts
  <2>2. Inherited(d) \subseteq Notified
    <3>1. \A r \in d.event : d.blob[r] \in Notified
      BY GoodTypes DEF Good, Kinds
    <3> QED BY <3>1 DEF Inherited
  <2>3. excused' \in SUBSET Notified /\ shown' \in SUBSET Artifact
    BY <1>1, <1>8, <2>2 DEF IInv, AlertsTypeOK
  <2> QED BY <1>1, <2>1, <2>3 DEF IInv, AlertsTypeOK, Good, Letter
<1> QED BY <1>1, <1>5, <1>6, <1>7, <1>8, <1>9 DEF IInv

-----------------------------------------------------------------------------
(* The statements of alert_send_alerts().                                  *)
LEMMA SameTables ==
    ASSUME db' = db, made' = made, shown' = shown, excused' = excused
    PROVE  (\A a : Seen(a)' <=> Seen(a)) /\ (\A a : Open(a)' <=> Open(a))
           /\ Public(db)' = Public(db)
BY DEF Seen, Open

LEMMA StartSingleKeeps ==
    ASSUME IInv, AlertsAssumption, StartSingle PROVE IInv'
<1>1. /\ task = "idle" /\ task' = "selected" /\ daily' = FALSE /\ want' = ForSingle
      /\ UNCHANGED <<list, todo, db, newDay, mail, anew, again, cast, made, excused, shown, crashes>>
  BY DEF StartSingle, Quiet
<1>2. /\ (\A a : Seen(a)' <=> Seen(a)) /\ (\A a : Open(a)' <=> Open(a))
      /\ Public(db)' = Public(db) /\ list = {} /\ todo = {}
  BY <1>1, SameTables DEF IInv, ListRight
<1>3. \A w \in ForSingle :
        /\ w[1] \in Rid /\ w[2] = InPrivate(w[1]) /\ w[2] \in BOOLEAN
        /\ db.alert[w[1]].queued /\ ~db.alert[w[1]].sep
        /\ ~ (InPrivate(w[1]) /\ db.alert[w[1]].mod)
        /\ w \in Rid \X BOOLEAN
  <2> TAKE w \in ForSingle
  <2>1. PICK r \in Rid : /\ w = <<r, InPrivate(r)>>
                        /\ db.alert[r].queued /\ ~db.alert[r].sep
                        /\ ~ (InPrivate(r) /\ db.alert[r].mod)
    BY DEF ForSingle
  <2>2. InPrivate(r) \in BOOLEAN
    BY DEF InPrivate
  <2>3. w[1] = r /\ w[2] = InPrivate(r)
    BY <2>1, <2>2
  <2> QED BY <2>1, <2>2, <2>3
<1>4. ASSUME NEW w \in ForSingle, w[1] \in db.event
      PROVE  /\ \A s \in Subscriber \ DigestOnly : <<s, db.blob[w[1]], w[2]>> \notin Sent
             /\ w[2] \/ Open(db.blob[w[1]])
  <2> PICK r \in Rid : r = w[1]
    BY <1>3
  <2>1. ASSUME NEW s \in Subscriber \ DigestOnly, <<s, db.blob[r], w[2]>> \in Sent PROVE FALSE
    <3>1. Marked(<<s, db.blob[r], w[2]>>, db.alert[r])
      BY <2>1 DEF IInv, MailRight, Sent
    <3> QED BY <1>3, <3>1 DEF Marked
  <2>2. ASSUME ~w[2] PROVE Open(db.blob[r])
    <3>1. r \notin db.private
      BY <1>3, <2>2 DEF InPrivate
    <3>2. r \in Used(db) /\ r \notin db.phantom
      BY <1>4, KindsApart DEF IInv, Good, Kinds, Used
    <3>3. db.blob[r] \in Public(db)
      BY <3>1, <3>2 DEF Public
    <3> QED BY <3>3 DEF IInv, Open
  <2> QED BY <2>1, <2>2
<1>5. WantRight'
  <2>1. \A v, w \in want' : v[1] = w[1] => v = w
    <3> TAKE v, w \in want'
    <3>1. v \in Rid \X BOOLEAN /\ w \in Rid \X BOOLEAN /\ (v[1] = w[1] => v[2] = w[2])
      BY <1>1, <1>3
    <3> QED BY <3>1
  <2> QED BY <1>1, <1>2, <1>3, <1>4, <2>1 DEF WantRight, Readers, Sent
<1>6. MailRight'
  BY <1>1, <1>2 DEF IInv, MailRight, Sent
<1>7. ListRight'
  BY <1>1, <1>2 DEF ListRight
<1>8. AlertsTypeOK'
  <2>1. ForSingle \in SUBSET (Rid \X BOOLEAN)
    BY <1>3
  <2> QED BY <1>1, <2>1 DEF IInv, AlertsTypeOK, Tasks, Letter
<1> QED BY <1>1, <1>2, <1>5, <1>6, <1>7, <1>8 DEF IInv

LEMMA StartDigestKeeps ==
    ASSUME IInv, AlertsAssumption, StartDigest PROVE IInv'
<1>1. /\ task = "between" /\ task' = "selected" /\ daily' = TRUE /\ want' = ForDigest
      /\ newDay' = FALSE
      /\ UNCHANGED <<list, todo, db, mail, anew, again, cast, made, excused, shown, crashes>>
  BY DEF StartDigest
<1>2. /\ (\A a : Seen(a)' <=> Seen(a)) /\ (\A a : Open(a)' <=> Open(a))
      /\ Public(db)' = Public(db) /\ list = {} /\ todo = {}
  BY <1>1, SameTables DEF IInv, ListRight
<1>3. \A w \in ForDigest :
        /\ w[1] \in Rid /\ w[2] = FALSE /\ w \in Rid \X BOOLEAN
        /\ db.alert[w[1]].queued /\ ~db.alert[w[1]].digest /\ w[1] \notin db.private
  <2> TAKE w \in ForDigest
  <2>1. PICK r \in Rid : /\ w = <<r, FALSE>> /\ ~InPrivate(r)
                        /\ db.alert[r].queued /\ ~db.alert[r].digest
    BY DEF ForDigest
  <2>2. w[1] = r /\ w[2] = FALSE
    BY <2>1
  <2> QED BY <2>1, <2>2 DEF InPrivate
<1>4. ASSUME NEW w \in ForDigest, w[1] \in db.event
      PROVE  /\ \A s \in DigestOnly : <<s, db.blob[w[1]], w[2]>> \notin Sent
             /\ w[2] \/ Open(db.blob[w[1]])
  <2> PICK r \in Rid : r = w[1]
    BY <1>3
  <2>1. ASSUME NEW s \in DigestOnly, <<s, db.blob[r], w[2]>> \in Sent PROVE FALSE
    <3>1. Marked(<<s, db.blob[r], w[2]>>, db.alert[r])
      BY <2>1 DEF IInv, MailRight, Sent
    <3> QED BY <1>3, <2>1, <3>1 DEF Marked
  <2>2. Open(db.blob[r])
    <3>1. r \notin db.private
      BY <1>3
    <3>2. r \in Used(db) /\ r \notin db.phantom
      BY <1>4, KindsApart DEF IInv, Good, Kinds, Used
    <3>3. db.blob[r] \in Public(db)
      BY <3>1, <3>2 DEF Public
    <3> QED BY <3>3 DEF IInv, Open
  <2> QED BY <2>1, <2>2
<1>5. WantRight'
  <2>1. \A v, w \in want' : v[1] = w[1] => v = w
    <3> TAKE v, w \in want'
    <3>1. v \in Rid \X BOOLEAN /\ w \in Rid \X BOOLEAN /\ (v[1] = w[1] => v[2] = w[2])
      BY <1>1, <1>3
    <3> QED BY <3>1
  <2> QED BY <1>1, <1>2, <1>3, <1>4, <2>1 DEF WantRight, Readers, Sent
<1>6. MailRight'
  BY <1>1, <1>2 DEF IInv, MailRight, Sent
<1>7. ListRight'
  BY <1>1, <1>2 DEF ListRight
<1>8. AlertsTypeOK'
  <2>1. ForDigest \in SUBSET (Rid \X BOOLEAN)
    BY <1>3
  <2> QED BY <1>1, <2>1 DEF IInv, AlertsTypeOK, Tasks, Letter
<1> QED BY <1>1, <1>2, <1>5, <1>6, <1>7, <1>8 DEF IInv

(* The backoffice stops, with or without a kill, and what it had selected  *)
(* is forgotten.                                                           *)
LEMMA StopKeeps ==
    ASSUME IInv, AlertsAssumption, NEW t \in {"idle", "between"}, GoTo(t),
           UNCHANGED <<mail, anew, again, cast, made, shown>>,
           newDay' \in BOOLEAN, crashes' \in 0 .. MaxCrashes,
           excused' \in SUBSET Notified, excused \subseteq excused',
           db' = db \/ db' = [db EXCEPT !.alert =
                                [r \in Rid |-> IF Told(@[r]) THEN NoAlert ELSE @[r]]]
    PROVE  IInv'
<1>1. /\ task' = t /\ want' = {} /\ list' = {} /\ todo' = {} /\ daily' = FALSE
      /\ db \in Tables
  BY DEF GoTo, IInv, Good
<1>2. /\ db'.blob = db.blob /\ db'.phantom = db.phantom /\ db'.private = db.private
      /\ db'.event = db.event /\ db'.modreq = db.modreq /\ db'.attachment = db.attachment
      /\ \A r \in Rid : db'.alert[r] = db.alert[r] \/ db'.alert[r] = NoAlert
      /\ db' \in Tables
  <2>1. CASE db' = db
    BY <1>1, <2>1
  <2>2. CASE db' = [db EXCEPT !.alert =
                      [r \in Rid |-> IF Told(@[r]) THEN NoAlert ELSE @[r]]]
    <3> DEFINE al == [r \in Rid |-> IF Told(db.alert[r]) THEN NoAlert ELSE db.alert[r]]
    <3>1. db' = [db EXCEPT !.alert = al]
      BY <2>2
    <3>2. al \in [Rid -> [queued : BOOLEAN, sep : BOOLEAN, digest : BOOLEAN, mod : BOOLEAN]]
      BY GoodTypes DEF IInv, NoAlert
    <3>3. \A r \in Rid : al[r] = db.alert[r] \/ al[r] = NoAlert
      OBVIOUS
    <3> HIDE DEF al
    <3> QED BY <1>1, <3>1, <3>2, <3>3 DEF Tables
  <2> QED BY <2>1, <2>2
<1>3. Good(db') /\ Known(db', made') /\ Public(db)' = Public(db) /\ RowsAreOfArtifacts(db')
  BY <1>2 DEF IInv, AlertsTypeOK, Good, Known, OneRow, Kinds, Requests, Attaching, Used, Public,
              RowsAreOfArtifacts
<1>4. (\A a : Seen(a)' <=> Seen(a)) /\ (\A a : Open(a) => Open(a)')
  BY <1>2 DEF Seen, Open
<1>5. MailRight'
  <2>1. \A m \in mail, r \in Rid : Marked(m, db.alert[r]) => Marked(m, db'.alert[r])
    BY <1>2 DEF Marked, NoAlert
  <2> QED BY <1>2, <1>4, <2>1 DEF IInv, MailRight, Sent
<1>6. WantRight' /\ ListRight'
  BY <1>1 DEF WantRight, ListRight
<1>7. AlertsTypeOK'
  BY <1>1, <1>2, <1>3 DEF IInv, AlertsTypeOK, Tasks, Letter
<1> QED BY <1>3, <1>5, <1>6, <1>7 DEF IInv

LEMMA ComposeKeeps ==
    ASSUME IInv, AlertsAssumption, Compose PROVE IInv'
<1> DEFINE found == {<<db.blob[w[1]], w[2]>> : w \in Events}
<1>1. /\ task = "selected" /\ want \in SUBSET (Rid \X BOOLEAN)
      /\ UNCHANGED <<db, newDay, mail, anew, again, cast, made, excused, shown, crashes>>
  BY DEF Compose, Quiet, IInv, AlertsTypeOK
<1>2. CASE found = {}
  <2>1. PICK t \in {"idle", "between"} : GoTo(t)
    BY <1>2 DEF Compose, Over
  <2> QED BY <1>1, <2>1, StopKeeps DEF IInv, AlertsTypeOK
<1>3. CASE found # {}
  <2>1. task' = "composed" /\ list' = found /\ UNCHANGED <<want, todo, daily>>
    BY <1>3 DEF Compose
  <2>2. /\ (\A a : Seen(a)' <=> Seen(a)) /\ (\A a : Open(a)' <=> Open(a))
        /\ Public(db)' = Public(db) /\ todo = {}
    BY <1>1, SameTables DEF IInv, ListRight
  <2>3. \A e \in found : \E w \in want :
          w[1] \in db.event /\ w[1] \in Rid /\ w[2] \in BOOLEAN /\ w = <<w[1], w[2]>>
            /\ e = <<db.blob[w[1]], w[2]>> /\ e[1] = db.blob[w[1]] /\ e[2] = w[2]
    BY <1>1 DEF Events
  <2>4. ASSUME NEW e \in found
        PROVE  /\ e \in Notified \X BOOLEAN /\ Seen(e[1]) /\ (e[2] \/ Open(e[1]))
               /\ \A s \in Readers : <<s, e[1], e[2]>> \notin Sent
               /\ \A r \in Rid : db.blob[r] = e[1] => <<r, e[2]>> \in want
               /\ daily => e[2] = FALSE
    <3> HIDE DEF found
    <3>1. PICK w \in want :
            w[1] \in db.event /\ w[1] \in Rid /\ w[2] \in BOOLEAN /\ w = <<w[1], w[2]>>
              /\ e = <<db.blob[w[1]], w[2]>> /\ e[1] = db.blob[w[1]] /\ e[2] = w[2]
      BY <2>3
    <3>2. e[1] \in Notified /\ e[1] # None
      BY <3>1, KindsApart DEF IInv, Good, Kinds
    <3>3. Seen(e[1])
      BY <3>1, <3>2, KindsApart DEF IInv, Known, Seen
    <3>4. /\ e[2] \/ Open(e[1])
          /\ \A s \in Readers : <<s, e[1], e[2]>> \notin Sent
          /\ daily => e[2] = FALSE
      BY <1>1, <3>1 DEF IInv, WantRight
    <3>5. \A r \in Rid : db.blob[r] = e[1] => r = w[1]
      BY <3>1, <3>2 DEF IInv, Good, OneRow, Used
    <3> QED BY <3>1, <3>2, <3>3, <3>4, <3>5
  <2>5. ListRight'
    BY <1>1, <2>1, <2>2, <2>4 DEF ListRight, Readers, Sent
  <2>6. MailRight'
    BY <1>1, <2>1, <2>2 DEF IInv, MailRight, Sent
  <2>7. WantRight'
    BY <1>1, <2>1 DEF IInv, WantRight, Readers, Sent
  <2>8. AlertsTypeOK'
    BY <1>1, <2>1, <2>4 DEF IInv, AlertsTypeOK, Tasks, Letter
  <2> QED BY <1>1, <2>1, <2>2, <2>5, <2>6, <2>7, <2>8 DEF IInv
<1> QED BY <1>2, <1>3

(* Marking only raises flags: of what is composed, nothing stays to be     *)
(* sent to those who are written to now.                                   *)
LEMMA MarkKeeps ==
    ASSUME IInv, AlertsAssumption, Mark PROVE IInv'
<1> DEFINE al == [r \in Rid |-> MarkedRow(db.alert[r], r)]
<1>1. /\ task = "composed" /\ task' = "marked" /\ todo' = Readers
      /\ db' = [db EXCEPT !.alert = al]
      /\ UNCHANGED <<want, list, daily, newDay, mail, anew, again, cast, made, excused, shown, crashes>>
  BY DEF Mark, Readers
<1>2. /\ al \in [Rid -> [queued : BOOLEAN, sep : BOOLEAN, digest : BOOLEAN, mod : BOOLEAN]]
      /\ \A r \in Rid : al[r] = MarkedRow(db.alert[r], r)
  <2>1. ASSUME NEW row \in [queued : BOOLEAN, sep : BOOLEAN, digest : BOOLEAN, mod : BOOLEAN],
               NEW r
        PROVE  MarkedRow(row, r) \in [queued : BOOLEAN, sep : BOOLEAN,
                                     digest : BOOLEAN, mod : BOOLEAN]
    BY DEF MarkedRow
  <2>2. \A r \in Rid : MarkedRow(db.alert[r], r) \in [queued : BOOLEAN, sep : BOOLEAN,
                                                     digest : BOOLEAN, mod : BOOLEAN]
    BY <2>1, GoodTypes DEF IInv
  <2> QED BY <2>2
<1>3. \A m, r : r \in Rid /\ Marked(m, db.alert[r]) => Marked(m, MarkedRow(db.alert[r], r))
  BY GoodTypes DEF IInv, Marked, MarkedRow
<1>4. ASSUME NEW e \in list, NEW s \in Readers, NEW r \in Rid, db.blob[r] = e[1]
      PROVE  Marked(<<s, e[1], e[2]>>, MarkedRow(db.alert[r], r))
  <2>1. /\ <<r, e[2]>> \in want /\ e[2] \in BOOLEAN
        /\ \A v, w \in want : v[1] = w[1] => v = w
        /\ daily => e[2] = FALSE
    BY <1>1, <1>4 DEF IInv, AlertsTypeOK, ListRight, WantRight
  <2>2. e[2] = FALSE => <<r, TRUE>> \notin want
    BY <2>1
  <2>3. db.alert[r] \in [queued : BOOLEAN, sep : BOOLEAN, digest : BOOLEAN, mod : BOOLEAN]
    BY GoodTypes DEF IInv
  <2> QED BY <2>1, <2>2, <2>3 DEF Marked, MarkedRow, Readers
<1> HIDE DEF al
<1>5. /\ db'.blob = db.blob /\ db'.phantom = db.phantom /\ db'.private = db.private
      /\ db'.event = db.event /\ db'.modreq = db.modreq /\ db'.attachment = db.attachment
      /\ db'.alert = al /\ db' \in Tables
  BY <1>1, <1>2 DEF IInv, Good, Tables
<1>6. Good(db') /\ Known(db', made') /\ Public(db)' = Public(db) /\ RowsAreOfArtifacts(db')
  BY <1>1, <1>5 DEF IInv, AlertsTypeOK, Good, Known, OneRow, Kinds, Requests, Attaching, Used, Public,
                    RowsAreOfArtifacts
<1>7. (\A a : Seen(a)' <=> Seen(a)) /\ (\A a : Open(a)' <=> Open(a)) /\ Readers' = Readers
  BY <1>1, <1>5 DEF Seen, Open, Readers
<1>8. MailRight'
  <2>1. \A m \in mail, r \in Rid : m \in Sent /\ db'.blob[r] = m[2] => Marked(m, db'.alert[r])
    <3> SUFFICES ASSUME NEW m \in Sent, NEW r \in Rid, db.blob[r] = m[2]
                 PROVE  Marked(m, al[r])
      BY <1>5 DEF Sent
    <3>1. m \in mail
      BY DEF Sent
    <3>2. Marked(m, db.alert[r])
      BY <3>1 DEF IInv, MailRight
    <3> QED BY <1>2, <1>3, <3>2
  <2>2. Sent' = Sent
    BY <1>1 DEF Sent
  <2> QED BY <1>1, <1>7, <2>1, <2>2 DEF IInv, MailRight
<1>9. WantRight'
  <2>0. \A r \in Rid : db.alert[r] \in [queued : BOOLEAN, sep : BOOLEAN, digest : BOOLEAN,
                                       mod : BOOLEAN]
    BY GoodTypes DEF IInv
  <2>1. \A r \in Rid : db.alert[r].queued => al[r].queued
    BY <1>2, <2>0 DEF MarkedRow
  <2>2. \A w \in want : w[1] \in Rid
    BY DEF IInv, AlertsTypeOK
  <2> QED BY <1>1, <1>5, <2>1, <2>2 DEF IInv, WantRight
<1>10. ListRight'
  <2>1. \A e \in list : \A s \in Readers : <<s, e[1], e[2]>> \notin Sent
    BY <1>1 DEF IInv, ListRight
  <2>2. /\ \A e \in list : Seen(e[1]) /\ (e[2] \/ Open(e[1]))
        /\ daily => \A e \in list : e[2] = FALSE
    BY DEF IInv, ListRight
  <2>3. \A e \in list, s \in Readers, r \in Rid :
          db'.blob[r] = e[1] => Marked(<<s, e[1], e[2]>>, db'.alert[r])
    BY <1>2, <1>4, <1>5
  <2>4. \A e \in list, r \in Rid : db'.blob[r] = e[1] => <<r, e[2]>> \in want
    BY <1>5 DEF IInv, ListRight
  <2> QED BY <1>1, <1>7, <2>1, <2>2, <2>3, <2>4 DEF ListRight, Sent
<1>11. AlertsTypeOK'
  <2>1. todo' \in SUBSET Subscriber
    BY <1>1 DEF Readers, AlertsAssumption
  <2> QED BY <1>1, <1>5, <1>6, <2>1 DEF IInv, AlertsTypeOK, Tasks, Letter
<1> QED BY <1>1, <1>6, <1>8, <1>9, <1>10, <1>11 DEF IInv

(* A letter is new, and tells its reader what he may know.                 *)
LEMMA SendKeeps ==
    ASSUME IInv, AlertsAssumption, NEW s \in Subscriber, Send(s) PROVE IInv'
<1> DEFINE letters == {<<s, e[1], e[2]>> : e \in {x \in list : MaySee(s, x[2])}}
<1>1. /\ task = "marked" /\ s \in todo /\ todo' = todo \ {s}
      /\ mail' = mail \cup letters /\ anew' = anew \ letters
      /\ again' = again \cup (letters \cap Sent) /\ Sent' = Sent \cup letters
      /\ UNCHANGED <<db, task, want, list, daily, newDay, cast, made, excused, shown, crashes>>
      /\ list \in SUBSET (Notified \X BOOLEAN) /\ s \in Readers
  BY DEF Send, IInv, AlertsTypeOK, ListRight, Sent
<1>2. /\ (\A a : Seen(a)' <=> Seen(a)) /\ (\A a : Open(a)' <=> Open(a))
      /\ Public(db)' = Public(db) /\ Readers' = Readers
  BY <1>1, SameTables DEF Readers
<1>3. ASSUME NEW m \in letters
      PROVE  /\ m \in Letter /\ m \notin Sent /\ m[1] = s
             /\ Seen(m[2]) /\ (m[1] \in DigestOnly => m[3] = FALSE)
             /\ m[1] \in Moderators \/ Open(m[2])
             /\ \A r \in Rid : db.blob[r] = m[2] => Marked(m, db.alert[r])
  <2>1. PICK e \in list : m = <<s, e[1], e[2]>> /\ MaySee(s, e[2])
    OBVIOUS
  <2>2. e[1] \in Notified /\ e[2] \in BOOLEAN /\ m[1] = s /\ m[2] = e[1] /\ m[3] = e[2]
    BY <1>1, <2>1
  <2>3. /\ Seen(e[1]) /\ (e[2] \/ Open(e[1])) /\ (daily => e[2] = FALSE)
        /\ m \notin Sent /\ \A r \in Rid : db.blob[r] = e[1] => Marked(m, db.alert[r])
    BY <1>1, <2>1 DEF IInv, ListRight
  <2> QED BY <1>1, <2>1, <2>2, <2>3 DEF Readers, MaySee, Letter
<1> HIDE DEF letters
<1>4. again' = {}
  BY <1>1, <1>3 DEF IInv
<1>5. MailRight'
  BY <1>1, <1>2, <1>3 DEF IInv, MailRight, Sent
<1>6. WantRight'
  BY <1>1 DEF IInv, WantRight
<1>7. ListRight'
  <2>1. \A e \in list, t \in todo' : <<t, e[1], e[2]>> \notin Sent'
    <3> TAKE e \in list, t \in todo'
    <3>1. t \in todo /\ t # s /\ <<t, e[1], e[2]>> \notin Sent
      BY <1>1 DEF IInv, ListRight
    <3>2. <<t, e[1], e[2]>> \notin letters
      BY <1>3, <3>1
    <3> QED BY <1>1, <3>1, <3>2
  <2> QED BY <1>1, <1>2, <2>1 DEF IInv, ListRight
<1>8. AlertsTypeOK'
  BY <1>1, <1>3, <1>4 DEF IInv, AlertsTypeOK
<1> QED BY <1>1, <1>2, <1>4, <1>5, <1>6, <1>7, <1>8 DEF IInv

LEMMA NewDayKeeps ==
    ASSUME IInv, NewDay PROVE IInv'
<1>1. /\ newDay' = TRUE
      /\ UNCHANGED <<db, task, want, list, todo, daily, mail, anew, again, cast, made, excused, shown,
                     crashes>>
  BY DEF NewDay, sender
<1>2. (\A a : Seen(a)' <=> Seen(a)) /\ (\A a : Open(a)' <=> Open(a)) /\ Readers' = Readers
  BY <1>1, SameTables DEF Readers
<1>3. AlertsTypeOK'
  BY <1>1 DEF IInv, AlertsTypeOK
<1>4. MailRight' /\ WantRight' /\ ListRight'
  BY <1>1, <1>2 DEF IInv, MailRight, WantRight, ListRight, Readers, Sent
<1> QED BY <1>1, <1>3, <1>4 DEF IInv

LEMMA SenderKeeps ==
    ASSUME IInv, AlertsAssumption, Step \/ Crash PROVE IInv'
<1>1. newDay \in BOOLEAN /\ crashes \in 0 .. MaxCrashes /\ excused \in SUBSET Notified /\ MaxCrashes \in Nat
  BY DEF IInv, AlertsTypeOK, AlertsAssumption
<1>2. CASE NoDigest
  BY <1>1, <1>2, StopKeeps DEF NoDigest, Quiet
<1>3. CASE Finish
  <2>1. PICK t \in {"idle", "between"} : GoTo(t)
    BY <1>3 DEF Finish, Over
  <2> QED BY <1>1, <1>3, <2>1, StopKeeps DEF Finish
<1>4. CASE Crash
  <2>1. {e[1] : e \in {x \in list : task = "marked"}} \subseteq Notified
    BY DEF IInv, AlertsTypeOK
  <2>2. crashes' \in 0 .. MaxCrashes
    BY <1>1, <1>4 DEF Crash
  <2>3. excused' \in SUBSET Notified /\ excused \subseteq excused'
    BY <1>1, <1>4, <2>1 DEF Crash
  <2>4. /\ GoTo("idle") /\ UNCHANGED <<mail, anew, again, cast, made, shown>>
        /\ db' = db /\ newDay' \in BOOLEAN
    BY <1>1, <1>4 DEF Crash
  <2> QED BY <2>2, <2>3, <2>4, StopKeeps
<1> QED BY <1>2, <1>3, <1>4, StartSingleKeeps, StartDigestKeeps, ComposeKeeps, MarkKeeps,
           SendKeeps DEF Step

-----------------------------------------------------------------------------
(* The transactions of users, moderators and peers.                        *)
LEMMA MadeIsNew ==
    ASSUME AlertsAssumption, IInv, NEW a \in Post \cup Attachments, Make(a)
    PROVE  /\ \A r \in Rid : db.blob[r] # a
           /\ RidOf(db, a) = 0 /\ a \in Artifact /\ a # None
           /\ made' = made \cup {a} /\ a \notin made
           /\ made' \subseteq Post \cup Attachments /\ made' \subseteq cast
<1>1. a \in Artifact /\ a # None
  BY KindsApart
<1>2. made' = made \cup {a} /\ a \in cast \ made
  BY DEF Make
<1>3. \A r \in Rid : db.blob[r] # a
  BY <1>2 DEF IInv, Known
<1>4. RidOf(db, a) = 0
  BY <1>1, <1>3, RidOfRow DEF IInv
<1> QED BY <1>1, <1>2, <1>3, <1>4 DEF IInv, AlertsTypeOK

LEMMA NewPostKeeps ==
    ASSUME AlertsAssumption, IInv, NEW a \in Post, NEW needMod \in BOOLEAN, NEW silent \in BOOLEAN,
           NewPost(a, needMod, silent)
    PROVE  IInv'
<1>1. /\ \A q \in Rid : db.blob[q] # a
      /\ RidOf(db, a) = 0 /\ a \in Artifact /\ a # None /\ a \in Notified
      /\ made' = made \cup {a} /\ a \notin made
      /\ made' \subseteq Post \cup Attachments /\ made' \subseteq cast
  BY MadeIsNew DEF NewPost, Notified
<1> PICK r \in Rid : r = NewRid(db)
  BY NewRidIsFree DEF NewPost, HasRoom, IInv
<1>2. Good(db) /\ db.blob[r] = None /\ r \notin db.phantom /\ r \notin db.event
  BY NewRidIsFree, KindsApart DEF IInv, Good, Kinds
<1> PICK d : d = Put(db, a, needMod)
  OBVIOUS
<1>3. /\ d \in Tables /\ d.blob = [db.blob EXCEPT ![r] = a] /\ d.phantom = db.phantom \ {r}
      /\ d.private = IF needMod THEN db.private \cup {r} ELSE db.private
      /\ d.event = db.event /\ d.modreq = db.modreq
      /\ d.attachment = db.attachment /\ d.alert = db.alert
  <2>1. RowFor(db, a, r)
    BY <1>1 DEF RowFor
  <2> QED BY <1>1, <1>2, <2>1, PutFields DEF PutIs
<1>4. RidOf(d, a) = r
  BY <1>1, <1>2, <1>3, GoodTypes, KindsApart DEF RidOf
<1> PICK e : e = IF needMod THEN Waiting(d, r, 0) ELSE d
  OBVIOUS
<1>5. /\ e \in Tables /\ e.blob = d.blob /\ e.phantom = d.phantom /\ e.private = d.private
      /\ e.event = d.event /\ e.attachment = d.attachment /\ e.alert = d.alert
      /\ \A row \in e.modreq : row \in d.modreq \/ (needMod /\ row = <<r, 0>>)
  BY <1>3, WaitingFields
<1> PICK f : f = Announced(e, r)
  OBVIOUS
<1>6. /\ f \in Tables /\ f.blob = e.blob /\ f.phantom = e.phantom /\ f.private = e.private
      /\ f.event = e.event /\ f.modreq = e.modreq
      /\ f.attachment = e.attachment /\ f.alert = e.alert
  BY <1>5, AnnouncedFields
<1> PICK g : g = Recorded(f, r)
  OBVIOUS
<1>7. /\ g \in Tables /\ g.blob = f.blob /\ g.phantom = f.phantom /\ g.private = f.private
      /\ g.event = f.event \cup {r} /\ g.modreq = f.modreq /\ g.attachment = f.attachment
      /\ \A q \in Rid \ {r} : g.alert[q] = f.alert[q]
  BY <1>6, RecordedFields
<1>8. WikiPut(db, a, needMod) = g
  BY <1>4 DEF WikiPut
<1> PICK h : h = IF silent THEN Unqueued(g, r) ELSE g
  OBVIOUS
<1>9. /\ h \in Tables /\ h.blob = g.blob /\ h.phantom = g.phantom /\ h.private = g.private
      /\ h.event = g.event /\ h.modreq = g.modreq /\ h.attachment = g.attachment
      /\ \A q \in Rid \ {r} : h.alert[q] = g.alert[q]
  BY <1>7, UnqueuedFields
<1>10. RidOf(g, a) = r
  BY <1>4, <1>5, <1>6, <1>7 DEF RidOf
<1>11. Commit(h, IF silent THEN {a} ELSE {})
  BY <1>8, <1>10 DEF NewPost
<1>12. h.blob = [db.blob EXCEPT ![r] = a] /\ db.blob \in [Rid -> Artifact \cup {None}]
  BY <1>2, <1>3, <1>5, <1>6, <1>7, <1>9, GoodTypes
<1>13. Touches(db, h, r)
  <2>1. Elsewhere(db, h, r)
    BY <1>3, <1>5, <1>6, <1>7, <1>9, <1>12 DEF Elsewhere
  <2>2. \A row \in h.modreq : row \notin db.modreq => needMod /\ row[1] = r /\ row[2] = 0
    BY <1>3, <1>5, <1>6, <1>7, <1>9
  <2>3. h.attachment = db.attachment /\ h.phantom = db.phantom \ {r} /\ r \in h.event
        /\ (needMod => r \in h.private)
    BY <1>3, <1>5, <1>6, <1>7, <1>9
  <2>4. h.blob[r] = a /\ a \notin Remote
    BY <1>1, <1>12, KindsApart
  <2> QED BY <1>1, <1>2, <1>12, <2>1, <2>2, <2>3, <2>4 DEF Touches
<1>14. Good(h) /\ Moves(db, h, {a})
  <2>1. Brought(db, h, r) = {a}
    BY <1>2, <1>12 DEF Brought
  <2> QED BY <1>2, <1>13, <2>1, TouchesIsGood
<1>15. Known(h, made')
  BY <1>1, <1>12 DEF IInv, Known
<1>16. (IF silent THEN {a} ELSE {}) \in SUBSET Notified
  BY <1>1
<1>17. anew' = anew
  BY DEF NewPost
<1> QED BY <1>1, <1>11, <1>14, <1>15, <1>16, <1>17, CommitKeeps

(* A peer announces an artifact.                                           *)
LEMMA AnnounceKeeps ==
    ASSUME AlertsAssumption, IInv, NEW a \in Remote, Announce(a), made' = made
    PROVE  IInv'
<1>1. a \in Artifact /\ a # None /\ a \in Notified /\ a \notin Post \cup Attachments
  BY KindsApart
<1> PICK r \in Rid : r = NewRid(db)
  BY NewRidIsFree DEF Announce, HasRoom, IInv
<1>2. /\ Good(db) /\ db.blob[r] = None /\ r \notin db.event /\ r \notin db.private
      /\ \A q \in Rid : db.blob[q] # a
  BY <1>1, NewRidIsFree, RidOfRow, KindsApart DEF IInv, Good, Kinds, Announce
<1> PICK h : h = PutPhantom(db, a)
  OBVIOUS
<1>3. /\ h \in Tables /\ h.blob = [db.blob EXCEPT ![r] = a]
      /\ h.phantom = db.phantom \cup {r} /\ h.private = db.private
      /\ h.event = db.event /\ h.modreq = db.modreq
      /\ h.attachment = db.attachment /\ h.alert = db.alert
  <2> DEFINE bl == [db.blob EXCEPT ![r] = a]
         ph == db.phantom \cup {r}
         un == db.unclustered \cup {r}
  <2>1. h = [db EXCEPT !.blob = bl, !.phantom = ph, !.unclustered = un]
    BY <1>2 DEF PutPhantom, Good, Tables
  <2>2. /\ bl \in [Rid -> Artifact \cup {None}] /\ db \in Tables
        /\ ph \in SUBSET Rid /\ un \in SUBSET Rid
    BY <1>1, <1>2, GoodTypes DEF Good
  <2> HIDE DEF bl, ph, un
  <2>3. h \in Tables
    BY <2>1, <2>2 DEF Tables
  <2>4. /\ h.blob = bl /\ h.phantom = ph /\ h.private = db.private
        /\ h.event = db.event /\ h.modreq = db.modreq
        /\ h.attachment = db.attachment /\ h.alert = db.alert
    BY <2>1, <2>2 DEF Tables
  <2> QED BY <2>3, <2>4 DEF bl, ph
<1>4. db.blob \in [Rid -> Artifact \cup {None}]
  BY <1>2, GoodTypes
<1>5. Elsewhere(db, h, r)
  BY <1>3, <1>4 DEF Elsewhere
<1>6. Touches(db, h, r)
  BY <1>1, <1>2, <1>3, <1>4, <1>5 DEF Touches
<1>7. Good(h) /\ Moves(db, h, {a})
  <2>1. Brought(db, h, r) = {a}
    BY <1>2, <1>3, <1>4 DEF Brought
  <2> QED BY <1>2, <1>6, <2>1, TouchesIsGood
<1>8. Known(h, made') /\ {a} \cap made = {}
  BY <1>1, <1>3, <1>4 DEF IInv, Known
<1>9. Commit(h, {})
  BY DEF Announce
<1>10. made' \subseteq Post \cup Attachments /\ made' \subseteq cast /\ anew' = anew
  BY DEF IInv, AlertsTypeOK, Announce
<1> QED BY <1>7, <1>8, <1>9, <1>10, CommitKeeps

(* A peer sends an artifact, which may have been announced.                *)
LEMMA ReceiveNewKeeps ==
    ASSUME AlertsAssumption, IInv, NEW a \in Remote, ReceiveArtifact(a), made' = made,
           RidOf(db, a) = 0 \/ RidOf(db, a) \in db.phantom
    PROVE  IInv'
<1>1. a \in Artifact /\ a # None /\ a \in Notified /\ a \notin Post \cup Attachments
  BY KindsApart
<1>2. RidOf(db, a) \in db.phantom \/ (RidOf(db, a) = 0 /\ HasRoom(0))
  BY DEF ReceiveArtifact
<1> PICK r \in Rid : /\ r = IF RidOf(db, a) = 0 THEN NewRid(db) ELSE RidOf(db, a)
                     /\ RidOf(db, a) = 0 \/ r \in db.phantom
                     /\ r \in db.phantom \/ RidOf(db, a) = 0
  <2>1. CASE RidOf(db, a) = 0
    <3>1. RidOf(db, a) \notin db.phantom
      BY <2>1, KindsApart, GoodTypes DEF IInv
    <3>2. NewRid(db) \in Rid
      BY <1>2, <3>1, NewRidIsFree DEF HasRoom, IInv
    <3> QED BY <2>1, <3>2
  <2>2. CASE RidOf(db, a) # 0
    <3>1. RidOf(db, a) \in db.phantom
      BY <1>2, <2>2
    <3>2. RidOf(db, a) \in Rid
      BY <3>1, GoodTypes DEF IInv
    <3> QED BY <2>2, <3>1, <3>2
  <2> QED BY <2>1, <2>2
<1>3. /\ Good(db) /\ r \notin db.event
      /\ db.blob[r] = None \/ (db.blob[r] = a /\ r \in db.phantom)
      /\ \A q \in Rid \ {r} : db.blob[q] # a
  <2>1. CASE RidOf(db, a) = 0
    BY <1>1, <2>1, NewRidIsFree, RidOfRow, KindsApart DEF IInv, Good, Kinds
  <2>2. CASE RidOf(db, a) # 0
    BY <1>1, <2>2, RidOfRow DEF IInv, Good, Kinds
  <2> QED BY <2>1, <2>2
<1>0. PICK d : d = Put(db, a, FALSE)
  OBVIOUS
<1>4. /\ d \in Tables /\ d.blob = [db.blob EXCEPT ![r] = a] /\ d.phantom = db.phantom \ {r}
      /\ d.private = db.private
      /\ d.event = db.event /\ d.modreq = db.modreq
      /\ d.attachment = db.attachment /\ d.alert = db.alert
  <2>1. RowFor(db, a, r) /\ a \in Artifact /\ Good(db)
    BY <1>1, <1>3 DEF RowFor
  <2>2. \A p \in BOOLEAN : \A e : e = Put(db, a, p) => PutIs(db, a, p, r, e)
    BY <2>1, PutFields, Zenon
  <2>3. PutIs(db, a, FALSE, r, d)
    BY <1>0, <2>2, Zenon
  <2> QED BY <2>3 DEF PutIs
<1>5. RidOf(d, a) = r /\ db.blob \in [Rid -> Artifact \cup {None}]
  BY <1>1, <1>3, <1>4, GoodTypes DEF RidOf
<1> PICK h : h = Recorded(d, r)
  OBVIOUS
<1>6. /\ h \in Tables /\ h.blob = d.blob /\ h.phantom = d.phantom /\ h.private = d.private
      /\ h.event = d.event \cup {r} /\ h.modreq = d.modreq /\ h.attachment = d.attachment
      /\ (\A q \in Rid \ {r} : h.alert[q] = d.alert[q]) /\ h.alert[r].queued
  BY <1>4, RecordedFields
<1>7. Elsewhere(db, h, r)
  BY <1>4, <1>5, <1>6 DEF Elsewhere
<1>8. r \notin db.private
  BY <1>1, <1>3, KindsApart DEF Good, Kinds
<1>9. Touches(db, h, r)
  <2>1. h.blob = [db.blob EXCEPT ![r] = a] /\ r \in h.event /\ r \notin h.phantom
    BY <1>4, <1>6
  <2> QED BY <1>1, <1>3, <1>4, <1>5, <1>6, <1>7, <1>8, <2>1 DEF Touches
<1>10. Good(h) /\ Moves(db, h, Brought(db, h, r)) /\ Brought(db, h, r) \subseteq {a}
  <2>1. h.blob[r] = a
    BY <1>4, <1>5, <1>6
  <2>2. Brought(db, h, r) \subseteq {a}
    BY <2>1 DEF Brought
  <2> QED BY <1>3, <1>9, <2>2, TouchesIsGood
<1>11. Known(h, made') /\ Brought(db, h, r) \cap made = {}
  BY <1>1, <1>4, <1>5, <1>6, <1>10 DEF IInv, Known
<1>12. Commit(h, {})
  <2>1. Commit(Recorded(Put(db, a, FALSE), RidOf(Put(db, a, FALSE), a)), {})
    BY Zenon DEF ReceiveArtifact
  <2> QED BY <1>0, <1>5, <2>1, Zenon
<1>13. made' \subseteq Post \cup Attachments /\ made' \subseteq cast
  BY DEF IInv, AlertsTypeOK
<1>14. anew' = anew
  <2>1. ~Seen(a)
    BY <1>1, <1>3, GoodTypes DEF Seen, IInv
  <2>2. {m \in mail : m[2] = a} = {}
    BY <2>1 DEF IInv, MailRight
  <2>3. anew' = anew \/ anew' = anew \cup {m \in mail : m[2] = a}
    BY DEF ReceiveArtifact
  <2> QED BY <2>2, <2>3
<1> QED BY <1>10, <1>11, <1>12, <1>13, <1>14, CommitKeeps

(* A peer sends an artifact that is held already.  If its row had been     *)
(* deleted, nobody is being written to about it at the moment.             *)
LEMMA ReceiveAgainKeeps ==
    ASSUME AlertsAssumption, IInv, NEW a \in Remote, ReceiveArtifact(a), made' = made,
           RidOf(db, a) # 0, RidOf(db, a) \notin db.phantom
    PROVE  IInv'
<1>1. a \in Artifact /\ a # None /\ Good(db)
  BY KindsApart DEF IInv
<1>2. PICK r \in Rid : r = RidOf(db, a) /\ db.blob[r] = a /\ r \in db.event
  BY <1>1, RidOfRow DEF Good, Kinds
<1>3. \A q \in Rid : db.blob[q] = a => q = r
  BY <1>1, <1>2, RidOfRow
<1>4. Put(db, a, FALSE) = db
  BY <1>2 DEF Put
<1>5. PICK h : h = Recorded(db, r)
  OBVIOUS
<1>6. /\ h \in Tables /\ h.blob = db.blob /\ h.phantom = db.phantom /\ h.private = db.private
      /\ h.event = db.event /\ h.modreq = db.modreq /\ h.attachment = db.attachment
      /\ \A q \in Rid \ {r} : h.alert[q] = db.alert[q]
      /\ db.alert[r].queued => h.alert[r] = db.alert[r]
      /\ h.alert[r].queued
  <2>1. db \in Tables /\ db.event \cup {r} = db.event
    BY <1>1, <1>2 DEF Good
  <2>2. /\ h \in Tables
        /\ h.blob = db.blob /\ h.phantom = db.phantom /\ h.private = db.private
        /\ h.event = db.event \cup {r} /\ h.modreq = db.modreq
        /\ h.attachment = db.attachment
        /\ \A q \in Rid \ {r} : h.alert[q] = db.alert[q]
        /\ h.alert[r] = IF db.alert[r].queued THEN db.alert[r] ELSE Queued
        /\ h.alert[r].queued
    BY <1>5, <2>1, RecordedFields
  <2> QED BY <2>1, <2>2
<1>7. /\ Commit(h, {})
      /\ anew' = IF db.alert[r].queued THEN anew ELSE anew \cup {m \in mail : m[2] = a}
  BY <1>2, <1>4, <1>5, Zenon DEF ReceiveArtifact
<1>8. /\ db' = h /\ UNCHANGED <<task, want, list, todo, daily, newDay, mail, again, cast, crashes>>
      /\ shown' = shown /\ excused' = excused /\ Public(db)' = Public(db)
  <2>1. Public(h) = Public(db)
    BY <1>6 DEF Public, Used
  <2>2. Inherited(h) = {}
    BY <1>6 DEF Inherited
  <2>3. db' = h /\ shown' = shown \cup Public(h) /\ excused' = (excused \cup Inherited(h)) \cup {}
    BY <1>7 DEF Commit
  <2> QED BY <1>7, <2>1, <2>2, <2>3 DEF Commit, sender, IInv
<1>9. /\ (\A b : Seen(b)' <=> Seen(b)) /\ (\A b : Open(b)' <=> Open(b)) /\ Readers' = Readers
      /\ Good(db') /\ Known(db', made') /\ RowsAreOfArtifacts(db')
  BY <1>6, <1>8 DEF Seen, Open, Readers, IInv, AlertsTypeOK, Good, Known, OneRow, Kinds, Requests,
                    Attaching, Used, RowsAreOfArtifacts
<1>10. Sent' \subseteq Sent /\ (~db.alert[r].queued => \A m \in Sent' : m[2] # a)
  BY <1>7, <1>8 DEF Sent
<1>11. MailRight'
  <2>1. ASSUME NEW m \in Sent', NEW q \in Rid, h.blob[q] = m[2]
        PROVE  Marked(m, h.alert[q])
    <3>1. h.alert[q] = db.alert[q]
      BY <1>2, <1>6, <1>10, <2>1
    <3>2. m \in mail /\ m \in Sent
      BY <1>10 DEF Sent
    <3> QED BY <1>6, <2>1, <3>1, <3>2 DEF IInv, MailRight
  <2>2. \A m \in mail : /\ Seen(m[2]) /\ (m[1] \in DigestOnly => m[3] = FALSE)
                        /\ m[1] \in Moderators \/ Open(m[2])
    BY DEF IInv, MailRight
  <2> QED BY <1>8, <1>9, <2>1, <2>2 DEF MailRight
<1>12. WantRight'
  <2>1. \A q \in Rid : db.alert[q].queued => h.alert[q].queued
    BY <1>6
  <2>2. \A w \in want : w[1] \in Rid
    BY DEF IInv, AlertsTypeOK
  <2>3. /\ \A v, w \in want : v[1] = w[1] => v = w
        /\ daily => \A w \in want : w[2] = FALSE
        /\ \A w \in want : w[1] \in db.event /\ db.blob[w[1]] \in Remote => db.alert[w[1]].queued
        /\ task = "selected" => \A w \in want : w[1] \in db.event =>
              /\ \A s \in Readers : <<s, db.blob[w[1]], w[2]>> \notin Sent
              /\ w[2] \/ Open(db.blob[w[1]])
    BY DEF IInv, WantRight
  <2> QED BY <1>6, <1>8, <1>9, <1>10, <2>1, <2>2, <2>3 DEF WantRight
<1>13. ListRight'
  <2>1. ASSUME NEW e \in list, NEW q \in Rid, db.blob[q] = e[1]
        PROVE  h.alert[q] = db.alert[q]
    <3> SUFFICES ASSUME q = r PROVE db.alert[r].queued
      BY <1>6
    <3>1. <<r, e[2]>> \in want
      BY <2>1 DEF IInv, ListRight
    <3>2. \A w \in want : w[1] \in db.event /\ db.blob[w[1]] \in Remote => db.alert[w[1]].queued
      BY DEF IInv, WantRight
    <3> QED BY <1>2, <3>1, <3>2
  <2>2. /\ daily => \A e \in list : e[2] = FALSE
        /\ todo \subseteq Readers /\ (task # "marked" => todo = {})
        /\ task \notin {"composed", "marked"} => list = {}
        /\ \A e \in list : Seen(e[1]) /\ (e[2] \/ Open(e[1]))
        /\ \A e \in list, q \in Rid : db.blob[q] = e[1] => <<q, e[2]>> \in want
        /\ task = "composed" => \A e \in list, s \in Readers : <<s, e[1], e[2]>> \notin Sent
        /\ task = "marked" => \A e \in list, s \in todo : <<s, e[1], e[2]>> \notin Sent
    BY DEF IInv, ListRight
  <2>3. task = "marked" => \A e \in list, s \in Readers, q \in Rid :
           h.blob[q] = e[1] => Marked(<<s, e[1], e[2]>>, h.alert[q])
    BY <1>6, <2>1 DEF IInv, ListRight
  <2> QED BY <1>6, <1>8, <1>9, <1>10, <2>2, <2>3 DEF ListRight
<1>14. AlertsTypeOK'
  <2>1. anew' \in SUBSET mail
    BY <1>7 DEF IInv, AlertsTypeOK
  <2> QED BY <1>6, <1>8, <1>9, <2>1 DEF IInv, AlertsTypeOK
<1> QED BY <1>8, <1>9, <1>11, <1>12, <1>13, <1>14 DEF IInv

(* A user attaches a file to a post: the file, if it is new, and then the  *)
(* artifact that attaches it.                                              *)
Linked(d, a, target, p) ==
    LET e == Put(d, a, p)
        r == RidOf(e, a)
        f == IF p THEN Waiting(e, r, RidOf(e, FileOf[a])) ELSE Announced(e, r)
    IN  Recorded([f EXCEPT !.attachment = @ \cup {<<r, target>>}], r)

LEMMA LinkedTouches ==
    ASSUME AlertsAssumption, NEW d, Good(d), NEW a \in Attachments, NEW t \in Artifact,
           NEW p \in BOOLEAN, \A q \in Rid : d.blob[q] # a,
           NEW file \in Rid, d.blob[file] = FileOf[a], FileOf[a] \in Files,
           NEW r \in Rid, r = NewRid(d), NEW h, h = Linked(d, a, t, p)
    PROVE  Touches(d, h, r) /\ h.blob = [d.blob EXCEPT ![r] = a] /\ d.blob[r] = None
<1>1. /\ a \in Artifact /\ a # None /\ a \in Notified /\ a \notin Remote
      /\ FileOf[a] \in Artifact /\ FileOf[a] # a /\ FileOf[a] # None
  BY KindsApart
<1>2. RidOf(d, a) = 0 /\ d.blob[r] = None /\ r \notin d.phantom /\ r \notin d.event
  BY <1>1, NewRidIsFree, RidOfRow, KindsApart DEF Good, Kinds
<1>e. PICK e : e = Put(d, a, p)
  OBVIOUS
<1>3. /\ e \in Tables /\ e.blob = [d.blob EXCEPT ![r] = a] /\ e.phantom = d.phantom \ {r}
      /\ e.private = IF p THEN d.private \cup {r} ELSE d.private
      /\ e.event = d.event /\ e.modreq = d.modreq
      /\ e.attachment = d.attachment /\ e.alert = d.alert
  <2>1. RowFor(d, a, r)
    BY <1>2 DEF RowFor
  <2>2. PutIs(d, a, p, r, e)
    BY <1>1, <1>e, <2>1, PutFields
  <2> QED BY <2>2 DEF PutIs
<1>4. d.blob \in [Rid -> Artifact \cup {None}] /\ file # r
  BY <1>1, <1>2, GoodTypes
<1>5. RidOf(e, a) = r
  BY <1>1, <1>2, <1>3, <1>4, KindsApart DEF RidOf
<1>6. RidOf(e, FileOf[a]) = file
  <2>1. \A q \in Rid : e.blob[q] = FileOf[a] => q = file
    BY <1>1, <1>3, <1>4 DEF Good, OneRow, Used
  <2>2. e.blob[file] = FileOf[a]
    BY <1>3, <1>4
  <2> QED BY <2>1, <2>2 DEF RidOf
<1>f. PICK f : f = IF p THEN Waiting(e, r, file) ELSE Announced(e, r)
  OBVIOUS
<1>7. /\ f \in Tables /\ f.blob = e.blob /\ f.phantom = e.phantom /\ f.private = e.private
      /\ f.event = e.event /\ f.attachment = e.attachment /\ f.alert = e.alert
      /\ \A row \in f.modreq : row \in e.modreq \/ (p /\ row = <<r, file>>)
  <2>1. CASE p
    <3>1. f = Waiting(e, r, file) /\ e \in Tables
      BY <1>3, <1>f, <2>1
    <3> QED BY <2>1, <3>1, WaitingFields
  <2>2. CASE ~p
    <3>1. f = Announced(e, r) /\ e \in Tables
      BY <1>3, <1>f, <2>2
    <3> QED BY <3>1, AnnouncedFields
  <2> QED BY <2>1, <2>2
<1>g. PICK g : g = [f EXCEPT !.attachment = f.attachment \cup {<<r, t>>}]
  OBVIOUS
<1>8. /\ g \in Tables /\ g.blob = f.blob /\ g.phantom = f.phantom /\ g.private = f.private
      /\ g.event = f.event /\ g.attachment = f.attachment \cup {<<r, t>>}
      /\ g.alert = f.alert /\ g.modreq = f.modreq
  <2>1. f.attachment \cup {<<r, t>>} \in SUBSET (Rid \X Artifact)
    BY <1>7 DEF Tables
  <2> QED BY <1>7, <1>g, <2>1 DEF Tables
<1>9. h = Recorded(g, r)
  BY <1>e, <1>f, <1>g, <1>5, <1>6 DEF Linked
<1>10. /\ h \in Tables /\ h.blob = g.blob /\ h.phantom = g.phantom /\ h.private = g.private
       /\ h.event = g.event \cup {r} /\ h.modreq = g.modreq /\ h.attachment = g.attachment
       /\ \A q \in Rid \ {r} : h.alert[q] = g.alert[q]
  <2>1. g \in Tables
    BY <1>8
  <2> QED BY <1>9, <2>1, RecordedFields
<1>11. h.blob = [d.blob EXCEPT ![r] = a]
  BY <1>3, <1>7, <1>8, <1>10
<1>12. Touches(d, h, r)
  <2>1. Elsewhere(d, h, r)
    BY <1>3, <1>4, <1>7, <1>8, <1>10 DEF Elsewhere
  <2>2. \A row \in h.modreq : row \notin d.modreq => p /\ row[1] = r /\ row[2] = file
    BY <1>3, <1>7, <1>8, <1>10
  <2>3. /\ \A row \in h.attachment : row \in d.attachment \/ row[1] = r
        /\ h.phantom = d.phantom \ {r} /\ r \in h.event
        /\ (p => r \in h.private)
    BY <1>3, <1>7, <1>8, <1>10
  <2> QED BY <1>1, <1>2, <1>4, <1>11, <2>1, <2>2, <2>3 DEF Touches
<1> QED BY <1>2, <1>11, <1>12

LEMMA AttachKeeps ==
    ASSUME AlertsAssumption, IInv, NEW a \in Attachments, NEW needMod \in BOOLEAN,
           Attach(a, needMod)
    PROVE  IInv'
<1>1. /\ \A q \in Rid : db.blob[q] # a
      /\ a \in Artifact /\ a # None /\ a \in Notified
      /\ made' = made \cup {a} /\ a \notin made
      /\ made' \subseteq Post \cup Attachments /\ made' \subseteq cast
  BY MadeIsNew DEF Attach, Notified
<1> PICK file : file = FileOf[a]
  OBVIOUS
<1>2. /\ file \in Files /\ file \in Artifact /\ file # None /\ file # a
      /\ file \notin Post \cup Attachments \cup Remote
  BY <1>1, KindsApart DEF Files
<1>3. Attached[a] \in Artifact
  BY KindsApart DEF AlertsAssumption, Attachments
<1>4. Good(db) /\ NewRid(db) \in Rid /\ NewRid(db) + 1 \in Rid
  <2>1. Rid = 1 .. Cardinality(Rid) /\ Cardinality(Rid) \in Nat
    BY FS_CardinalityType DEF AlertsAssumption, ModerationAssumption
  <2>2. NewRid(db) \in Nat /\ NewRid(db) # 0 /\ NewRid(db) + 1 \in Rid
    <3>1. NewRid(db) = 1 \/ NewRid(db) - 1 \in Rid
      BY NewRidIsFree DEF IInv, Used
    <3> QED BY <2>1, <3>1, NewRidIsFree DEF IInv, Attach, HasRoom
  <2> HIDE DEF Attach
  <2> QED BY <2>1, <2>2 DEF IInv
<1>d. PICK d : d = Put(db, file, needMod)
  OBVIOUS
<1>h. PICK h : h = Linked(d, a, Attached[a], needMod)
  OBVIOUS
<1>5. Commit(h, {}) /\ anew' = anew
  BY <1>d, <1>h DEF Attach, AttachCommit, Linked
<1>6. CASE RidOf(db, file) # 0
  <2> PICK q \in Rid : q = RidOf(db, file) /\ db.blob[q] = file
    BY <1>2, <1>4, <1>6, RidOfRow
  <2>1. d = db
    BY <1>d, <1>2, <1>4, <1>6 DEF Put, Good, Kinds
  <2> PICK r \in Rid : r = NewRid(db)
    BY <1>4
  <2>2. Touches(db, h, r) /\ h.blob = [db.blob EXCEPT ![r] = a] /\ db.blob[r] = None
    BY <1>1, <1>2, <1>3, <1>4, <2>1, <1>h, LinkedTouches
  <2>3. Good(h) /\ Moves(db, h, {a})
    <3>1. Brought(db, h, r) = {a}
      BY <1>4, <2>2, GoodTypes DEF Brought
    <3> QED BY <1>4, <2>2, <3>1, TouchesIsGood
  <2>4. Known(h, made')
    BY <1>1, <1>4, <2>2, GoodTypes DEF IInv, Known
  <2>5. {a} \cap made = {}
    BY <1>1
  <2> QED BY <1>1, <1>5, <2>3, <2>4, <2>5, CommitKeeps
<1>7. CASE RidOf(db, file) = 0
  <2> PICK q \in Rid : q = NewRid(db)
    BY <1>4
  <2>1. /\ db.blob[q] = None /\ q \notin db.phantom /\ q \notin db.event
        /\ \A r \in Rid : db.blob[r] # file
    BY <1>2, <1>4, <1>7, NewRidIsFree, RidOfRow, KindsApart DEF Good, Kinds
  <2>2. /\ d \in Tables /\ d.blob = [db.blob EXCEPT ![q] = file] /\ d.phantom = db.phantom \ {q}
        /\ d.private = IF needMod THEN db.private \cup {q} ELSE db.private
        /\ d.event = db.event /\ d.modreq = db.modreq
        /\ d.attachment = db.attachment /\ d.alert = db.alert
    <3>1. RowFor(db, file, q)
      BY <1>7 DEF RowFor
    <3>2. PutIs(db, file, needMod, q, d)
      BY <1>d, <1>2, <1>4, <3>1, PutFields
    <3> QED BY <3>2 DEF PutIs
  <2>3. db.blob \in [Rid -> Artifact \cup {None}]
    BY <1>4, GoodTypes
  <2>4. Elsewhere(db, d, q)
    BY <2>2, <2>3 DEF Elsewhere
  <2>5. Touches(db, d, q) /\ d.blob[q] = file
    BY <1>2, <2>1, <2>2, <2>3, <2>4 DEF Touches
  <2>6. Good(d)
    BY <1>4, <2>5, TouchesIsGood
  <2>7. NewRid(d) = NewRid(db) + 1
    BY <1>2, <1>4, <2>2, <2>6, NextNewRid
  <2> PICK r \in Rid : r = NewRid(d)
    BY <1>4, <2>7
  <2>8. \A s \in Rid : d.blob[s] # a
    BY <1>1, <1>2, <2>2, <2>3
  <2>9. Touches(d, h, r) /\ h.blob = [d.blob EXCEPT ![r] = a] /\ d.blob[r] = None
    BY <1>2, <1>3, <2>5, <2>6, <2>8, <1>h, LinkedTouches
  <2>10. d.blob \in [Rid -> Artifact \cup {None}]
    BY <2>6, GoodTypes
  <2>11. h.blob[r] = a /\ q \notin d.phantom
    BY <2>2, <2>9, <2>10
  <2>12. Moves(db, h, {file, a})
    <3>1. BroughtTwo(d, h, q, r) = {file, a}
      BY <2>5, <2>11 DEF BroughtTwo
    <3>2. Good(db) /\ db.blob[q] = None /\ q \notin d.phantom /\ d.blob[r] = None
      BY <1>4, <2>1, <2>9, <2>11
    <3>3. Moves(db, h, BroughtTwo(d, h, q, r))
      BY <2>5, <2>9, <3>2, TouchesTwice
    <3> QED BY <3>1, <3>3
  <2>13. Good(h)
    BY <2>6, <2>9, TouchesIsGood
  <2>14. Known(h, made')
    <3>1. \A s \in Rid : h.blob[s] \in {a, file} \/ h.blob[s] = db.blob[s]
      BY <2>2, <2>3, <2>9, <2>10
    <3> QED BY <1>1, <1>2, <3>1 DEF IInv, Known
  <2>15. {file, a} \cap made = {}
    BY <1>1, <1>2 DEF IInv
  <2> QED BY <1>1, <1>5, <2>12, <2>13, <2>14, <2>15, CommitKeeps
<1> QED BY <1>6, <1>7

-----------------------------------------------------------------------------
(* What a moderator decides: rows of private artifacts go, others stay.    *)
Settles(d, e) ==
    /\ Good(e) /\ e.event \subseteq d.event /\ e.private \subseteq d.private
    /\ \A q \in Rid : e.blob[q] = d.blob[q] \/ (q \in d.private /\ e.blob[q] = None)
    /\ \A q \in d.event : e.blob[q] = d.blob[q] => q \in e.event
    /\ \A q \in Rid : e.alert[q] = d.alert[q]

LEMMA SettlesNothing == ASSUME NEW d, Good(d) PROVE Settles(d, d)
BY DEF Settles

LEMMA SettlesBoth ==
    ASSUME AlertsAssumption, NEW d, NEW e, NEW f, Good(d), Settles(d, e), Settles(e, f)
    PROVE  Settles(d, f)
<1>1. \A q \in d.event : d.blob[q] # None
  BY KindsApart, GoodTypes DEF Good, Kinds
<1>2. d.event \subseteq Rid
  BY GoodTypes
<1> QED BY <1>1, <1>2 DEF Settles

LEMMA SettlesMoves ==
    ASSUME NEW d, NEW e, Good(d), Settles(d, e)
    PROVE  Moves(d, e, {})
BY GoodTypes DEF Settles, Moves

LEMMA ApproveStep ==
    ASSUME AlertsAssumption, NEW d, Good(d), NEW r \in Rid, NEW f, f = Approve(d, r)
    PROVE  Settles(d, f)
<1>1. CASE ~IsPending(d, r)
  BY <1>1, SettlesNothing DEF Approve
<1>2. CASE IsPending(d, r)
  <2> DEFINE pr == d.private \ {r}
             req == {row \in d.modreq : row[1] # r}
  <2>1. PICK e : e = [d EXCEPT !.private = pr, !.modreq = req]
    OBVIOUS
  <2>2. f = Announced(e, r)
    BY <1>2, <2>1 DEF Approve
  <2>3. pr \in SUBSET Rid /\ req \in SUBSET (Rid \X (Rid \cup {0})) /\ d \in Tables
    BY GoodTypes DEF Good
  <2>4. /\ e \in Tables
        /\ e.blob = d.blob /\ e.phantom = d.phantom /\ e.private = pr
        /\ e.event = d.event /\ e.modreq = req
        /\ e.attachment = d.attachment /\ e.alert = d.alert
    <3> HIDE DEF pr, req
    <3> QED BY <2>1, <2>3 DEF Tables
  <2>5. /\ f \in Tables
        /\ f.blob = d.blob /\ f.phantom = d.phantom /\ f.private = pr
        /\ f.event = d.event /\ f.modreq = req
        /\ f.attachment = d.attachment /\ f.alert = d.alert
    BY <2>2, <2>4, AnnouncedFields
  <2>6. Good(f)
    BY <2>5 DEF Good, OneRow, Used, Kinds, Requests, Attaching
  <2> QED BY <2>5, <2>6 DEF Settles
<1> QED BY <1>1, <1>2

(* The rows of one record id go, which no other request names.             *)
LEMMA ErasedStep ==
    ASSUME AlertsAssumption, NEW d, Good(d), NEW r \in Rid, r \in d.private,
           \A row \in d.modreq : row[1] # r /\ row[2] # r,
           NEW f, f = Erased(d, r)
    PROVE  Settles(d, f)
<1> DEFINE bl == [d.blob EXCEPT ![r] = None]
           att == {row \in d.attachment : row[1] # r}
           ev == d.event \ {r}
           pr == d.private \ {r}
<1>1. f = [d EXCEPT !.blob = bl, !.event = ev, !.private = pr, !.attachment = att]
  BY DEF Erased, Good, Tables
<1>2. /\ bl \in [Rid -> Artifact \cup {None}] /\ ev \in SUBSET Rid /\ pr \in SUBSET Rid
      /\ att \in SUBSET (Rid \X Artifact) /\ d \in Tables
  BY GoodTypes DEF Good
<1>3. f \in Tables
  <2> HIDE DEF bl, att, ev, pr
  <2> QED BY <1>1, <1>2 DEF Tables
<1>4. /\ f.blob = bl /\ f.phantom = d.phantom /\ f.private = pr
      /\ f.event = ev /\ f.modreq = d.modreq
      /\ f.attachment = att /\ f.alert = d.alert
  <2> HIDE DEF bl, att, ev, pr
  <2> QED BY <1>1, <1>2 DEF Tables
<1>5. d.blob \in [Rid -> Artifact \cup {None}] /\ r \notin d.phantom /\ d.blob[r] # None
  BY GoodTypes, KindsApart DEF Good, Kinds
<1>6. \A q \in Rid : q # r => f.blob[q] = d.blob[q]
  BY <1>4, <1>5
<1>7. f.blob[r] = None
  BY <1>4, <1>5
<1>8. OneRow(f)
  BY <1>6, <1>7 DEF Good, OneRow, Used
<1>9. Kinds(f)
  <2>1. None \notin Remote
    BY KindsApart
  <2> QED BY <1>4, <1>5, <1>6, <1>7, <2>1 DEF Good, Kinds
<1>10. Requests(f)
  <2> SUFFICES ASSUME NEW row \in d.modreq
               PROVE  /\ f.blob[row[1]] \in Post \cup Attachments /\ row[1] \in f.private
                      /\ row[2] # 0 => f.blob[row[2]] \in Files
    BY <1>4 DEF Requests
  <2>1. row[1] \in Rid /\ row[2] \in Rid \cup {0} /\ row[1] # r /\ row[2] # r
    BY GoodTypes
  <2> QED BY <1>4, <1>6, <2>1 DEF Good, Requests
<1>11. Attaching(f)
  <2> SUFFICES ASSUME NEW row \in att PROVE f.blob[row[1]] # None
    BY <1>4 DEF Attaching
  <2>1. row[1] \in Rid /\ row[1] # r /\ row \in d.attachment
    BY GoodTypes
  <2> QED BY <1>6, <2>1 DEF Good, Attaching
<1>12. Good(f)
  BY <1>3, <1>8, <1>9, <1>10, <1>11 DEF Good
<1>13. d.event \subseteq Rid /\ ev \subseteq d.event /\ pr \subseteq d.private
  BY <1>2
<1>14. \A q \in d.event : f.blob[q] = d.blob[q] => q \in ev
  BY <1>5, <1>7
<1> HIDE DEF bl, att, ev, pr
<1> QED BY <1>4, <1>6, <1>7, <1>12, <1>13, <1>14 DEF Settles

LEMMA DisapproveStep ==
    ASSUME AlertsAssumption, NEW d, Good(d), NEW r \in Rid, NEW f, f = Disapprove(d, r)
    PROVE  Settles(d, f)
<1>1. CASE ~IsPending(d, r) \/ r \notin d.private
  BY <1>1, SettlesNothing DEF Disapprove
<1>2. CASE IsPending(d, r) /\ r \in d.private
  <2>1. PICK req : req = {row \in d.modreq : row[1] # r}
    OBVIOUS
  <2>2. PICK c : c = [d EXCEPT !.modreq = req]
    OBVIOUS
  <2>3. PICK e : e = Erased(c, r)
    OBVIOUS
  <2>4. [Erased(d, r) EXCEPT !.modreq = {row \in @ : row[1] # r}] = e
    BY <2>1, <2>2, <2>3 DEF Erased, Good, Tables
  <2>5. /\ c \in Tables
        /\ c.blob = d.blob /\ c.phantom = d.phantom /\ c.private = d.private
        /\ c.event = d.event /\ c.modreq = req
        /\ c.attachment = d.attachment /\ c.alert = d.alert
    <3>1. req \in SUBSET (Rid \X (Rid \cup {0})) /\ d \in Tables
      BY <2>1, GoodTypes DEF Good
    <3> QED BY <2>2, <3>1 DEF Tables
  <2>6. Good(c) /\ Settles(d, c)
    BY <2>1, <2>5 DEF Good, OneRow, Used, Kinds, Requests, Attaching, Settles
  <2>7. d.blob[r] \in Post \cup Attachments
    BY <1>2 DEF IsPending, Good, Requests
  <2>8. \A row \in c.modreq : row[1] # r /\ row[2] # r
    <3> TAKE row \in c.modreq
    <3>1. row \in d.modreq /\ row[1] # r
      BY <2>1, <2>5
    <3>2. row[2] # 0 => d.blob[row[2]] \in Files
      BY <3>1 DEF Good, Requests
    <3>3. r # 0
      BY KindsApart
    <3> QED BY <2>7, <3>1, <3>2, <3>3, KindsApart
  <2>9. Settles(c, e)
    BY <1>2, <2>3, <2>5, <2>6, <2>8, ErasedStep
  <2>10. Settles(d, e)
    BY <2>6, <2>9, SettlesBoth
  <2>11. PICK fid : fid = AttachRid(d, r)
    OBVIOUS
  <2>12. CASE fid = 0 \/ fid \notin e.private \/ InUse(e, fid)
    <3>1. f = e
      BY <1>2, <2>4, <2>11, <2>12 DEF Disapprove
    <3> QED BY <2>10, <3>1
  <2>13. CASE ~ (fid = 0 \/ fid \notin e.private \/ InUse(e, fid))
    <3>1. f = Erased(e, fid)
      BY <1>2, <2>4, <2>11, <2>13 DEF Disapprove
    <3>2. PICK row \in d.modreq : row[1] = r /\ fid = row[2]
      BY <1>2, <2>11 DEF AttachRid, IsPending
    <3>3. d.blob[fid] \in Files /\ fid \in Rid /\ Good(e) /\ fid \in e.private
      BY <2>10, <2>13, <3>2, GoodTypes DEF Good, Requests, Settles
    <3>4. e.blob[fid] \notin Post \cup Attachments
      BY <2>10, <3>3, KindsApart DEF Settles
    <3>5. \A q \in e.modreq : q[1] # fid /\ q[2] # fid
      BY <2>13, <3>3, <3>4 DEF InUse, Good, Requests
    <3>6. Settles(e, f)
      BY <3>1, <3>3, <3>5, ErasedStep
    <3> QED BY <2>10, <3>6, SettlesBoth
  <2> QED BY <2>12, <2>13
<1> QED BY <1>1, <1>2

(* A post is decided on with its attachments, one after the other.         *)
LEMMA ApprovePostStep ==
    ASSUME AlertsAssumption, NEW d, Good(d), NEW r \in Rid
    PROVE  Settles(d, ApprovePost(d, r))
<1> DEFINE c == Approve(d, r)
           T == PendingAttachments(c, r)
           X == {e \in Tables : Settles(d, e)}
           G == [p \in T \X X |-> Approve(p[2], p[1])]
           Turns(f) == [s \in SUBSET T |->
                         IF s = {} THEN c
                         ELSE Approve(f[s \ {CHOOSE x \in s : TRUE}], CHOOSE x \in s : TRUE)]
           iter == CHOOSE f : f = Turns(f)
<1>1. ApprovePost(d, r) = iter[T]
  BY DEF ApprovePost, FoldSet, MapThenFoldSet
<1>2. T \subseteq Rid /\ IsFiniteSet(T)
  <2>1. T \subseteq Rid
    BY DEF PendingAttachments
  <2> QED BY <2>1, KindsApart, FS_Subset
<1>3. c \in X
  <2>1. Settles(d, c)
    BY ApproveStep
  <2> QED BY <2>1 DEF Settles, Good
<1>4. ASSUME NEW x \in T, NEW e \in X PROVE Approve(e, x) \in X
  <2>0. x \in Rid
    BY <1>2
  <2>1. Settles(d, e) /\ Good(e)
    BY DEF Settles
  <2>2. Settles(e, Approve(e, x))
    BY <2>1, <2>0, ApproveStep
  <2>3. Settles(d, Approve(e, x))
    BY <2>1, <2>2, SettlesBoth
  <2> QED BY <2>3 DEF Settles, Good
<1> HIDE DEF T, c
<1>5. G \in [T \X X -> X]
  BY <1>4
<1>6. PICK f \in [SUBSET T -> X] : Folds(f, T, c, G)
  <2> HIDE DEF X, G
  <2> QED BY <1>2, <1>3, <1>5, FoldExists
<1>7. f = Turns(f)
  <2>1. \A s \in SUBSET T : f[s] = IF s = {} THEN c ELSE Approve(f[s \ {Pick(s)}], Pick(s))
    <3> SUFFICES ASSUME NEW s \in SUBSET T, s # {}
                 PROVE  f[s] = Approve(f[s \ {Pick(s)}], Pick(s))
      BY <1>6 DEF Folds
    <3>1. Pick(s) \in T /\ f[s \ {Pick(s)}] \in X
      BY <1>6, Picked
    <3>2. f[s] = G[<<Pick(s), f[s \ {Pick(s)}]>>]
      BY <1>6 DEF Folds
    <3> QED BY <3>1, <3>2
  <2> HIDE DEF X
  <2> QED BY <1>6, <2>1 DEF Pick
<1>8. iter = Turns(iter)
  <2> HIDE DEF Turns
  <2> QED BY <1>7
<1> HIDE DEF iter
<1>9. \A s \in SUBSET T : (s = {} \/ iter[s \ {Pick(s)}] \in X) => iter[s] \in X
  <2> SUFFICES ASSUME NEW s \in SUBSET T, s = {} \/ iter[s \ {Pick(s)}] \in X PROVE iter[s] \in X
    OBVIOUS
  <2>1. iter[s] = IF s = {} THEN c ELSE Approve(iter[s \ {Pick(s)}], Pick(s))
    BY <1>8 DEF Pick
  <2>2. CASE s = {}
    BY <1>3, <2>1, <2>2
  <2>3. CASE s # {}
    <3> PICK x \in T : x = Pick(s)
      BY <2>3, Picked
    <3> PICK e \in X : e = iter[s \ {Pick(s)}]
      BY <2>3
    <3>1. Approve(e, x) \in X
      BY <1>4
    <3> QED BY <2>1, <2>3, <3>1
  <2> QED BY <2>2, <2>3
<1>10. iter[T] \in X
  <2> HIDE DEF X
  <2> QED BY <1>2, <1>9, FoldRange
<1> QED BY <1>1, <1>10

LEMMA DisapprovePostStep ==
    ASSUME AlertsAssumption, NEW d, Good(d), NEW r \in Rid
    PROVE  Settles(d, DisapprovePost(d, r))
<1> DEFINE c == Disapprove(d, r)
           T == PendingAttachments(c, r)
           X == {e \in Tables : Settles(d, e)}
           G == [p \in T \X X |-> Disapprove(p[2], p[1])]
           Turns(f) == [s \in SUBSET T |->
                         IF s = {} THEN c
                         ELSE Disapprove(f[s \ {CHOOSE x \in s : TRUE}], CHOOSE x \in s : TRUE)]
           iter == CHOOSE f : f = Turns(f)
<1>1. DisapprovePost(d, r) = iter[T]
  BY DEF DisapprovePost, FoldSet, MapThenFoldSet
<1>2. T \subseteq Rid /\ IsFiniteSet(T)
  <2>1. T \subseteq Rid
    BY DEF PendingAttachments
  <2> QED BY <2>1, KindsApart, FS_Subset
<1>3. c \in X
  <2>1. Settles(d, c)
    BY DisapproveStep
  <2> QED BY <2>1 DEF Settles, Good
<1>4. ASSUME NEW x \in T, NEW e \in X PROVE Disapprove(e, x) \in X
  <2>0. x \in Rid
    BY <1>2
  <2>1. Settles(d, e) /\ Good(e)
    BY DEF Settles
  <2>2. Settles(e, Disapprove(e, x))
    BY <2>1, <2>0, DisapproveStep
  <2>3. Settles(d, Disapprove(e, x))
    BY <2>1, <2>2, SettlesBoth
  <2> QED BY <2>3 DEF Settles, Good
<1> HIDE DEF T, c
<1>5. G \in [T \X X -> X]
  BY <1>4
<1>6. PICK f \in [SUBSET T -> X] : Folds(f, T, c, G)
  <2> HIDE DEF X, G
  <2> QED BY <1>2, <1>3, <1>5, FoldExists
<1>7. f = Turns(f)
  <2>1. \A s \in SUBSET T : f[s] = IF s = {} THEN c ELSE Disapprove(f[s \ {Pick(s)}], Pick(s))
    <3> SUFFICES ASSUME NEW s \in SUBSET T, s # {}
                 PROVE  f[s] = Disapprove(f[s \ {Pick(s)}], Pick(s))
      BY <1>6 DEF Folds
    <3>1. Pick(s) \in T /\ f[s \ {Pick(s)}] \in X
      BY <1>6, Picked
    <3>2. f[s] = G[<<Pick(s), f[s \ {Pick(s)}]>>]
      BY <1>6 DEF Folds
    <3> QED BY <3>1, <3>2
  <2> HIDE DEF X
  <2> QED BY <1>6, <2>1 DEF Pick
<1>8. iter = Turns(iter)
  <2> HIDE DEF Turns
  <2> QED BY <1>7
<1> HIDE DEF iter
<1>9. \A s \in SUBSET T : (s = {} \/ iter[s \ {Pick(s)}] \in X) => iter[s] \in X
  <2> SUFFICES ASSUME NEW s \in SUBSET T, s = {} \/ iter[s \ {Pick(s)}] \in X PROVE iter[s] \in X
    OBVIOUS
  <2>1. iter[s] = IF s = {} THEN c ELSE Disapprove(iter[s \ {Pick(s)}], Pick(s))
    BY <1>8 DEF Pick
  <2>2. CASE s = {}
    BY <1>3, <2>1, <2>2
  <2>3. CASE s # {}
    <3> PICK x \in T : x = Pick(s)
      BY <2>3, Picked
    <3> PICK e \in X : e = iter[s \ {Pick(s)}]
      BY <2>3
    <3>1. Disapprove(e, x) \in X
      BY <1>4
    <3> QED BY <2>1, <2>3, <3>1
  <2> QED BY <2>2, <2>3
<1>10. iter[T] \in X
  <2> HIDE DEF X
  <2> QED BY <1>2, <1>9, FoldRange
<1> QED BY <1>1, <1>10

LEMMA DecideKeeps ==
    ASSUME AlertsAssumption, IInv, NEW a \in Post \cup Attachments, Decide(a)
    PROVE  IInv'
<1>1. Good(db) /\ a \in Artifact /\ made' = made
  BY KindsApart DEF IInv, Decide
<1> PICK r \in Rid : r = RidOf(db, a)
  BY <1>1, RidOfRow DEF Decide
<1>2. PICK d : /\ d \in {Approve(db, r), ApprovePost(db, r), Disapprove(db, r), DisapprovePost(db, r)}
               /\ Commit(d, {})
  BY DEF Decide, ApproveOne, RejectOne
<1>3. Settles(db, d)
  BY <1>1, <1>2, ApproveStep, ApprovePostStep, DisapproveStep, DisapprovePostStep
<1>4. Good(d) /\ Moves(db, d, {})
  BY <1>1, <1>3, SettlesMoves DEF Settles
<1>5. Known(d, made')
  BY <1>1, <1>3, KindsApart DEF IInv, Known, Settles
<1>6. made' \subseteq Post \cup Attachments /\ made' \subseteq cast /\ anew' = anew
  BY <1>1 DEF IInv, AlertsTypeOK, Commit, Decide
<1> QED BY <1>1, <1>2, <1>4, <1>5, <1>6, CommitKeeps

-----------------------------------------------------------------------------
LEMMA IInvInit == ASSUME AlertsAssumption, AlertsInit PROVE IInv
<1>1. /\ db = EmptyTables /\ task = "idle" /\ want = {} /\ list = {} /\ todo = {} /\ daily = FALSE
      /\ newDay \in BOOLEAN /\ cast \in Casts
      /\ mail = {} /\ anew = {} /\ again = {} /\ made = {} /\ excused = {} /\ shown = {} /\ crashes = 0
  BY DEF AlertsInit, Idle
<1>2. /\ db \in Tables /\ db.phantom = {} /\ db.private = {} /\ db.event = {}
      /\ db.modreq = {} /\ db.attachment = {} /\ \A r \in Rid : db.blob[r] = None
  BY <1>1 DEF EmptyTables, Tables, NoAlert
<1>3. Good(db) /\ Known(db, made) /\ RowsAreOfArtifacts(db) /\ Public(db) = {}
  BY <1>2, KindsApart DEF Good, OneRow, Used, Kinds, Requests, Attaching, Known,
                          RowsAreOfArtifacts, Public
<1>4. AlertsTypeOK
  <2>1. db \in Tables /\ RowsAreOfArtifacts(db)
    BY <1>2, <1>3
  <2>2. crashes \in 0 .. MaxCrashes
    BY <1>1 DEF AlertsAssumption
  <2>3. task \in Tasks /\ daily \in BOOLEAN /\ newDay \in BOOLEAN /\ cast \in Casts
    BY <1>1 DEF Tasks
  <2>4. /\ want \subseteq Rid \X BOOLEAN /\ list \subseteq Notified \X BOOLEAN
        /\ todo \subseteq Subscriber /\ mail \subseteq Letter /\ again \subseteq mail
        /\ anew \subseteq mail
        /\ made \subseteq cast /\ excused \subseteq Notified /\ shown \subseteq Artifact
    BY <1>1
  <2> QED BY <2>1, <2>2, <2>3, <2>4 DEF AlertsTypeOK
<1> QED BY <1>1, <1>3, <1>4 DEF IInv, MailRight, WantRight, ListRight

LEMMA IInvNext == ASSUME AlertsAssumption, IInv, [AlertsNext]_alertsVars PROVE IInv'
<1>1. CASE UNCHANGED alertsVars
  BY <1>1 DEF alertsVars, IInv, AlertsTypeOK, Good, OneRow, Used, Kinds, Requests, Attaching, Known, Public,
              MailRight, WantRight, ListRight, Seen, Open, Readers, Marked, Sent
<1>2. ASSUME NEW a \in Post, NEW needMod \in BOOLEAN, NEW silent \in BOOLEAN,
             NewPost(a, needMod, silent)
      PROVE  IInv'
  BY <1>2, NewPostKeeps
<1>3. ASSUME NEW a \in Attachments, NEW needMod \in BOOLEAN, Attach(a, needMod) PROVE IInv'
  BY <1>3, AttachKeeps
<1>4. ASSUME NEW a \in Post \cup Attachments, Decide(a) PROVE IInv'
  BY <1>4, DecideKeeps
<1>5. ASSUME NEW a \in Remote, Announce(a) \/ ReceiveArtifact(a), made' = made PROVE IInv'
  BY <1>5, AnnounceKeeps, ReceiveNewKeeps, ReceiveAgainKeeps
<1>6. CASE Step \/ Crash
  BY <1>6, SenderKeeps
<1>7. CASE NewDay
  BY <1>7, NewDayKeeps
<1>8. ASSUME NEW a \in Remote, Announce(a) \/ ReceiveArtifact(a) PROVE made' = made
  BY <1>8 DEF Announce, ReceiveArtifact
<1> QED BY <1>1, <1>2, <1>3, <1>4, <1>5, <1>6, <1>7, <1>8 DEF AlertsNext

(* The strengthened invariant holds in every behaviour of the backoffice,   *)
(* the moderators and the people who post.                                  *)
THEOREM Invariance == ASSUME AlertsAssumption PROVE AlertsSpec => []IInv
<1>1. AlertsInit => IInv
  BY IInvInit
<1>2. IInv /\ [AlertsNext]_alertsVars => IInv'
  BY IInvNext
<1> QED BY <1>1, <1>2, PTL DEF AlertsSpec

(* Whatever is posted, decided and received, every table and every         *)
(* variable of alert_send_alerts() keeps its type, and the rows of the     *)
(* timeline, of the requests and of the attachments are about artifacts.   *)
THEOREM AlertsTyped == ASSUME AlertsAssumption PROVE AlertsSpec => []AlertsTypeOK
<1>1. IInv => AlertsTypeOK
  BY DEF IInv
<1> QED BY <1>1, Invariance, PTL

(* "a crash will not cause alerts to be sent multiple times"               *)
(* (alerts.c:3124): wherever the backoffice is killed, nobody gets the     *)
(* same letter twice, unless its artifact has come again after all had     *)
(* been told, and then once more for each time that it has.                *)
THEOREM NoLetterTwice == ASSUME AlertsAssumption PROVE AlertsSpec => []MailedOnce
<1>1. IInv => MailedOnce
  BY DEF IInv, MailedOnce
<1> QED BY <1>1, Invariance, PTL

(* Only moderators are told of a post that never was public (alerts.c:3030)*)
(* whatever is decided while the letters are made; what has taken over the *)
(* record id of a rejected post is excepted.                               *)
THEOREM OutsidersLearnNothing == ASSUME AlertsAssumption PROVE AlertsSpec => []OutsidersSeeApproved
<1>1. IInv => OutsidersSeeApproved
  BY DEF IInv, MailRight, Open, OutsidersSeeApproved
<1> QED BY <1>1, Invariance, PTL
=============================================================================
