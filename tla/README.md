# A TLA+ verification of fossil's repository core

This directory holds TLA+ specifications of the parts of fossil in which
correctness depends on the order of events: artifacts that arrive in any
sequence, processes that share one repository file, clients that share one
server, processes that die half way.  TLC checks the specifications on small
instances; the TLA+ proof system checks the theorems for every value of the
constants.  `PROJECT.json` lists components, runs, the code lines behind each
definition, hazards and theorems.  File names below are relative to `src/src/`,
documentation to `src/doc/web/`.

    tlc -workers 2 -config MCSync.cfg MCSync     # one run
    tlapm BackofficeProofs.tla                   # the proofs of a module

## 1. Inventory

A fossil repository is one SQLite file.  Its permanent content is an unordered
set of *artifacts* named by their hash; nearly all other tables can be derived
from them.  The program runs as many short processes (commands, one per web
request, forked background processes) that meet only in that file, and over
HTTP with other repositories.

| Component | State | Operations | What makes it hard |
|---|---|---|---|
| **Artifact store** `content.c`, `verify.c` | tables blob, delta, phantom, private, unclustered, orphan; per process the bags *missing*, *available*, *toVerify* | content_put_ex, content_new, content_get, content_deltify, content_undelta, make_public/private, after_dephantomize, verify_at_commit | deltas before their sources, manifests before their baselines, caches that outlive transactions, kills, re-deltification |
| **Manifest crosslinking** `manifest.c` | plink, mlink, event, tagxref, orphan | manifest_crosslink and helpers for each artifact kind | artifacts in any order must give the same tables |
| **Tags and leaves** `tag.c`, `leaf.c` | tagxref, leaf, bag needToCheck | tag_insert, tag_propagate(_all), leaf_eventually_check, leaf_do_pending_checks | out-of-order tags, deferred maintenance of a derived table |
| **Sync protocol** `xfer.c`, `sync.c` | unclustered, unsent, phantom on both sides; the session of client_sync() | file, igot, gimme cards, clusters, further round trips | lost exchanges, message limits, several clients, termination |
| **Backoffice lease** `backoffice.c` | one config row, processes | check, fork, thread loop, `--nodelay`, `--nolease`, reset | mutual exclusion by leases and pids, stale clock samples |
| **Integer bag** `bag.c` | open-addressing table | insert, remove, find, first/next, resize | deleted marks, counters, probe termination |
| **Database layer** `db.c` | nesting depth, rollback flag, commit hooks, before-commit statements, protection stack | begin, begin_write, end, panic, close, protect/unprotect | nested rollback, lock upgrades, in-memory state that outlives a rollback |
| **Chat** `chat.c`, `alerts.c` | table chat, temp triggers and queue | events relayed at commit, polling | relaying in the transaction that makes the event |
| **Unversioned files** `unversioned.c`, `xfer.c` | table unversioned, cached uv-hash, uv_tosend | edit, uvigot, uvgimme, uvfile | last writer wins, stale catalog, failure between delete and receipt |
| **Check-in locks** `xfer.c`, `checkin.c` | config rows ci-lock-* | ci-lock, ci-unlock, commit | expiry during a commit, several rounds, several clients |
| **Clone** `clone.c` | clone sequence number | clone cards, repeated rounds | restart, private content |
| **Check-out** `checkin.c`, `update.c`, `checkout.c`, `merge.c`, `undo.c`, `stash.c` | vfile, vmerge, undo, stash tables and the files on disk | update, checkout, merge, revert, undo, redo, stash | database and file system change in separate steps, any of which may be the last |
| **Merge, delta, diff** `merge3.c`, `diff.c`, `delta.c`, `pqueue.c` | none | text_diff(), merge_three_blobs(), delta_create(), delta_apply() | pure functions that everything stored or merged goes through; the ends of texts and edits |
| **Shun, purge, rebuild** `purge.c`, `shun.c`, `rebuild.c`, `bundle.c` | tables shun, purgeevent, purgeitem; blob, delta | purge, undo, obliterate, bundle purge, shun, rebuild | deltas based on what is removed, record ids that are used again |
| **Moderation** `moderate.c`, `wiki.c`, `forum.c` | modreq, private | post, approve, disapprove | removes an artifact, whose record id is given to another |
| **E-mail alerts** `alerts.c` | pending_alert, temp.wantalert, email-last-digest | trigger, alert_send_alerts() | not one transaction; kills; moderators decide meanwhile |
| **Hooks** `hook.c` | hook-last-rcvid, hook-embargo, setting hooks | hook_backoffice(), hook_expecting_more_artifacts() | embargoes, kills after the hook has run |
| **Web cache** `cache.c` | database and files of rendered pages | read, write, evict, delete | several processes without a common lock |
| **Users, configuration, tickets, wiki, forum, JSON, web pages, scripting, agents, import/export** | config, user, ticket, ... | one request each | mostly sequential |

How the parts interact: `xfer.c` receives an artifact, hands it to
content_put_ex() and then to manifest_crosslink(), which calls `tag.c`, `leaf.c`
and content_deltify(); everything runs inside the nested transactions of `db.c`,
whose outermost commit calls leaf_do_pending_checks() and the hook
verify_at_commit().  `content.c`, `verify.c` and `leaf.c` keep their pending sets
in bags of `bag.c`.  Web processes fork the backoffice, which inherits their
memory, sends alerts and runs hooks.  A commit calls the sync before and after
itself, with the pragmas of the check-in locks.  `update`, `merge` and `stash`
call `undo.c` before they write a file, and db_end_transaction() after the last.

What makes each part correct, in a sentence:

* store: content that could be read can be read for ever, every readable
  manifest is crosslinked, caches never contradict the tables;
* tags, leaves: the derived tables are a function of the artifacts received;
* sync: a finished sync is complete, ends, and repositories converge;
* backoffice: one run at a time, spaced by the lease, and every request is served;
* bag: it is a set;
* transactions: all of a transaction is committed, verified, or none of it, nested
  or not, and what it leaves in memory harms no later one;
* unversioned: the newest version of each file wins everywhere;
* check-in locks: no fork by accident, and every user gets to commit;
* check-out: undo restores, a failure changes nothing, and no command loses the
  user's edits;
* moderation, alerts, hooks: what is not approved stays inside, nobody is told
  twice for one receipt or never, a rejection leaves no trace;
* purge: what was not purged for good can be had back, and what stays can be read;
* merge: no change of either side is lost, and where both changed the same lines differently there is a
  conflict; delta: it gives back its target.

## 2. Modules

| Module | Models | Notes |
|---|---|---|
| `Backoffice` | `backoffice.c`: lease, processes, clock | `BackofficeProofs` holds its theorems |
| `ContentStore` | one process on the tables: the functions of `content.c` and the baseline, parent and orphan parts of `manifest.c` as operators on a context `[db, bag]` | pure; no variables; `ContentProofs` has lemmas for each operator |
| `Content` | several processes with transactions over `ContentStore`: receipts, igot cards, re-deltification, publish, reads, commit with verification, kill | `ContentProofs` holds its theorems |
| `IntSet`, `IntBag` | `IntSet` is what a bag promises, `IntBag` the hash table of `bag.c`; refinement by `members <- Live(a)` | `RepositoryProofs` holds the theorems, the refinement among them |
| `Tags` | `tag.c` and `leaf.c` for the branch tag, with commit and kill | `RepositoryProofs` holds its theorems |
| `AtomicStore`, `Transaction` | `AtomicStore` is what a transaction promises; `Transaction` the nesting, hooks, locks and memory of `db.c`, `verify.c`, `leaf.c` and the chat hook | `RepositoryProofs` holds the theorems, the refinement among them |
| `Sync` | the round trips of client_sync() and page_xfer() for public artifacts | `SyncProofs` holds its theorems |
| `CheckinLock` | `fossil commit` with its auto-syncs and the ci-lock pragmas | `CheckinLockProofs` holds its theorems |
| `Unversioned` | edits and syncs of unversioned files | |
| `Undo` | the commands that change a check-out, failing and killed at each file | `UndoProofs` holds its theorems |
| `Moderation` | `moderate.c` and what posting and receiving do to the tables it changes, as operators on a record `db` | pure; no variables |
| `Alerts` | alert_send_alerts() statement by statement, over `Moderation` | `AlertsProofs` holds its theorems, and lemmas for each operator of `Moderation` |
| `Purge` | `purge.c`, `bundle purge`, shunning and the removing part of rebuild, over rows of blob and delta | |
| `Hooks` | `hook.c`: watermark, embargo, after-receive hooks | |
| `Diff` | text_diff() of `diff.c`, with its heuristics and diff_optimize() | pure; no variables |
| `Merge3` | merge_three_blobs() of `merge3.c`, over `Diff` | |
| `Delta` | delta_create() and delta_apply() | `BackofficeProofs` holds its theorems, behind those of the lease |
| `FiniteLemmas` | no code | least and greatest elements and folds over finite sets, for the proofs |
| `MC...` | instances | |

Five of the instances check several independent modules in one run: the initial state
chooses the `part`, and the state space is the disjoint union of the parts'.
`MCRepository` extends Transaction, Tags, IntBag and Undo;
`MCStore` extends Content, in the instance of `MCContent`, and has Purge;
`MCServer` extends CheckinLock and Alerts, in the instance of `MCAlerts`, and has Hooks;
`MCBackoffice` extends Backoffice and Delta and has Merge3; `MCSync` extends Sync and has
Unversioned.  A module that is extended has its own variables, which rest in
the other parts; each of the others keeps its state in variables of the instance (in
`MCServer` under their names, elsewhere in as many of x1, x2, ... as it has).  TypeOK of such a run is that of the module that is extended (in `MCRepository` that of Transaction); the
types of the other parts are conjuncts of one property of each (in `MCServer` those of Alerts
and of Hooks, of ReceiptsAreHeard; that of Delta is not checked but proved).
`MCBackofficeLive` has two instances of `Backoffice`.  `ContentStore`, `Content`;
`Moderation`, `Alerts`; and `Diff`, `Merge3` are layered: the operators of the first are the statements of the second.

### Backoffice
`lease` is the row of table config; `pc[p]` where process p is in
backoffice_thread(); `age[p]` how long ago it sampled `tmNow`, which the code
does *before* it waits for the write lock (backoffice.c:485), and so the model
separates SampleClock from the decision.  NotNeeded, BeginWork, NoDelayExit and
GoOnDeck are the branches of the loop, each one transaction.  Lease times are
kept relative to the clock, so that Tick keeps the state finite without a bound
on time; times older than any sample are one value, LongAgo.  pids may be
reused (also by processes outside of fossil) and processes may run as different
accounts, for which kill(pid,0) fails.  `OperatedSpec` adds the reset of the
lease by a test command, which is documented to break the mutual exclusion
(backoffice.c:366).

### ContentStore, Content
A record `db` stands for the tables: `src[a]` is the delta source in table delta,
`phantom`, `private`, `unclustered` and `orphan` the tables of these names,
`linked` the manifests that manifest_crosslink() has processed, `bad` the artifacts of which
what can be extracted (or could be, if the missing end of the delta chain were there and right) is not
what their hash says.  Content itself is abstracted to absent, right or wrong, and a wrong text is no
manifest, since its Z-card does not fit.  Every operator is a function from context to context
in the order of the code's statements, the trailing after_dephantomize() and
crosslinking included.  The delta chain of an artifact (`Chain`) is the least set
closed under `src`, and the loops of content_is_available() and content_get()
that follow it are modelled by where they stop: at its end (`Base`), or where they first meet
a bag or a table that knows the answer (`FirstMet`).  A chain that is a loop has no end;
what is on one counts as unreadable and unavailable, where the code ends the process
with a panic (content.c:184, 281), which the model has as a kill at any time.  `worth` is the set of pairs for which a delta pays
(content_deltify() keeps a delta only if it is small enough): both extremes are
explored.  `Content` gives each process its bags, which survive its
transactions; `repo` is what is committed, `work` what the writer sees.  A
`Setup` of the instance chooses what is shunned, whether private content is in
use, what peers send (`sent`), for which of it the bytes may be wrong (`faulty`), and who works
(`active`).  A wrong full text, or a delta whose result has the wrong hash, is stored all the same;
`err` notes the error, after which the rest of the message is not read, and the commit
that reads it back panics.  A wrong delta of something missing is stored without any check.  `wrong` and
`unread` are history variables: what was stored as wrong bytes, and what was committed
without being readable and is not both readable and right since.  `early` is a history variable: a
manifest that was stored as a delta of something missing came again and was crosslinked
from the message (`LinksEarly`; section 5 says why ReadableIsLinked excepts this).

### IntBag
The slots `a`, `cnt` and `used` are the fields of struct Bag.  The probing loops
are modelled by where they stop: the slot of least distance from the hash slot
that satisfies the loop's exit condition; `ProbesEnd` says that there is one.
`reply` is the answer of the last call, which the refinement compares with
`IntSet`.  The hash is computed in 64 bits (bag.c:79), so integers are mathematical; only a
table whose size does not fit into an int is outside of the model.

### Tags
`tagxref` has one row per check-in for the one tag name on which leaves depend.
A transaction is a sequence of receipts; `needToCheck` is the bag of pending leaf
checks; DoPendingChecks is the commit, with leaf_do_pending_checks(), and Die the end of a
process.  `Reference` computes the same
table from the artifacts alone, and is not used by the actions.  `early` records which
check-ins were tagged by a control artifact before they came: of their parents
LeafTableExact promises nothing (section 5), nor of a check-in that is not `IsSettled`
because it or a child has no branch yet.

### Transaction, AtomicStore
`db[p]` holds nBegin, doRollback and whether the transaction has changed anything
or began with a write; `mem[p]` what lives in static variables beside it: toVerify,
needToCheck and the flag of the event triggers.  They outlive a rollback, and the
backoffice that a page becomes in Close inherits them.  BeginTransaction, BeginWrite
(which only warns inside a read transaction), EndTransaction with its three
outcomes, Busy, Kill and Close are the operations; a commit runs the pending leaf
checks, the chat hook and the verification, in the code's order.  A record id is a
number that is free again after a rollback.  The refinement maps `store` to the
committed artifacts, `todo` to what the writer has gathered, `broken` to what
cannot be read back and `refused` to doRollback.

### Sync
`store[r]` has the artifacts with content, the phantoms and the tables
unclustered and unsent of repository r.  A round trip is three steps: Request
(the first half of the loop body of client_sync(), up to http_exchange()), Serve
(page_xfer(), one transaction) and HandleReply (the rest of the loop body with
the decision `go`).  An artifact is a pair of its kind and its content, and the
content of a cluster is the set of the artifacts that it lists, so that the same
cluster made in two places is the same artifact, as it is in fossil.  Fitting
chooses which of several files still fit into a message; the rest are announced
(send_file() writes an igot card instead), and UpTo which phantoms a request asks
for: request_phantoms() takes the first 200 (mxPhantomReq of the client, or twice
the files of the last round) or 500 (server) by record id, an order that the model leaves
open.  Fail is a lost request (before
Serve) or reply (after it): the client commits its half, including the emptied
table unsent.  Kill rolls it back.  A slow server reaches max-download-time.

### CheckinLock
A check-in is the sequence of its parent and its author.  `Begin` starts a sync by
its reason: the auto-pull before a commit ("first"), the one after the comment was
edited ("second"), the "push", or an "update".  Serve is page_xfer(): the pragma of
the request (ci-lock in the first request of the first or second auto-pull,
ci-unlock in all others), the files pushed, the reply with ci-lock-fail.  Receive is
the client's half, with a second round for phantoms.  Fail, Timeout and Kill are
the faults.  `lost` records that the lock went away under a commit, by a fault
or because the client's second round gave it back.

### Unversioned
`uv[r]` is table unversioned, a deleted file being a row of hash 0; `cache[r]` is
uv-hash; `sess[c]` the state of client_sync().  The first round compares digests,
the server's catalog comes with its reply, HandleReply compares each row by
mtime and hash as unversioned_status() does and queues gimmes, files and
mtime-only cards for the next round, one transaction per round on each side.  A full
message keeps a file back for the next round.  Fail, as in Sync, loses the request or the
reply; a revert drops the local row first.

### Undo
`disk` is the content of each path, a text of the repository with the user's
edits; `db` the check-out database in the open transaction and `saved` as
committed.  A command plans what it does to each path (`cmd.todo`), then Step writes
one file after another, putting the old content into the undo log first where the
code does; Finish ends the transaction; Fail (an error) restores the files from the
log and rolls back; Kill only rolls back.  A merge keeps the edits of both sides.
`marks` are the check-outs before and after the last undoable command.
Three commands are in `Excused` because the code makes no promise about their
undo: *goto* (stash.c:561), a second merge in one command (merge.c:1055), *overwrite*
(an update that adds over an unmanaged file, update.c:453).

### Purge
`row` is tables blob and delta by record id: whose row it is, whether it holds the full
text or a delta (and of which text), and `src`, the row that the delta is applied to;
Text follows the deltas as content_get() does.  `grave` is table purgeitem, whose items
name their basis by `srcid` and whose events are numbers.  A rid, a piid and a peid is one
more than the largest in use, as SQLite gives them.  Store, Announce and ReceiveDelta
are the ways content comes (or comes back), Deltify re-encodes it, Purge is
purge_artifact_list() with its two passes over the deltas across the cut, Undo
the recursion of purge_item_resurrect(), Rebuild is shun_artifacts(); each is one
transaction that either happens or fails as a whole.  `owed` are the artifacts the repository has had and was not
told to forget; `doubtful` those the code is known to lose (section 5): deltas received
before their source, and items whose basis was found in another event; `stray` marks
the deltas that a rebuild has left with a freed source id.

### Moderation, Alerts
Rows are under record ids, and an id that a rejection frees goes to the next new
row, as SQLite does with blob.rid.  Post, Decide and ReceiveArtifact are transactions of
others; Step is the backoffice in alert_send_alerts(): select into temp.wantalert,
compose, mark as sent, send, delete, each a step of its own; Mark comes before Send
("step 4a"), so that a kill between them loses a mail rather than repeats it.
`excused` are artifacts about which the code promises nothing: those that inherit a
row of a rejected one, posts made without an alert, mails lost by a kill.
ReceiveArtifact takes what is absent, a phantom or held already (xfer.c:214-221): the last
is crosslinked again, and if its row of pending_alert has been deleted it gets a new one.
The letters that this makes due again are in `anew`, until they are sent; `again` are those sent
twice without that.  Only artifacts of peers come again: nobody is asked for a post made here.

### Hooks
`received` holds the times of table rcvfrom, `watermark` is hook-last-rcvid,
`embargo` hook-embargo.  Run is hook_backoffice(), Killed the same without its
commit.  `excused` are receipts that no hook need hear of: those older than a day
when hooks run, those that come when no hook is active, and the first after a day of
quiet, which the code leaves out by one (section 5).

### Diff, Merge3, Delta
A text is a sequence of lines, of which Diff knows the bytes (`Width`, for
diff_optimize()), the line without its white space (`Core`) and whether it has more than
one character (`Wide`, for the test of indentation changes).  TextDiff follows
text_diff(): common ends, the heuristic search by last occurrences, the exact
search where that finds nothing, the merging of triples, and the shifting of
insertions and deletions.  Merge3 then has in `c1` and `c2` what is left of the two edits
and in `text` what the cursors of the three blobs have before them; Same, ChngV1,
ChngV2, ChngBoth and Conflict are the branches of the loop, Finish what follows
it, and `out` the calls to the MergeBuilder with the lines they were given.  Delta scans
the target with the window at `base + i` and follows the chain of landmarks of its slot;
WriteCopy, Slide and WriteRest are the ways a turn of the loop ends.  Apply then takes the
source, or another text, and DoCommand and End are the cases of delta_apply().

## 3. Runs

| Run | Instance | Shows |
|---|---|---|
| `backoffice` | *Backoffice*: 3 processes, 1 account, lease 3, lock delay up to 2, crashes, pid reuse, foreign processes, operators' commands; *Merge3*: some 44000 merges of three texts; *Delta*: all deltas of short texts | AtMostOneWorker, SpacedByLeaseLessDelay; EditsTransform, MergeKeepsChanges; DeltaRestores |
| `backoffice_live` | "deck": without crashes and reuse, prompt scheduling; "served": with `--nodelay`, `--nolease`, resets | OnDeckLeavesDeck: a stand-by does not stay one for ever; RequestsAreServed: a run starts after each request |
| `content` | a check-in, its child, a delta-manifest of the child; one process with restarts, plain, with a private and a shunned artifact, and with wrong bytes for an artifact that arrives in full, as a delta, or as the source of another; two processes; *Purge*: 3 artifacts, 3 record ids, 2 items, one artifact that may be shunned or announced | CachesAgree, ReadableIsLinked, WrongHasCause, ReadBackIsRight, ContentIsDurable; NothingIsLost, ReadableIsRight |
| `content_stale` | 2 processes, 3 artifacts, expected violation of OrphansWaitForPhantoms | finding 1 |
| `repository` | *Tags*: 6 check-ins, a branch, a merge, 3 tag changes of which one gives a parent the branch of its child, kills; *IntBag*: 6 colliding keys, growth 6; *Transaction*: 2 processes, 2 artifacts, nesting 2; *Undo*: 2 paths, a root and 2 children, 14 commands, 2 edits, 1 stash, 1 fault | TagsMatchArtifacts at every moment, LeafTableExact at commits; BehavesAsSet and IterationComplete; IsAtomic, DerivedIsRight; UndoRestores, FailureChangesNothing, EditsSurvive |
| `sync` | *Sync*: 2 clients of which one sometimes only pulls, 1 server, 3 artifacts, clusters of 2, one file and one gimme card per message, 1 fault; *Unversioned*: 2 clients, 2 files, a removal, a revert, 1 file per message, 1 fault | Announced, SyncComplete, SyncEnds, Converges; SyncKeepsNewest, UvConverges |
| `server` | *CheckinLock*: 2 clients, 3 commits, a wiki page, 1 fault; *Alerts*: two posts, or a post and a foreign artifact, or a post and its attachment, 3 subscribers, 1 kill; *Hooks*: 3 receipts, 1 kill | ForksAreExcused, EveryCommitArrives; OutsidersSeeApproved, MailedOnce, EverybodyIsTold; ReceiptsAreHeard |
| `undo_stash` | a file removed from management, still on disk, edited and stashed, expected violation of EditsSurvive | finding 2 |
| `uv_touch` | a touch against a newer content, expected violation of RowsHaveContent | finding 3 |
| `moderation_reject` | a rejected post and a foreign artifact, expected violation of ReceiptsSucceed | finding 4 |
| `purge_undo` | 3 artifacts, 3 record ids, 3 items, expected violation of EverythingComesBack | finding 5 |
| `merge_tail` | a version with lines added in three places, the other side unchanged or changed, expected violation of EveryLineMerged | finding 6 |

Every passing run but `backoffice_live` also checks the type invariants of its modules.

Bounds and why they are enough.  *Backoffice*: three pids give a worker, a
stand-by and a newcomer; the lease exceeds the lock delay as 60 s exceeds the
busy timeout; the code compares times only with the clock, so larger leases add
no new orders.  In `backoffice` all processes have one account, and so are
interchangeable (SYMMETRY; the run has no liveness property).  *Content*: chains of three give a middle element that is both
source and delta; delta-manifests cannot have delta-manifests as baselines.
*IntBag*: the code's 20 and 40 become 6 and 10, with keys that collide in every
table size reached, so that growth, shrinking and deleted marks all happen.
*Tags*: the shape has a branch, a merge and grandchildren, and a control
that names a parent's branch; times are
chosen per instance.  *Transaction*: nesting 2 has an inner and an outer end;
two transactions of one process show what memory carries over; two processes
give the write lock a rival and a reader a stale snapshot.  *Sync*: MinCluster = 2 (code: 100) makes clusters, and clusters of
clusters, appear with three files; Budget = 1 makes every second file wait for another
round; one fault (MaxFaults) can hit every step.  ClientReq = ServerReq = 1
cut the lists of gimme cards of both sides, and a phantom that a killed client
left behind can fill a whole list; only the 800-line limit of a cluster is not
reached.  *CheckinLock*: two commits of one
client make a lock outlive its check-in; the wiki page forces a second round;
every check-in fits into one message (OneMessage).  *Unversioned*: equal contents with
different times, equal times with different contents, and a deletion marker
against a file.  *Undo*: one path changes and one is added by the first child,
the first path is removed and the second added differently by the second; two
commands in a row (MaxTurns), with any number of undos and redos, since each
command discards the log of the one before.  *Alerts*: four record ids let a
rejected artifact be followed by another; DAY 2, WAIT 1 and MaxTime 5 in *Hooks* put a
receipt on either side of the window of a day.  *Purge*: two versions of one
file make chains in either direction, the third artifact competes for record ids; two
items are a delta with its basis in one event, or two events whose ids
collide; finding 5 needs a third.  *Merge3*: all triples of short texts of two lines (up
to 4 each, so that changes meet, overlap and coincide at both ends); changes
on one side only with a brace as third line (up to 3 and 5); and longer texts chosen
so that the test of indentation changes and the shifting of insertions decide.
*Delta*: sources up to 7 and targets up to 5 bytes of two values, with NHASH = 2
(code: 16), which gives three landmarks, chains as long as Limit = 2 (250) allows, and matches
that reach both ways to the ends; Overhead = 2 is what a copy costs (at least 6).

Fairness.  `Backoffice`: processes are scheduled, the write lock is granted, work
ends and time passes (weak fairness); forks get a pid although others come and
go (strong fairness, since the few pids of an instance can all be in use); no
process need die and no operator act.  The part "deck" also assumes prompt
scheduling: the code sleeps with one-second granularity, and with unlucky
scheduling newcomers could push the stand-by aside again and again.  `Sync` and
`Unversioned`: a step
of a session is eventually taken, written as []<> because each step changes the
`pc` it waits for, and every client whose syncs end starts one again and
again (in `Sync`, one in both directions), as autosync and scheduled syncs do; a session that never ended is not excluded by it.  Nothing forces messages to arrive beyond the
bound on faults.  `CheckinLock`: requests are served and replies received, the comment is
finished, locks get old (weak fairness); a user who does not give up (`Busy`) tries
again, which is strong fairness because the lock of somebody else disables the
attempt in between.  `Alerts`: the backoffice is called again and again and days pass.
`Hooks`: the same and the clock ticks; a stream of unfinished requests that
renewed the embargo for ever is cut off by MaxTime, and the setting is not removed for
good (the premise of ReceiptsAreHeard).

Deadlock is checked in `backoffice`, `backoffice_live`, `content`, `content_stale`
and `sync`.  The other instances really end: all artifacts are received, all
transactions or commits used up, all edits made, the clock at its bound.

## 4. Proofs

`BackofficeProofs` proves for every set of processes, lease length and delay:

* `TypeCorrect`: OperatedSpec => []TypeOK, and Spec with it.  The arithmetic of relative times stays in
  range; each action is one step of the proof.
* `MutualExclusion`: Spec => []AtMostOneWorker, when all processes belong to one
  account (an assumption of the theorem) and nobody resets the lease (Spec has no
  reset); without either the statement is false, see below.  AtMostOneWorker is
  not inductive: a second process could start while the lease names someone
  else.  The inductive invariant is TypeOK together with WorkerHoldsLease
  (whoever works is the process that the lease names): BeginWork needs the
  process named by the lease to be gone, so nobody else works.
  Crashes, pid reuse and foreign processes are not assumed away.
* `RunsAreSpaced`: Spec => SpacedByLeaseLessDelay, whoever the processes run as.  The invariant
  `LeaseCoversRun` ties two counts of the clock together: the time of the current lease and
  the age of the last run add up to at least LEASE less MaxDelay, or the run is LEASE seconds
  old.  A process that goes on deck leaves the current lease alone, and one that may start finds it run out.

`SyncProofs` proves for every finite set of clients, every graph of artifacts,
every cluster size, message limit, limit of gimme cards and number of faults:

* `EverythingIsAnnounced`: Spec => []Announced.  Announced speaks of artifacts
  with content and is not inductive, since a phantom that no cluster lists could
  become content.  The inductive invariant `StoreGood` says of each repository
  that its four tables agree (`Consistent`) and that everything it knows,
  phantoms included, is unclustered or listed by a cluster that it holds
  (`Accounted`).  Each table operator (content_new(), content_put_ex(),
  create_cluster()) has a lemma that it keeps this, and the steps of a sync are
  compositions of these operators.
* `SyncTyped`: Spec => []TypeOK.  It adds `SessionGood`: what a session has
  queued, what a request carries and what a reply carries belongs to its
  sender.  That artifacts never go away, and that nobody commits to a client's
  repository between its request and the reply, keeps this true while others
  work; the lemmas ClientGrows and ClientStep say so once for all actions.

* `SyncIsComplete`: Spec => SyncComplete: a sync in both directions that ends by
  itself, undisturbed and with no slow reply, leaves the client and the server with the same
  artifacts.  There is one exception for each side: at the end it has at least ClientReq
  (ServerReq) phantoms that the other side cannot supply.
  A sync ends by itself in HandleReply only, and the argument looks at its last
  round trip only, since two invariants say what a round trip means, however
  many came before it.  `RoundGood` says that a request asks for all phantoms of
  its client, or for ClientReq at least, and carries or announces all that the client has unclustered
  (`Asked`), and that as long as the client is quiet the reply is as good
  (`Answered`): if it has no files, the server has nothing that the client asked for;
  what the server has unclustered is in the reply or at the client; and the
  server asks for each of its phantoms that is not a phantom of the client too, or for ServerReq.
  A list that was cut brought nothing in the last round, or there would be another one, so
  everything on it is a phantom that cannot be supplied, which is the exception.
  `WorldGood` says what holds of the tables of the server at
  any time: whatever anyone knows of is a file or a cluster that the server made,
  whatever a cluster lists the server has and no longer calls unclustered,
  and no clusters list each other in a circle.  The last is what the
  theorem comes down to: if the client lacked artifacts of the server at the
  end, one of them would be listed by none of the others, so it is unclustered
  and was announced, or listed by a cluster that the client has, and in both
  cases a phantom of the client that was asked for; the sync would have gone on.
  TLC checked both invariants in the sync part of the run before they were proved.

The assumptions are those of `SyncAssumption`, which the run evaluates; of
them EverythingIsAnnounced and SyncTyped use that the server is no client, that only
repositories create artifacts, and that MaxFaults is a natural number.
SyncTyped and SyncIsComplete also use that there are finitely many files (what is cut to
a limit is counted), and SyncIsComplete that a commit
makes files and no clusters, that a cluster has at least two members, and that a
message may carry at least one file.

`RepositoryProofs` proves of Transaction, for every set of processes, every finite set of artifacts, every depth of nesting
and number of transactions, under `TransactionAssumption`:

* `TransactionsAreAtomic`: Spec => IsAtomic, the refinement of AtomicStore.  Every step
  of Transaction is a step of AtomicStore or leaves its variables alone, which needs the
  invariant `IInv`: in each database, committed or in a transaction, no artifact has two
  rows and the derived tables name only rows there are (`Sound`); a process outside of a
  transaction has neither lock nor snapshot, the writer sees what is committed and more, a
  reader what is committed or was (`Isolated`); whatever cannot be read back waits in toVerify, a pending
  leaf check is about a row that is to be verified or is committed, and the check-ins of the open
  transaction wait in the temp table for chat (`Remembered`).
* `DerivedFromMemory`: Spec => []DerivedIsRight, from the same invariant: leaf checks
  and chat events that outlive a rollback only ever act on rows that exist.
* `TransactionsTyped`: Spec => []TypeOK.  A new row gets the least free record id, and that
  there is one below the bound is a fact about cardinalities (an injection from
  the artifacts stored to the rids in use); the least one is found by well-founded induction on a
  set, not on a formula.

`CheckinLockProofs` proves for every finite set of clients, all check-ins they can make, and
any number of commits, lost exchanges and killed commands, under
`CheckinLockAssumption`:

* `LocksTyped`: Spec => []TypeOK, strengthened to `Sane`: what a client has is known to
  the server or its own, and what a reply brings it has asked for.
* `LocksPreventForks`: Spec => []ForksAreExcused, when every new check-in fits into one
  message (OneMessage; without it the statement is false, section 5).  ForksAreExcused
  speaks of the server's check-ins and is not inductive: what it does not see is
  that a client may be about to push.  `IInv` adds, as long as no lock is lost: a client
  whose pull was granted *holds* the lock of what it has checked out (`Granted`), and one with an
  unsent check-in has exactly one, is about to push it, and holds the lock of its parent
  (`Pushing`), where held means that the lock is its own, not too old, and of a
  leaf.  A push then adds a child to a check-in that has none, and disturbs no lock but
  its own.

`BackofficeProofs` proves of Delta for all texts, every width of the window, every hash function and
every limit on the chains, under `DeltaAssumption`:

* `DeltaRestored`: DeltaSpec => []DeltaRestores.  A property of a finished delta says nothing
  while it is written.  The inductive invariant `IInv` says that the commands written so far
  stand for the first `base` bytes of the target: there are positions `at`, one behind the
  other, such that command r makes the piece from at[r-1] to at[r] (`Covers`), and what
  has been made of the source is the target up to at[next - 1] (`Applied`).  It rests on
  `MatchIsRight`: whichever block the hash proposes, the match that is extended from it
  is the same piece in both texts and lies inside of both.  `Max` and `Min` of
  the community modules are CHOOSE expressions, and `Greatest` of `FiniteLemmas` shows by well-founded
  induction on a set that the greatest number of a bounded set exists.
* `DeltaTyped`: DeltaSpec => []DeltaTypeOK, from the same invariant.

`ContentProofs` proves for every finite set of artifacts, every table of baselines and
parents, every set of processes and all that peers send as a delta of what (also dangling
deltas that name each other), with right bytes or wrong ones, under `StoreAssumption` and `ContentAssumption`:

* `CachesAreRight`: Spec => []CachesAgree; `WrongContentHasACause`: Spec =>
  []WrongHasCause; `CommitsReadBack`: Spec => []ReadBackIsRight; `ContentStays`:
  Spec => ContentIsDurable; `ContentTyped`: Spec => []TypeOK.  The inductive
  invariant `IInv` says of both the committed and the writer's tables that the phantom
  table is exact and that only artifacts with content are deltas, of known artifacts
  (`DbGood`), and that the writer can read (`R`) what is committed, and reads it right (`I`) where it was;
  of the bags that what
  is available can be read, and that a process with something to verify has registered its hook
  (`BagsGood`); that what has content but cannot be read, or is read wrong, has been committed unread, or is
  in the toVerify of the writer (`ReadBack`) - for verify_at_commit() skips what
  it cannot read; that what is wrong rests on wrong bytes, and what cannot be read is still a delta
  of what a peer has sent it as a delta of (`CauseKnown`); and that a process that is alone misses nothing that is there.
* A context may change in two ways only.  `Upkeep`: the same artifacts can be read, no
  content changes, the bags stay right - so do crosslinking, deltifying, undeltifying, phantoms and
  after_dephantomize() (`AfterDephantomizeStep`).  `Grow`: more can be read, nothing that was right is read
  wrong, and what is stored waits to be verified - so do content_put_ex() (`ContentPutStep`, for right and wrong
  bytes) and the receipt of a file.
  Both are transitive, which makes the proof of a function that of its calls one after
  the other.
* Under these are facts about delta chains: a chain depends on its members' sources only
  (`SameChain`); a readable artifact that becomes a delta of another readable one, which does
  not rest on it, changes nothing about what can be read (`Swing`, `Restored`: why
  content_deltify() walks the ancestors of its source); when a full text arrives, what
  becomes readable is exactly what content_mark_available() walks over (`Arrival`,
  `DependentsReadable`).  The loops over SQL results are folds over finite sets and
  after_dephantomize() is a function on levels; that these functions exist, and stay in
  a set that each turn keeps, is shown by well-founded induction on a set
  (`FoldExists` and `FoldRange` of `FiniteLemmas`, `Levels`, `LevelsRange`).
* `NoManifestIsMissed`: Spec => []ReadableIsLinked.  The inductive invariant `LinkInv`, on
  top of IInv, says of the committed tables, and of the writer's, that every manifest that can be read right has been linked, or is
  a delta-manifest that waits in table orphan for a baseline that cannot, or waited for one that
  came and is wrong (`Settled`; the walk deletes the row of the latter), and that a
  row of orphan names the true baseline, or nothing when that is shunned (`RowGood`).
  Inside of a call this does not hold, and `Links` says what does while
  after_dephantomize() walks: U is what has become readable and the walk has not come to,
  and every member of U is a delta of another one or of the level at hand; V are the
  baselines whose orphans are still to be linked.  Each level takes something off U as long as
  U has members, since chains end (`DephantomizeLinks`), so that as many levels as there are
  artifacts come to all of it.  A step that leaves the links alone keeps
  the invariant by `SameLinks`; those that do not are under `ArrivalLinks`.  The
  attempt to prove it found the exception of `early` (section 5), which the
  instance with a parent for every middle of a chain of deltas had hidden.

`RepositoryProofs` proves of Tags, for every finite set of check-ins and control artifacts, every ancestry
and all tags with any times, under `TagsAssumption`:

* `LeavesAreExact`: TagsSpec => []LeafTableExact.  The property speaks of commits; the
  inductive invariant `TagsIInv` says that table leaf is exact in the open transaction for
  all settled check-ins but those in the bag, and with an empty bag in what is committed
  (`Exact`).  The tag functions only ever change a row when they put the check-in and
  its parents into the bag (`Noted`, which composes), whatever the propagation reaches;
  a receipt that links a check-in to its parents either changes its row,
  or leaves it without a branch, or finds it tagged before it came.  The third case is why the
  property has its exception: without it the proof fails, and TLC shows why.
* `TagsTyped`: TagsSpec => []TagsTypeOK, from the same invariant.

`RepositoryProofs` proves of IntBag, for every finite set of keys, every growth of at least 4 slots and every
limit for shrinking, under `BagAssumption`:

* `BagIsSet`: BagSpec => BehavesAsSet, the refinement of `IntSet`.  That an answer is right depends
  on where everything else lies: the inductive invariant `BagIInv` says that no entry is there
  twice and that the probe for an entry meets no free slot before it (`Hashed`), that
  the counters are those of the table, and that a free slot is left.  Removal frees a slot only if the
  next one is free, where every probe that goes over it would end anyhow, and leaves a mark
  otherwise (`TakeKeeps`).  The growth test looks at entries and marks, so with a growth of 4 or more
  a slot is free after every insertion.  bag_resize() is a function on its turns; that
  it exists is shown by well-founded induction on a set (`Steps`), and that each turn moves one
  entry, to a slot that its probe reaches, by `RehashMoves` and `ResizeMoves`.
* `BagTyped`: BagSpec => []BagTypeOK, from the same invariant: cnt and used are exact, no integer is
  there twice, probes end.

* `LoopVisitsAll`: BagSpec => []IterationComplete.  The loop is a function on its visits; after n of
  them it has seen exactly the entries up to some slot that is at least n, or all of them (`Progress`).

`AlertsProofs` proves for every number of record ids, all posts, attachments and artifacts of
peers, all subscribers and any number of kills, under `AlertsAssumption`:

* `NoLetterTwice`: AlertsSpec => []MailedOnce, and `OutsidersLearnNothing`: AlertsSpec =>
  []OutsidersSeeApproved, from one inductive invariant `IInv`.  What keeps a letter from being
  sent again is a mark in the row of pending_alert under the artifact's record id, and that id
  may have been another's: `MailRight` says that the row of whatever was told, and is not due
  anew, is marked for that kind of letter, or is no row any more, and that it was told to a moderator or is public or
  excused; `WantRight` that what is selected was not told to the readers of the turn, and
  if it is taken for public was public when it was selected, or has taken over a record id since;
  `ListRight` the same of what is composed, and that once it is marked the mark stays whatever moderators do.  (Step 4a of
  the code before its step 3 is what makes this inductive.)  An artifact that comes again
  is covered by two facts: what a peer sent and is no phantom has its row of the timeline (`Kinds`),
  and what is selected of it is still queued (`WantRight`), so that nobody is being written
  to about an artifact whose row has gone.
* `Good` says of the tables that artifacts have one row, that phantoms come from peers and
  private rows from users, that requests are about private posts and attachments, and the
  files they name are files.  Each operator of Moderation has a lemma that
  it keeps `Good` and that it `Moves` the tables: it adds artifacts
  that were not there, or fills a phantom (`Touches`), or erases private rows (`Settles`, which composes, for
  the fold over the attachments of a post); whatever has been told of stays where it is or goes for
  good (`SeenStays`).  That a user's artifact never comes a second time is an
  assumption of the model (`Make`; its name is a hash of the time, too).
* `AlertsTyped`: AlertsSpec => []AlertsTypeOK, with RowsAreOfArtifacts.

`AlertsAssumption` says that record ids are 1 .. n, that posts, attachments and what peers send are
different artifacts, and that an attached file is not one of them.

`UndoProofs` proves for every set of paths, every root and set of its children with any
files, any number of edits, stash entries, faults and commands, under `UndoAssumption`:

* `UndoTyped`: UndoSpec => []UndoTypeOK.  TypeInv adds that entries of the stash are numbered below
  the next number, and that an entry that is in the stash and in the undo log is the same
  in both (`Sound`): else pop, undo and a new save could put two entries under one number.
* `UndoBringsBack`: UndoSpec => []UndoRestores, and `FailureIsClean`: UndoSpec =>
  []FailureChangesNothing, when the three commands of which the code promises nothing
  are excused, as they are in the run.  Neither says anything while a command runs.  The
  inductive invariant `RestoreInv` says, whatever is being done, how
  the database and the files lie between two states of the check-out.  `Recording`: an undoable command
  has logged, of each file that is not what it was, the content it had, and what it still
  has to write is logged first.  `Swaps`: in an undo or redo each file is either still on
  one side, with the other in the log, or has been swapped, and its flag tells
  which.  `Shape`: between commands all of them are on one side, and with `Parted` and `Logs` the
  tables, the stash and their copies in the log are on opposite ones.
* `NoEditIsLost`: UndoSpec => []EditsSurvive, when no file is stashed that was removed
  with edits in it (StashRemoved = FALSE; else it is false, section 5).  The
  inductive invariant `EditsInv` says for each kind of command where the edits are while it runs:
  with `Changing` in the file, the log or the content still to be written;
  with `CheckingOut` nothing edited is written; with `Saving` the edits are in the new
  entry of the stash, which is committed before the first file is reverted; with `Exchanging` a file
  and its row in the log change places.  The proof of `stash goto` did not go through: it
  takes a file that is removed from management, edited and still on disk for an
  unedited one, as update does, but keeps no log.  `Unsafe` excepts it, and TLC shows the loss when the exception is left
  out and MaxTurns is 4 (section 5).

TagsMatchArtifacts stays with TLC: it compares the propagation with a recursive
reference definition, and holds only for tag times that are chosen per instance (section 5).

Only model-checked: all liveness (out of the prover's reach);
TagsMatchArtifacts; EditsTransform and MergeKeepsChanges, since what the chains of hashes and the recursive
splitting of a diff compute is an induction over data; NothingIsLost and ReadableIsRight, since an
event of the graveyard and a chain of deltas are recursive too; and the modules
Unversioned and Hooks.

## 5. Findings: where the code and its documentation disagree

1. `content_stale`: the bag *missing* outlives a transaction, so a sync client
   can record an orphan row for a baseline that another process has stored
   meanwhile (manifest.c:1366, schema.c:334); the check-in stays unlinked until a
   rebuild.
2. `undo_stash`: a file taken out of management but left on disk is stashed without
   its content, and the revert overwrites its edits (stash.c:221, stash.c:623).
3. `uv_touch`: a card that only updates an mtime is applied to whatever row the server
   has by now, and replaces newer content by a row without any (xfer.c:386, 316).
4. `moderation_reject`: a pending post is entered into unclustered and unsent
   although it is private; its rejection leaves both rows, and the next new artifact,
   which gets the record id, cannot be inserted (wiki.c:678, moderate.c:135,
   content.c:693, schema.c:162).
5. `purge_undo`: a buried delta looks for its basis in the whole graveyard and may find an
   item of an older event under a record id that was used again; undo of its event
   does not come to it, but deletes it (purge.c:179, 653; purge.c:415).  With the search restricted
   to the event EverythingComesBack holds.
6. `merge_tail`: diff_optimize() moves an insertion down past all lines between it and
   the next one, so that an edit can end with two insertions; the merge writes only
   the first of what is left (merge3.c:865, diff.c:2953; merge3.c:861-863), the last lines added by
   one side are lost, and no conflict is reported: `fossil 3-way-merge` of a pivot of the
   lines a, bb, the version x, a, bb, bb, ccc, bb, a, a and the unchanged pivot gives
   x, a, bb, bb, ccc, bb.

Met while reading, and not run.

*Backoffice.*  The lease spaces runs by 60 s less the wait for
the write lock (backoffice.c:485; backoffice.md:58 says 60 s), which
SpacedByLeaseLessDelay states exactly; a new process that gets the pid of a dead lease holder
takes itself for it and stays on deck (backoffice.c:500); with two accounts
kill() fails with EPERM and two workers may run (backoffice.c:322).

*Store, tags, bag.*  "Fossil always checks to make sure it can re-extract a file before it commits a
change to that file" (selfcheck.wiki:61): not a delta that is received before its source, which is stored as it
came (xfer.c:192), and which verify_rid() passes over because it cannot be read (verify.c:48).  A wrong one is
committed, is read wrong once its source has come, is not checked then either, and what a
later peer sends for it is ignored, since there is content already (content.c:565); TLC
shows it in run `content` when the exception of `unread` is left out of ReadBackIsRight.  The tag table depends on the order of arrival when a newer tag
lies on an ancestor of a check-in with an older one (tag.c:178, sync.wiki:14); an igot card
with the flag "1" makes held public content private (xfer.c:1475), make_private
leaves the row in unclustered (schema.c:162), make_public adds none
(schema.c:344); a receipt of dangling deltas naming each other
closes a loop in table delta (content.c:614), which the instances of Content
exclude by letting peers send deltas in one direction only, and the proofs do not; a check-in
without parent that is stored as a delta of something missing, and comes again in full, is
crosslinked from the message and gets mlink rows although it cannot be read yet; when its
source arrives, after_dephantomize() takes it for done and does not go on to what is stored as a
delta of it, which becomes readable and stays unlinked until a rebuild (content.c:427,
xfer.c:214-221; content.c:376 "if that record has other records that are derived by delta, then
call manifest_crosslink() on those other records"; TLC shows it in run `content` when the
exception of `early` is left out of ReadableIsLinked); equal
timestamps make the first tag to arrive win; a check-in that is tagged by a control
artifact before it arrives keeps its tags when it does, and then nothing has its parents looked at
(leaf_eventually_check() is called only from tag.c:101 and 195, which tag_insert() and
tag_propagate() skip), so that a parent on the same branch stays in table leaf until a rebuild
(schema.c:299 "There is one entry in the following table for each leaf"; TLC shows it
in the part *Tags* of `repository` when the exception of `early` is left out of IsSettled); leaf checks are triggered by
the branch tag only, so a check-in below a missing parent is not in table leaf until a
rebuild, and leaf_rebuild() omits check-ins that have neither parent nor child;
bag_insert() reuses the first deleted slot without looking further (bag.c:134; bag.c:29
"at most once"), which its callers avoid, except a test command (rebuild.c:980).

*Transactions.*  After a dry run (attach.c:875, fileedit.c:679, forum.c:3189)
toVerify and needToCheck survive the rollback (db.c:301) and are inherited by the
forked backoffice (backoffice.c:816-870), whose first commit dies with "not a valid
rid" (verify.c:45), or looks at a check-in that another artifact's id now names; the
flag of the event triggers stays set when the rollback drops the triggers; every later commit of
a process relays its chat events again (alerts.c:158-176, chat.c:135); xfer.c:1557
and 1644 end a transaction once too often (a warning only); content_put_ex() asks
for verification after its own transaction (content.c:643), which is harmless only
because every caller has one open.

*Sync.*  A request has gimme cards for the first 200 phantoms by record id (client)
or the first 500 (server), and the next request for the same ones as long as they
are missing (xfer.c:766-781, 1906, 2287).  If a killed client left as many whose
content is nowhere to be had, nothing else is asked for, no file comes, and the
loop ends without a word (xfer.c:2982) although artifacts are missing; SyncComplete excepts this.

*Check-in locks.*  An auto-pull that needs a second round gives the lock back that
its first round took (xfer.c:2387; xfer.c:1834, sync.wiki:792, db.c:5007), and so does a
push whose check-in does not fit into the first message (the model with
OneMessage = FALSE); ForksAreExcused excepts both.  "Renewing the check-in lock" (checkin.c:3037)
does not renew it; two slow users may starve each other.

*Unversioned.*  A revert or a failed exchange leaves a stale uv-hash
(unversioned.c:58, xfer.c:2659, 2355), so that the next digest is wrong once; a client
whose message is full in the second round sends uvigot to the server, which
rejects it (xfer.c:732 says "server side only").

*Check-out.*  `stash goto` writes over a file that was removed from management with edits in it and
is still on disk, like any update, but saves nothing for undo (update.c:475, 481), so
that its edits are nowhere afterwards; EditsSurvive excepts it.
Not undoable although nothing says so: stash goto (stash.c:561, update.c:38), a second merge in one command (merge.c:1032, 1055), an update that adds over an
unmanaged file (update.c:453) or follows a rename of an edited one (update.c:538), clean -i
(checkin.c:1303); `stash apply` of a file renamed and then removed (stash.c:339); `undo`
that fails half way is not rolled back on disk; `stash drop` without an id drops
nothing (stash.c:717).

*Purge.*  An event with a phantom or an unreadable delta cannot be undone, since a wrong
hash is fatal for all of it (purge.c:427), although `purge cat` still shows its other
items; an item that has come back meanwhile as a dangling delta is dropped by undo in favour
of that row (content.c:565); rebuild of a shunned phantom leaves the dangling deltas of
it with a freed source id, and whatever gets that id makes them readable and
wrong (shun.c:341), which ReadableIsRight excepts as `stray`; undo of a middle check-in
does not restore the plink rows of children that were left behind (purge.c:191).

*Merge, delta.*  A copy of 0 bytes does not mean "the rest of the input file" (delta.c:319) to
delta_apply(), which copies nothing; a delta applied to the wrong source is refused only if
a length does not fit (delta.c:573), its checksum is compared in test builds only
(delta.c:647); the last test of diff_optimize() has the same line on both sides
(delete down, diff.c:2984), which changes nothing but where a deletion is shown.

*Moderation, alerts, hooks.*  Rejecting a new forum post does not reject its
attachments, which it looks up by the row just deleted (forum.c:379;
forum.wiki:489); approving an attachment leaves the attached file private
(moderate.c:166), and rejecting another attachment of the same file can delete it
(moderate.c:101); create_cluster() lists the hashes of pending posts in public clusters
(xfer.c:869); a rejected post's row of pending_alert may be taken for that of the
artifact that gets its id (alerts.md:593); alerts never tell of attachments to forum
posts one by one, they stay pending until another event is sent (alerts.c:2670,
2768); a file that is held already, pushed again by a client that was killed or by a
second one, is crosslinked again (xfer.c:214-221), the REPLACE of its row of event fires
alert_trigger1 (manifest.c:2857, alerts.c:187), and if its row of pending_alert had been
deleted (alerts.c:3276) everybody is mailed once more; `fossil alerts send` beside the backoffice can send alerts twice; the first receipt after a quiet
day, and the very first, is not listed to hooks (hook.c:178; hook.c:155,
hooks.md:103); a complete request of one client lifts the embargo of another's
incomplete one.

## 6. Not modelled, and why

* Equal tag times, tags other than branch (their side effects), tag times on
  ancestors.
* In Sync: private and shunned artifacts and deltas (in Content), clone,
  unversioned files and locks (in modules of their own), configuration cards, `--verily`, login; a request that is
  still being served when its killed client has started a new session.
* The cache of expanded content and its eviction; it holds copies only.
* In Transaction: the protection stack, the queue of before-commit statements,
  db_optional_sql() and read-only databases.
* In Unversioned: `--mtime` into the past, `--dry-run`, empty files, a hash that does not
  match, messages that deletion markers alone fill, edits in the middle of a round.
* In Undo: renames, links and permission bits, binary files, `clean`, commits,
  `update FILES`, `--dry-run`, `--noundo`, `stash drop --all`, `stash snapshot`, bisect; a failure of
  the COMMIT itself.
* In Alerts: subscriptions, other kinds of events, bounces, the mail relay;
  in Moderation: tickets; in Hooks: before-commit hooks and the commands that edit
  the setting.
* In Purge: check-ins (its artifacts are files), the choice of what to purge and the refusal of
  baselines, private artifacts, re-deltification after a wrong text was stored, the
  parts of rebuild that recompute derived tables.
* In Diff: the limits that only long texts meet (on hash chains and on the exact search), white space
  options, diffs by tokens, presentation; in Merge3: the suggestion for a conflict,
  its marks, binary files and line ends; in Delta: the base-64 numbers, the checksum,
  deltas that delta_create() would not write.
* SQLite, zlib, the operating system: transactions are atomic and durable,
  writers exclude each other.
* Parsing, hashing, rendering and network code, the scripting language, the
  agent front end, the JSON API, import and export: pure or input/output.  They are most
  of the source lines, and have no state of their own to check.
* `PROJECT.json` has the complete list with a reason for each part.

## 7. Plan

Done: the modules of section 2; the proofs of section 4.

Theorems next, in this order: Hooks (the watermark never passes a receipt that nobody heard of, unless excused);
Unversioned (KeepsNewest).

Modules that would follow: `Clone` as a further mode of Sync, with an abstract
specification that both implement (a repository only ever gains artifacts that
exist elsewhere); the configuration cards beside
Unversioned; `Cache`; `PQueue` as a function against a reference definition.
