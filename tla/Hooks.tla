------------------------------- MODULE Hooks --------------------------------
(***************************************************************************)
(* After-receive hooks (hook.c).  The backoffice tells them what has been  *)
(* received since the watermark hook-last-rcvid, unless a request that     *)
(* expects more artifacts has put an embargo on them.  It does so inside a *)
(* write transaction; the hooks themselves cannot be taken back.           *)
(***************************************************************************)
EXTENDS Naturals, Sequences, FiniteSetsExt

CONSTANTS
    DAY, WAIT,               \* 24 hours and 60 seconds, in units of the clock
    MaxTime, MaxReceipts,    \* bounds on the clock and on table rcvfrom
    MaxKills                 \* bound on kills of a backoffice that runs hooks

HooksAssumption ==
    /\ DAY \in Nat /\ WAIT \in Nat /\ MaxTime \in Nat /\ MaxReceipts \in Nat
    /\ MaxKills \in Nat

VARIABLES
    clock,
    received,    \* mtime of each row of rcvfrom, by rcvid
    watermark,   \* hook-last-rcvid
    embargo,     \* hook-embargo, or 0
    hooks,       \* "none", or what the hooks of setting "hooks" do
    told,        \* the receipts that hooks were told of
    excused,     \* the receipts that no hook has to hear of (see Excused)
    kills

vars == <<clock, received, watermark, embargo, hooks, told, excused, kills>>

Receipts == DOMAIN received

TypeOK ==
    /\ clock \in 0 .. MaxTime /\ embargo \in 0 .. MaxTime
    /\ received \in Seq(0 .. clock) /\ watermark \in {0} \cup Receipts
    /\ hooks \in {"none", "disabled", "active"}
    /\ told \subseteq Receipts /\ excused \subseteq 1 .. watermark
    /\ kills \in 0 .. MaxKills

Init ==
    /\ clock = 0 /\ received = <<>> /\ watermark = 0 /\ embargo = 0
    /\ hooks = "none" /\ told = {} /\ excused = {} /\ kills = 0

-----------------------------------------------------------------------------
(* page_xfer(): a push comes with artifacts, a pull does not; either says  *)
(* at its end whether more are expected.                                   *)
Request(push, more) ==
    /\ push => Len(received) < MaxReceipts
    /\ received' = IF push THEN Append(received, clock) ELSE received
    /\ more => clock + WAIT <= MaxTime
    /\ embargo' = IF more THEN clock + WAIT ELSE 0
    /\ UNCHANGED <<clock, watermark, hooks, told, excused, kills>>

(* A local command adds artifacts; the embargo is not its business.        *)
LocalCommit ==
    /\ Len(received) < MaxReceipts
    /\ received' = Append(received, clock)
    /\ UNCHANGED <<clock, watermark, embargo, hooks, told, excused, kills>>

Configure(h) ==
    /\ hooks' = h
    /\ UNCHANGED <<clock, received, watermark, embargo, told, excused, kills>>

Tick ==
    /\ clock < MaxTime
    /\ clock' = clock + 1
    /\ UNCHANGED <<received, watermark, embargo, hooks, told, excused, kills>>

-----------------------------------------------------------------------------
Newest == Len(received)
Old(r) == r = 0 \/ received[r] + DAY < received[Newest]

(* hook_changes(): the base line is the first receipt of the last day, if  *)
(* that is not before the watermark; what is listed comes after it.        *)
Baseline == Min({r \in Receipts : r >= watermark /\ ~Old(r)})
Changes == {r \in Receipts : r > Baseline}

(* No hook has to hear of what comes when none is active, nor of what is   *)
(* older than a day.  And no hook does hear of the first receipt after a   *)
(* quiet day: it becomes the base line.                                    *)
FirstOfDay(r) == Old(watermark) /\ \A q \in watermark + 1 .. r - 1 : Old(q)
Excused == {r \in watermark + 1 .. Newest :
              hooks # "active" \/ Old(r) \/ FirstOfDay(r)}

Due == hooks # "none" /\ clock >= embargo /\ watermark < Newest
Tell == told' = IF hooks = "active" THEN told \cup Changes ELSE told

Run ==
    /\ Due /\ Tell
    /\ watermark' = Newest
    /\ excused' = excused \cup Excused
    /\ UNCHANGED <<clock, received, embargo, hooks, kills>>

(* Killed before the commit, with or without the hooks having run.  Broken *)
(* variant: the watermark has been stored before the hooks run.            *)
AfterKill_Early(w) == Newest
AfterKill(w) == w
Killed ==
    /\ Due /\ kills < MaxKills
    /\ kills' = kills + 1
    /\ Tell \/ UNCHANGED told
    /\ watermark' = AfterKill(watermark)
    /\ UNCHANGED <<clock, received, embargo, hooks, excused>>

-----------------------------------------------------------------------------
Next ==
    \/ \E push, more \in BOOLEAN : Request(push, more)
    \/ LocalCommit
    \/ \E h \in {"none", "disabled", "active"} : Configure(h)
    \/ Tick \/ Run \/ Killed

(* The backoffice is called again and again, and time passes.              *)
Spec == Init /\ [][Next]_vars
LiveSpec == Spec /\ WF_vars(Run) /\ WF_vars(Tick)

-----------------------------------------------------------------------------
(* "Fill the Blob pOut with text that describes all artifacts received     *)
(* after zBaseRcvid up to and including zNewRcvid.  Except, never include  *)
(* more than one days worth of changes" (hook.c:155): whatever the pushes, *)
(* embargoes, kills and changes of the settings, every receipt is one that *)
(* hooks were told of in the end, or one of the excused ones, provided the *)
(* setting is not removed for good.                                        *)
Configured == hooks # "none"
AllHeard == Receipts \subseteq told \cup excused
ReceiptsAreHeard == <>[]Configured => []<>AllHeard
=============================================================================
