----------------------------- MODULE Backoffice -----------------------------
(***************************************************************************)
(* The backoffice lease (src/src/backoffice.c).                            *)
(*                                                                         *)
(* Every web reply may fork a backoffice process.  The processes agree     *)
(* through one row of the config table, the Lease, which each of them      *)
(* reads and rewrites inside one BEGIN IMMEDIATE transaction.  A process   *)
(* learns whether another one still runs by kill(pid,0).                   *)
(*                                                                         *)
(* Times are written relative to the clock: a lease time of 0 means "now", *)
(* a negative one lies in the past, and Tick moves all of them.  A time    *)
(* that lies further back than any sampled clock is kept as LongAgo, which *)
(* no comparison of the code can tell from an earlier time.                *)
(***************************************************************************)
EXTENDS Integers, FiniteSets

CONSTANTS
    Pid,          \* process identifiers
    NoPid,        \* the 0 that a lease holds where it names no process
    User,         \* the operating system accounts the processes run as
    Owner,        \* Owner[p]: the account that process p runs as
    LEASE,        \* BKOFCE_LEASE_TIME
    MaxDelay,     \* longest wait of BEGIN IMMEDIATE (sqlite3_busy_timeout)
    MaxRequests,  \* bound on web replies that are about to fork
    Crashes,      \* may a backoffice process be killed?
    ReusePids,    \* may a new process get a pid that the lease still names?
    Foreign,      \* may processes outside of fossil get the pids of Pid?
    Prompt,       \* does a runnable process run before the clock ticks?
    Operator      \* may an operator run the backoffice command?

ASSUME ConstantsAssumption ==
    /\ NoPid \notin Pid
    /\ Owner \in [Pid -> User]
    /\ LEASE \in Nat \ {0} /\ MaxDelay \in Nat /\ MaxDelay < LEASE
    /\ MaxRequests \in Nat
    /\ {Crashes, ReusePids, Foreign, Prompt, Operator} \subseteq BOOLEAN

VARIABLES
    lease,     \* the row config.name='backoffice'
    pc,        \* what each process is doing
    noDelay,   \* the processes that run with backofficeNoDelay
    age,       \* seconds since process p sampled tmNow = time(0)
    wait,      \* seconds that process p still sleeps
    requests,  \* web processes per user whose backofficeDb is set
    due,       \* some reply since the last run began has asked for work
    sinceRun   \* seconds since the last leased run started (up to LEASE)

vars == <<lease, pc, noDelay, age, wait, requests, due, sinceRun>>

PC == {"none",      \* no process has this pid
       "other",     \* a process that has nothing to do with fossil has it
       "ready",     \* in backoffice_thread(), before tmNow = time(0)
       "sampled",   \* waiting for the write lock
       "sleep",     \* on deck
       "work",      \* in backoffice_work(), holding the lease
       "unleased",  \* in backoffice_work() because of --nolease
       "exiting"}   \* has left the loop, still exists for kill(pid,0)

LongAgo == -(MaxDelay + 1)
Lease == [idCurrent: Pid \cup {NoPid}, tmCurrent: LongAgo .. LEASE,
          idNext: Pid \cup {NoPid}, tmNext: LongAgo .. (LEASE + LEASE)]
NoLease == [idCurrent |-> NoPid, tmCurrent |-> LongAgo,
            idNext |-> NoPid, tmNext |-> LongAgo]

TypeOK ==
    /\ lease \in Lease
    /\ pc \in [Pid -> PC]
    /\ noDelay \in SUBSET Pid
    /\ age \in [Pid -> 0 .. MaxDelay]
    /\ wait \in [Pid -> 0 .. (LEASE + MaxDelay + 1)]
    /\ requests \in [User -> 0 .. MaxRequests]
    /\ due \in BOOLEAN
    /\ sinceRun \in 0 .. LEASE

Init ==
    /\ lease = NoLease
    /\ pc = [p \in Pid |-> "none"]
    /\ noDelay = {}
    /\ age = [p \in Pid |-> 0]
    /\ wait = [p \in Pid |-> 0]
    /\ requests = [u \in User |-> 0]
    /\ due = FALSE
    /\ sinceRun = LEASE

-----------------------------------------------------------------------------
(* kill(pid,0) by a process of user u: it succeeds when the process exists *)
(* and belongs to u, and fails with ESRCH or EPERM otherwise.              *)
KillOk(u, id) == id \in Pid /\ pc[id] # "none" /\ Owner[id] = u
ProcessExists(u, id) == id # NoPid /\ KillOk(u, id)
ProcessDone(u, id) == id = NoPid \/ ~KillOk(u, id)

(* (tmNow>x.tmCurrent ? tmNow : x.tmCurrent), and a broken variant that    *)
(* makes the stand-by lease twice as long.                                 *)
LaterOf_Twice(a, b) == LEASE + (IF a > b THEN a ELSE b)
LaterOf(a, b) == IF a > b THEN a ELSE b

(* A web process looks at the lease, outside of any write transaction,     *)
(* after it has produced its reply, and remembers in backofficeDb whether  *)
(* a backoffice is needed.                                                 *)
CheckIfNeeded(u) ==
    /\ due' = TRUE
    /\ IF lease.tmNext >= 0 /\ ProcessExists(u, lease.idNext)
         THEN UNCHANGED requests
         ELSE requests[u] < MaxRequests
              /\ requests' = [requests EXCEPT ![u] = @ + 1]
    /\ UNCHANGED <<lease, pc, noDelay, age, wait, sinceRun>>

FreshPid(p) == /\ pc[p] = "none"
               /\ ReusePids \/ p \notin {lease.idCurrent, lease.idNext}

(* The web process closes its database and forks the backoffice process.   *)
RunIfNeeded(p) ==
    /\ FreshPid(p)
    /\ requests[Owner[p]] > 0
    /\ requests' = [requests EXCEPT ![Owner[p]] = @ - 1]
    /\ pc' = [pc EXCEPT ![p] = "ready"]
    /\ noDelay' = noDelay \ {p}
    /\ UNCHANGED <<lease, age, wait, due, sinceRun>>

(* "fossil backoffice ?--nodelay? ?--nolease?" from a shell or cron.       *)
BackofficeCommand(p) ==
    /\ Operator
    /\ FreshPid(p)
    /\ \E nodelay, nolease \in BOOLEAN :
         /\ pc' = [pc EXCEPT ![p] = IF nolease THEN "unleased" ELSE "ready"]
         /\ noDelay' = IF nodelay THEN noDelay \cup {p} ELSE noDelay \ {p}
         /\ due' = (due /\ ~nolease)
    /\ UNCHANGED <<lease, age, wait, requests, sinceRun>>

(* "fossil test-backoffice-lease --reset" deletes the lease.  It "can be   *)
(* disruptive", and is a step of OperatedSpec only.                        *)
ResetLease ==
    /\ lease' = NoLease
    /\ UNCHANGED <<pc, noDelay, age, wait, requests, due, sinceRun>>

-----------------------------------------------------------------------------
(* The loop of backoffice_thread().  The clock is read first and the write *)
(* lock is taken afterwards, so the sample may be old when it is used.     *)
SampleClock(p) ==
    /\ pc[p] = "ready"
    /\ pc' = [pc EXCEPT ![p] = "sampled"]
    /\ age' = [age EXCEPT ![p] = 0]
    /\ UNCHANGED <<lease, noDelay, wait, requests, due, sinceRun>>

SampledNow(p) == -age[p]

(* Broken variant: the process on deck does not recognise itself.          *)
AnotherIsOnDeck_Self(p) ==
    /\ lease.tmNext >= SampledNow(p)
    /\ ProcessExists(Owner[p], lease.idNext)

AnotherIsOnDeck(p) ==
    /\ lease.tmNext >= SampledNow(p)
    /\ lease.idNext # p
    /\ ProcessExists(Owner[p], lease.idNext)

(* Broken variants of MayStart: the process, or the time, is forgotten, or *)
(* the test for the process is the wrong way round.                        *)
MayStart_Busy(p) == lease.tmCurrent < SampledNow(p)
MayStart_Early(p) == ProcessDone(Owner[p], lease.idCurrent)
MayStart_Swapped(p) ==
    /\ lease.tmCurrent < SampledNow(p)
    /\ lease.idCurrent = NoPid \/ ProcessExists(Owner[p], lease.idCurrent)

MayStart(p) ==
    /\ lease.tmCurrent < SampledNow(p)
    /\ ProcessDone(Owner[p], lease.idCurrent)

NotNeeded(p) ==
    /\ pc[p] = "sampled"
    /\ AnotherIsOnDeck(p)
    /\ pc' = [pc EXCEPT ![p] = "exiting"]
    /\ age' = [age EXCEPT ![p] = 0]
    /\ UNCHANGED <<lease, noDelay, wait, requests, due, sinceRun>>

BeginWork(p) ==
    /\ pc[p] = "sampled"
    /\ ~AnotherIsOnDeck(p)
    /\ MayStart(p)
    /\ lease' = [idCurrent |-> p, tmCurrent |-> SampledNow(p) + LEASE,
                 idNext |-> NoPid, tmNext |-> LongAgo]
    /\ pc' = [pc EXCEPT ![p] = "work"]
    /\ age' = [age EXCEPT ![p] = 0]
    /\ due' = FALSE
    /\ sinceRun' = 0
    /\ UNCHANGED <<noDelay, wait, requests>>

NoDelayExit(p) ==
    /\ pc[p] = "sampled"
    /\ ~AnotherIsOnDeck(p)
    /\ ~MayStart(p)
    /\ p \in noDelay
    /\ pc' = [pc EXCEPT ![p] = "exiting"]
    /\ age' = [age EXCEPT ![p] = 0]
    /\ UNCHANGED <<lease, noDelay, wait, requests, due, sinceRun>>

(* Queue up, and sleep until the current lease has expired; when it has    *)
(* expired already and its process still runs, look again after a second.  *)
GoOnDeck(p) ==
    /\ pc[p] = "sampled"
    /\ ~AnotherIsOnDeck(p)
    /\ ~MayStart(p)
    /\ p \notin noDelay
    /\ lease' = [lease EXCEPT
                   !.idNext = p,
                   !.tmNext = LaterOf(SampledNow(p), lease.tmCurrent) + LEASE]
    /\ wait' = [wait EXCEPT ![p] =
                  IF lease.tmCurrent >= SampledNow(p)
                    THEN lease.tmCurrent - SampledNow(p) + 1
                    ELSE 1]
    /\ pc' = [pc EXCEPT ![p] = "sleep"]
    /\ age' = [age EXCEPT ![p] = 0]
    /\ UNCHANGED <<noDelay, requests, due, sinceRun>>

Wake(p) ==
    /\ pc[p] = "sleep"
    /\ wait[p] = 0
    /\ pc' = [pc EXCEPT ![p] = "ready"]
    /\ UNCHANGED <<lease, noDelay, age, wait, requests, due, sinceRun>>

WorkDone(p) ==
    /\ pc[p] \in {"work", "unleased"}
    /\ pc' = [pc EXCEPT ![p] = "exiting"]
    /\ UNCHANGED <<lease, noDelay, age, wait, requests, due, sinceRun>>

Exit(p) ==
    /\ pc[p] = "exiting"
    /\ pc' = [pc EXCEPT ![p] = "none"]
    /\ UNCHANGED <<lease, noDelay, age, wait, requests, due, sinceRun>>

-----------------------------------------------------------------------------
(* The environment: a process is killed (or gives up on the write lock),   *)
(* pids come and go outside of fossil, and time passes.                    *)
Die(p) ==
    /\ Crashes
    /\ pc[p] \in PC \ {"none", "other"}
    /\ pc' = [pc EXCEPT ![p] = "none"]
    /\ age' = [age EXCEPT ![p] = 0]
    /\ wait' = [wait EXCEPT ![p] = 0]
    /\ UNCHANGED <<lease, noDelay, requests, due, sinceRun>>

OtherStarts(p) ==
    /\ Foreign
    /\ pc[p] = "none"
    /\ pc' = [pc EXCEPT ![p] = "other"]
    /\ UNCHANGED <<lease, noDelay, age, wait, requests, due, sinceRun>>

OtherExits(p) ==
    /\ pc[p] = "other"
    /\ pc' = [pc EXCEPT ![p] = "none"]
    /\ UNCHANGED <<lease, noDelay, age, wait, requests, due, sinceRun>>

Earlier(t) == IF t = LongAgo THEN LongAgo ELSE t - 1

Tick ==
    /\ \A p \in Pid : pc[p] = "sampled" => age[p] < MaxDelay
    /\ Prompt => \A p \in Pid : pc[p] # "ready" /\ (pc[p] = "sleep" => wait[p] > 0)
    /\ lease' = [lease EXCEPT !.tmCurrent = Earlier(@), !.tmNext = Earlier(@)]
    /\ age' = [p \in Pid |-> IF pc[p] = "sampled" THEN age[p] + 1 ELSE age[p]]
    /\ wait' = [p \in Pid |-> IF wait[p] > 0 THEN wait[p] - 1 ELSE 0]
    /\ sinceRun' = IF sinceRun < LEASE THEN sinceRun + 1 ELSE sinceRun
    /\ UNCHANGED <<pc, noDelay, requests, due>>

Decide(p) == NotNeeded(p) \/ BeginWork(p) \/ NoDelayExit(p) \/ GoOnDeck(p)

Next ==
    \/ \E u \in User : CheckIfNeeded(u)
    \/ \E p \in Pid :
         \/ RunIfNeeded(p) \/ BackofficeCommand(p)
         \/ SampleClock(p) \/ Decide(p) \/ Wake(p) \/ WorkDone(p) \/ Exit(p)
         \/ Die(p) \/ OtherStarts(p) \/ OtherExits(p)
    \/ Tick

Spec == Init /\ [][Next]_vars

(* Every process is scheduled again, the write lock is granted, a run of   *)
(* backoffice_work() ends and time passes.  Nothing makes a process die,   *)
(* an operator act or a foreign process leave.  fork() gets a pid although *)
(* other processes come and go: the fairness of RunIfNeeded is strong,     *)
(* because the few pids of an instance can all be taken now and then.      *)
Fairness ==
    /\ WF_vars(Tick)
    /\ SF_vars(\E p \in Pid : RunIfNeeded(p))
    /\ \A p \in Pid : /\ WF_vars(SampleClock(p) \/ Decide(p) \/ Wake(p))
                      /\ WF_vars(WorkDone(p)) /\ WF_vars(Exit(p))

LiveSpec == Spec /\ Fairness

(* The same system when somebody resets the lease now and then.            *)
OperatedNext == Next \/ ResetLease
OperatedSpec == Init /\ [][OperatedNext]_vars

-----------------------------------------------------------------------------
OneUser == \A p, q \in Pid : Owner[p] = Owner[q]

(* "Steps are taken to ensure that only a single backoffice process is     *)
(* running at a time": whoever is in backoffice_work() under the lease is  *)
(* the process that the lease names.                                       *)
WorkerHoldsLease == \A p \in Pid : pc[p] = "work" => lease.idCurrent = p

(* No two processes are in backoffice_work() under the lease.              *)
AtMostOneWorker == \A p, q \in Pid : pc[p] = "work" /\ pc[q] = "work" => p = q

(* "backoffice runs will not occur more frequently than once every 60      *)
(* seconds" (doc/web/backoffice.md:58), less the time for which a process  *)
(* waits for the write lock after it has read the clock.                   *)
SpacedByLeaseLessDelay ==
    [][\A p \in Pid : pc[p] # "work" /\ pc'[p] = "work" =>
          sinceRun >= LEASE - MaxDelay]_vars

(* A web reply that asks for background work gets a run that starts after  *)
(* the request, also when the check told it that a process is on deck.     *)
RequestsAreServed == due ~> ~due

(* The stand-by process "will become the main process after a delay"       *)
(* (backoffice.c:41-43): it does not go on deck again and again for ever.  *)
LeavesDeck(p) == pc[p] = "sleep" ~> pc[p] \in {"work", "exiting", "none"}
OnDeckLeavesDeck == \A p \in Pid : LeavesDeck(p)
=============================================================================
