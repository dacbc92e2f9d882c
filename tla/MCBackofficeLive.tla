-------------------------- MODULE MCBackofficeLive --------------------------
(* The liveness of Backoffice, in two instances of which the initial state *)
(* chooses one.  "deck": prompt scheduling, so that newcomers do not push  *)
(* the stand-by aside for ever; without it the code promises nothing.      *)
(* "served": any scheduling, with operators that reset the lease.          *)
EXTENDS Naturals

CONSTANTS Pid, NoPid, User, Owner, MaxDelay, MaxRequests, p1, p2, p3, alice

VARIABLES part, lease, pc, noDelay, age, wait, requests, due, sinceRun
vars == <<part, lease, pc, noDelay, age, wait, requests, due, sinceRun>>

D == INSTANCE Backoffice WITH
    LEASE <- 3, Crashes <- FALSE, ReusePids <- FALSE, Foreign <- FALSE,
    Prompt <- TRUE, Operator <- FALSE
S == INSTANCE Backoffice WITH
    LEASE <- 2, Crashes <- FALSE, ReusePids <- FALSE, Foreign <- FALSE,
    Prompt <- FALSE, Operator <- TRUE

SameOwner == [p \in Pid |-> CHOOSE u \in User : TRUE]

-----------------------------------------------------------------------------
Init ==
    \/ part = "deck" /\ D!Init
    \/ part = "served" /\ S!Init

Either(InDeck, InServed) ==
    /\ UNCHANGED part
    /\ \/ part = "deck" /\ InDeck
       \/ part = "served" /\ InServed

Next ==
    /\ \/ part = "deck" /\ D!Next
       \/ part = "served" /\ S!OperatedNext
    /\ UNCHANGED part

(* The fairness of Backoffice, for both.                                   *)
Fairness ==
    /\ WF_vars(Either(D!Tick, S!Tick))
    /\ SF_vars(\E p \in Pid : Either(D!RunIfNeeded(p), S!RunIfNeeded(p)))
    /\ \A p \in Pid :
         /\ WF_vars(Either(D!SampleClock(p) \/ D!Decide(p) \/ D!Wake(p),
                           S!SampleClock(p) \/ S!Decide(p) \/ S!Wake(p)))
         /\ WF_vars(Either(D!WorkDone(p), S!WorkDone(p)))
         /\ WF_vars(Either(D!Exit(p), S!Exit(p)))

Spec == Init /\ [][Next]_vars /\ Fairness

-----------------------------------------------------------------------------
(* The properties of Backoffice, each of its part.  The processes are      *)
(* interchangeable, and so p1 speaks for all that are on deck.             *)
RequestsAreServed == part = "served" => S!RequestsAreServed
OnDeckLeavesDeck == part = "deck" => D!LeavesDeck(p1)
=============================================================================
