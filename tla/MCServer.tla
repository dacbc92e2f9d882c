----------------------------- MODULE MCServer -------------------------------
(* What a server does for its users besides the sync of artifacts, checked *)
(* in one run: check-in locks, the e-mail alerts with the moderation they  *)
(* depend on, and the after-receive hooks.  None of these touches the      *)
(* state of another; the initial state chooses one, and the variables of   *)
(* the others do not change.                                               *)
EXTENDS CheckinLock, MCAlerts

CONSTANTS
    DAY, WAIT, MaxTime, MaxReceipts, MaxKills,
    alice, bob

VARIABLES
    part,
    (* the variables of Hooks; hookExcused is its excused *)
    clock, received, watermark, embargo, hooks, told, hookExcused, kills

H == INSTANCE Hooks WITH excused <- hookExcused

hookVars == <<clock, received, watermark, embargo, hooks, told, hookExcused,
              kills>>
allVars == <<part, vars, alertsVars, hookVars>>

ASSUME CheckinLockAssumption /\ AlertsAssumption /\ H!HooksAssumption

-----------------------------------------------------------------------------
(* CheckinLock: alice commits once, bob twice; a wiki page appears, too.    *)
RootDef == <<"trunk">>
NotesDef == {<<"wiki">>}
MaxCommitsDef == [c \in Client |-> IF c = bob THEN 2 ELSE 1]

-----------------------------------------------------------------------------
InitOfParts ==
    /\ part \in {"lock", "alerts", "hooks"}
    /\ Init /\ AlertsInit /\ H!Init
    /\ part # "alerts" => ~newDay /\ cast = {p, q}

Locking(A) == part = "lock" /\ A /\ UNCHANGED <<part, alertsVars, hookVars>>
Alerting(A) == part = "alerts" /\ A /\ UNCHANGED <<part, vars, hookVars>>
Hooking(A) == part = "hooks" /\ A /\ UNCHANGED <<part, vars, alertsVars>>

NextOfParts == Locking(Next) \/ Alerting(AlertsNext) \/ Hooking(H!Next)

(* The fairness of CheckinLock, of Alerts and of Hooks.                    *)
FairnessOfParts ==
    /\ WF_allVars(Alerting(Step) \/ Hooking(H!Run))
    /\ WF_allVars(Alerting(NewDay) \/ Hooking(H!Tick))
    /\ WF_allVars(Locking(\E id \in DOMAIN lock : Timeout(id)))
    /\ \A c \in Client :
         /\ WF_allVars(Locking(Serve(c, TRUE)))
         /\ WF_allVars(Locking(Receive(c)))
         /\ WF_allVars(Locking(Edited(c)))
         /\ c \in Busy => \A name \in {"first", "update", "push"} :
                SF_allVars(Locking(Begin(c, name)))

SpecOfParts == InitOfParts /\ [][NextOfParts]_allVars /\ FairnessOfParts

-----------------------------------------------------------------------------
(* No lock, of a client that has left for ever either, keeps another one   *)
(* from getting its work to the server in the end, where it stays.         *)
EveryCommitArrives == \A c \in Busy : <>[](part = "lock" => Arrived(c))

(* Whoever keeps a hook configured has the hooks told of every receipt in  *)
(* the end; with the types of what the backoffice works on.                *)
ReceiptsAreHeard ==
    [](AlertsTypeOK /\ H!TypeOK) /\ (<>[]H!Configured => []<>H!AllHeard)
=============================================================================
