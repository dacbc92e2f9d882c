-------------------------- MODULE BackofficeProofs --------------------------
(***************************************************************************)
(* Theorems about two of the parts that MCBackoffice checks.               *)
(*                                                                         *)
(* The backoffice lease, for every set of processes, lease length and lock *)
(* delay: they do not depend on how the operating system reuses pids, on   *)
(* crashes or on the scheduler.                                            *)
(*                                                                         *)
(* The delta encoder, for all texts, every width of the window, every hash *)
(* function and every limit on chains: a delta gives its target back.      *)
(***************************************************************************)
EXTENDS Backoffice, Delta, FiniteLemmas, SequenceTheorems, TLAPS

-----------------------------------------------------------------------------
(* The backoffice lease.                                                   *)

(* Every variable keeps its type: in particular no lease time and no sleep *)
(* ever exceeds the bounds that LEASE and the lock delay give, whatever    *)
(* operators do.                                                           *)
THEOREM TypeCorrect == OperatedSpec => []TypeOK
<1>1. Init => TypeOK
  <2> SUFFICES ASSUME Init PROVE TypeOK
    OBVIOUS
  <2>1. LongAgo \in LongAgo .. LEASE /\ LongAgo \in LongAgo .. (LEASE + LEASE)
    BY ConstantsAssumption DEF LongAgo
  <2>2. NoLease \in Lease
    BY <2>1 DEF NoLease, Lease
  <2>3. /\ 0 \in 0 .. MaxDelay /\ 0 \in 0 .. (LEASE + MaxDelay + 1)
        /\ 0 \in 0 .. MaxRequests /\ LEASE \in 0 .. LEASE
    BY ConstantsAssumption
  <2> QED
    BY <2>2, <2>3 DEF Init, TypeOK, PC
<1>2. TypeOK /\ [OperatedNext]_vars => TypeOK'
  <2> SUFFICES ASSUME TypeOK, [OperatedNext]_vars PROVE TypeOK'
    OBVIOUS
  <2> USE ConstantsAssumption
  <2>1. ASSUME NEW u \in User, CheckIfNeeded(u) PROVE TypeOK'
    BY <2>1 DEF CheckIfNeeded, TypeOK
  <2>2. ASSUME NEW p \in Pid, RunIfNeeded(p) PROVE TypeOK'
    BY <2>2 DEF RunIfNeeded, TypeOK, PC
  <2>3. ASSUME NEW p \in Pid, BackofficeCommand(p) PROVE TypeOK'
    BY <2>3 DEF BackofficeCommand, TypeOK, PC
  <2>4. ASSUME NEW p \in Pid, SampleClock(p) PROVE TypeOK'
    BY <2>4 DEF SampleClock, TypeOK, PC
  <2>5. ASSUME NEW p \in Pid, NotNeeded(p) PROVE TypeOK'
    BY <2>5 DEF NotNeeded, TypeOK, PC
  <2>6. ASSUME NEW p \in Pid, BeginWork(p) PROVE TypeOK'
    <3>1. SampledNow(p) \in LongAgo .. 0
      BY DEF TypeOK, SampledNow, LongAgo
    <3>2. /\ SampledNow(p) + LEASE \in LongAgo .. LEASE
          /\ LongAgo \in LongAgo .. (LEASE + LEASE)
      BY <3>1 DEF LongAgo
    <3>3. lease' \in Lease
      BY <2>6, <3>2 DEF BeginWork, Lease
    <3>4. pc' \in [Pid -> PC] /\ age' \in [Pid -> 0 .. MaxDelay]
      BY <2>6 DEF BeginWork, TypeOK, PC
    <3>5. due' \in BOOLEAN
      BY <2>6, Zenon DEF BeginWork
    <3>6. sinceRun' \in 0 .. LEASE
      BY <2>6 DEF BeginWork
    <3> QED
      BY <2>6, <3>3, <3>4, <3>5, <3>6 DEF BeginWork, TypeOK
  <2>7. ASSUME NEW p \in Pid, NoDelayExit(p) PROVE TypeOK'
    BY <2>7 DEF NoDelayExit, TypeOK, PC
  <2>8. ASSUME NEW p \in Pid, GoOnDeck(p) PROVE TypeOK'
    <3>1. SampledNow(p) \in -MaxDelay .. 0
      BY DEF TypeOK, SampledNow
    <3>2. lease.tmCurrent \in LongAgo .. LEASE
      BY DEF TypeOK, Lease
    <3>3. LaterOf(SampledNow(p), lease.tmCurrent) + LEASE
            \in LongAgo .. (LEASE + LEASE)
      BY <3>1, <3>2 DEF LaterOf, LongAgo
    <3>4. lease' \in Lease
      BY <2>8, <3>3 DEF GoOnDeck, TypeOK, Lease
    <3>5. wait' \in [Pid -> 0 .. (LEASE + MaxDelay + 1)]
      BY <2>8, <3>1, <3>2 DEF GoOnDeck, TypeOK, LongAgo
    <3> QED
      BY <2>8, <3>4, <3>5 DEF GoOnDeck, TypeOK, PC
  <2>9. ASSUME NEW p \in Pid, Wake(p) PROVE TypeOK'
    BY <2>9 DEF Wake, TypeOK, PC
  <2>10. ASSUME NEW p \in Pid, WorkDone(p) PROVE TypeOK'
    BY <2>10 DEF WorkDone, TypeOK, PC
  <2>11. ASSUME NEW p \in Pid, Exit(p) PROVE TypeOK'
    BY <2>11 DEF Exit, TypeOK, PC
  <2>12. ASSUME NEW p \in Pid, Die(p) PROVE TypeOK'
    BY <2>12 DEF Die, TypeOK, PC
  <2>13. ASSUME NEW p \in Pid, OtherStarts(p) PROVE TypeOK'
    BY <2>13 DEF OtherStarts, TypeOK, PC
  <2>14. ASSUME NEW p \in Pid, OtherExits(p) PROVE TypeOK'
    BY <2>14 DEF OtherExits, TypeOK, PC
  <2>15. CASE ResetLease
    <3>1. LongAgo \in LongAgo .. LEASE /\ LongAgo \in LongAgo .. (LEASE + LEASE)
      BY DEF LongAgo
    <3> QED
      BY <2>15, <3>1 DEF ResetLease, TypeOK, Lease, NoLease
  <2>16. CASE Tick
    <3>1. lease' \in Lease
      <4>1. \A t \in LongAgo .. LEASE : Earlier(t) \in LongAgo .. LEASE
        BY DEF Earlier, LongAgo
      <4>2. \A t \in LongAgo .. (LEASE + LEASE) :
               Earlier(t) \in LongAgo .. (LEASE + LEASE)
        BY DEF Earlier, LongAgo
      <4> QED
        BY <2>16, <4>1, <4>2 DEF Tick, TypeOK, Lease
    <3>2. age' \in [Pid -> 0 .. MaxDelay]
      BY <2>16 DEF Tick, TypeOK
    <3>3. wait' \in [Pid -> 0 .. (LEASE + MaxDelay + 1)]
      BY <2>16 DEF Tick, TypeOK
    <3>4. sinceRun' \in 0 .. LEASE
      BY <2>16 DEF Tick, TypeOK
    <3> QED
      BY <2>16, <3>1, <3>2, <3>3, <3>4 DEF Tick, TypeOK
  <2>17. CASE UNCHANGED vars
    BY <2>17 DEF vars, TypeOK
  <2> QED
    BY <2>1, <2>2, <2>3, <2>4, <2>5, <2>6, <2>7, <2>8, <2>9, <2>10, <2>11,
       <2>12, <2>13, <2>14, <2>15, <2>16, <2>17 DEF OperatedNext, Next, Decide
<1> QED
  BY <1>1, <1>2, PTL DEF OperatedSpec

-----------------------------------------------------------------------------
(* A process that is in backoffice_work() exists for the others.           *)
LEMMA WorkerIsNotDone ==
  ASSUME TypeOK, OneUser, NEW p \in Pid, NEW q \in Pid, pc[q] = "work"
  PROVE  ~ProcessDone(Owner[p], q)
BY ConstantsAssumption DEF ProcessDone, KillOk, OneUser

(* The inductive step of the mutual exclusion: the lease names the worker. *)
LEMMA WorkerHoldsLeaseStep ==
  ASSUME OneUser, TypeOK, WorkerHoldsLease, [Next]_vars
  PROVE  WorkerHoldsLease'
<1> USE ConstantsAssumption DEF TypeOK, WorkerHoldsLease
<1>1. ASSUME NEW p \in Pid, BeginWork(p) PROVE WorkerHoldsLease'
  <2>1. \A q \in Pid : pc[q] # "work"
    <3> SUFFICES ASSUME NEW q \in Pid, pc[q] = "work" PROVE FALSE
      OBVIOUS
    <3>1. lease.idCurrent = q
      OBVIOUS
    <3>2. ~ProcessDone(Owner[p], q)
      BY WorkerIsNotDone
    <3> QED
      BY <1>1, <3>1, <3>2 DEF BeginWork, MayStart
  <2>2. lease'.idCurrent = p
    BY <1>1 DEF BeginWork
  <2> QED
    BY <1>1, <2>1, <2>2 DEF BeginWork
<1>2. ASSUME NEW p \in Pid, GoOnDeck(p) PROVE WorkerHoldsLease'
  <2>1. lease'.idCurrent = lease.idCurrent
    BY <1>2 DEF GoOnDeck, Lease
  <2> QED
    BY <1>2, <2>1 DEF GoOnDeck
<1>3. CASE Tick
  <2>1. lease'.idCurrent = lease.idCurrent
    BY <1>3 DEF Tick, Lease
  <2> QED
    BY <1>3, <2>1 DEF Tick
<1>4. ASSUME NEW p \in Pid,
             \/ RunIfNeeded(p) \/ BackofficeCommand(p) \/ SampleClock(p)
             \/ NotNeeded(p) \/ NoDelayExit(p) \/ Wake(p) \/ WorkDone(p)
             \/ Exit(p) \/ Die(p) \/ OtherStarts(p) \/ OtherExits(p)
      PROVE WorkerHoldsLease'
  BY <1>4 DEF RunIfNeeded, BackofficeCommand, SampleClock, NotNeeded,
              NoDelayExit, Wake, WorkDone, Exit, Die, OtherStarts, OtherExits
<1>5. CASE (\E u \in User : CheckIfNeeded(u)) \/ UNCHANGED vars
  BY <1>5 DEF CheckIfNeeded, vars
<1> QED
  BY <1>1, <1>2, <1>3, <1>4, <1>5 DEF Next, Decide

(* Where all backoffice processes run as one user and nobody resets the    *)
(* lease, at most one of them is in backoffice_work() under the lease,     *)
(* however many backoffice commands operators start.                       *)
THEOREM MutualExclusion ==
  ASSUME OneUser
  PROVE  Spec => [](WorkerHoldsLease /\ AtMostOneWorker)
<1>1. Init => WorkerHoldsLease
  BY DEF Init, WorkerHoldsLease
<1>2. TypeOK /\ WorkerHoldsLease /\ [Next]_vars => WorkerHoldsLease'
  BY WorkerHoldsLeaseStep
<1>3. WorkerHoldsLease => AtMostOneWorker
  BY DEF WorkerHoldsLease, AtMostOneWorker
<1>4. Spec => []TypeOK
  <2>1. [Next]_vars => [OperatedNext]_vars
    BY DEF OperatedNext
  <2> QED
    BY <2>1, TypeCorrect, PTL DEF Spec, OperatedSpec
<1> QED
  BY <1>1, <1>2, <1>3, <1>4, PTL DEF Spec

-----------------------------------------------------------------------------
(* The current lease runs out no sooner than LEASE seconds after the last  *)
(* run began, less the age that the clock had then.                        *)
LeaseCoversRun ==
    lease.tmCurrent + sinceRun >= LEASE - MaxDelay \/ sinceRun = LEASE

LEMMA LeaseCoversRunStep ==
  ASSUME TypeOK, LeaseCoversRun, [Next]_vars
  PROVE  /\ LeaseCoversRun'
         /\ \A p \in Pid : pc[p] # "work" /\ pc'[p] = "work" => sinceRun >= LEASE - MaxDelay
<1> DEFINE Spaced == \A p \in Pid : pc[p] # "work" /\ pc'[p] = "work" =>
                                        sinceRun >= LEASE - MaxDelay
<1> USE ConstantsAssumption
<1>1. /\ lease.tmCurrent \in Int /\ sinceRun \in 0 .. LEASE
      /\ \A p \in Pid : age[p] \in 0 .. MaxDelay /\ pc[p] \in PC
      /\ pc \in [Pid -> PC]
  BY DEF TypeOK, Lease, LongAgo
<1>2. ASSUME NEW p \in Pid, BeginWork(p) PROVE LeaseCoversRun' /\ Spaced
  <2>1. lease.tmCurrent < 0
    BY <1>1, <1>2 DEF BeginWork, MayStart, SampledNow
  <2>2. sinceRun >= LEASE - MaxDelay
    BY <1>1, <2>1 DEF LeaseCoversRun
  <2>3. lease'.tmCurrent = LEASE - age[p] /\ sinceRun' = 0
    BY <1>1, <1>2 DEF BeginWork, SampledNow
  <2>4. LeaseCoversRun'
    BY <1>1, <2>3 DEF LeaseCoversRun
  <2> QED BY <2>2, <2>4
<1>3. ASSUME NEW p \in Pid, GoOnDeck(p) PROVE LeaseCoversRun' /\ Spaced
  <2>1. lease'.tmCurrent = lease.tmCurrent
    BY <1>3 DEF GoOnDeck, TypeOK, Lease
  <2> QED BY <1>1, <1>3, <2>1 DEF GoOnDeck, LeaseCoversRun
<1>4. CASE Tick
  <2>1. lease'.tmCurrent = Earlier(lease.tmCurrent)
    BY <1>4 DEF Tick, TypeOK, Lease
  <2>2. Earlier(lease.tmCurrent) >= lease.tmCurrent - 1
    BY <1>1 DEF Earlier
  <2>3. sinceRun' = IF sinceRun < LEASE THEN sinceRun + 1 ELSE sinceRun
    BY <1>4 DEF Tick
  <2>4. Earlier(lease.tmCurrent) \in Int
    BY <1>1 DEF Earlier, LongAgo
  <2>5. LeaseCoversRun'
    BY <1>1, <2>1, <2>2, <2>3, <2>4 DEF LeaseCoversRun
  <2> QED BY <1>4, <2>5 DEF Tick
<1>5. ASSUME NEW p \in Pid,
             \/ RunIfNeeded(p) \/ BackofficeCommand(p) \/ SampleClock(p)
             \/ NotNeeded(p) \/ NoDelayExit(p) \/ Wake(p) \/ WorkDone(p)
             \/ Exit(p) \/ Die(p) \/ OtherStarts(p) \/ OtherExits(p)
      PROVE  LeaseCoversRun' /\ Spaced
  <2>1. lease' = lease /\ sinceRun' = sinceRun
    BY <1>5 DEF RunIfNeeded, BackofficeCommand, SampleClock, NotNeeded,
                NoDelayExit, Wake, WorkDone, Exit, Die, OtherStarts, OtherExits
  <2>2. \E w \in PC \ {"work"} : pc' = [pc EXCEPT ![p] = w]
    BY <1>5 DEF RunIfNeeded, BackofficeCommand, SampleClock, NotNeeded,
                NoDelayExit, Wake, WorkDone, Exit, Die, OtherStarts, OtherExits, PC
  <2> QED BY <1>1, <2>1, <2>2 DEF LeaseCoversRun
<1>6. CASE (\E u \in User : CheckIfNeeded(u)) \/ UNCHANGED vars
  BY <1>6 DEF CheckIfNeeded, vars, LeaseCoversRun
<1> QED
  BY <1>2, <1>3, <1>4, <1>5, <1>6 DEF Next, Decide

(* backoffice.md:58: leased runs are spaced by the lease time, less the    *)
(* wait for the write lock, whoever the processes run as, whatever pids    *)
(* are used again, and whenever processes die.                             *)
THEOREM RunsAreSpaced == Spec => SpacedByLeaseLessDelay
<1>1. Init => LeaseCoversRun
  BY DEF Init, LeaseCoversRun
<1>2. TypeOK /\ LeaseCoversRun /\ [Next]_vars =>
        /\ LeaseCoversRun'
        /\ \A p \in Pid : pc[p] # "work" /\ pc'[p] = "work" => sinceRun >= LEASE - MaxDelay
  BY LeaseCoversRunStep
<1>3. Spec => []TypeOK
  <2>1. [Next]_vars => [OperatedNext]_vars
    BY DEF OperatedNext
  <2> QED
    BY <2>1, TypeCorrect, PTL DEF Spec, OperatedSpec
<1> QED
  BY <1>1, <1>2, <1>3, PTL DEF Spec, SpacedByLeaseLessDelay

-----------------------------------------------------------------------------
(* The delta encoder: facts about numbers, texts and their pieces.         *)
LEMMA Smaller == ASSUME NEW a \in Int, NEW b \in Int
                 PROVE  Min({a, b}) = IF a <= b THEN a ELSE b
<1>1. \E x \in {a, b} : \A y \in {a, b} : x <= y
  OBVIOUS
<1> DEFINE m == Min({a, b})
<1>2. m \in {a, b} /\ \A y \in {a, b} : m <= y
  BY <1>1 DEF Min
<1> HIDE DEF m
<1> QED BY <1>2 DEF m

LEMMA Larger == ASSUME NEW a \in Int, NEW b \in Int
                PROVE  Max({a, b}) = IF a >= b THEN a ELSE b
<1>1. \E x \in {a, b} : \A y \in {a, b} : x >= y
  OBVIOUS
<1> DEFINE m == Max({a, b})
<1>2. m \in {a, b} /\ \A y \in {a, b} : m >= y
  BY <1>1 DEF Max
<1> HIDE DEF m
<1> QED BY <1>2 DEF m

-----------------------------------------------------------------------------
(* Pieces of a text.                                                       *)
LEMMA PieceOf ==
    ASSUME NEW S, NEW T \in Seq(S), NEW at \in Nat, NEW n \in Nat, at + n <= Len(T)
    PROVE  /\ Piece(T, at, n) \in Seq(S) /\ Len(Piece(T, at, n)) = n
           /\ \A d \in 1 .. n : Piece(T, at, n)[d] = T[at + d]
<1>1. \A d \in at + 1 .. at + n : T[d] \in S
  BY ElementOfSeq, LenProperties
<1>2. /\ SubSeq(T, at + 1, at + n) \in Seq(S)
      /\ Len(SubSeq(T, at + 1, at + n)) = (IF at + 1 <= at + n THEN at + n - (at + 1) + 1 ELSE 0)
      /\ \A d \in 1 .. at + n - (at + 1) + 1 : SubSeq(T, at + 1, at + n)[d] = T[at + 1 + d - 1]
  BY <1>1, SubSeqProperties
<1> QED BY <1>2 DEF Piece

LEMMA PieceAppended ==
    ASSUME NEW S, NEW T \in Seq(S), NEW a \in Nat, NEW b \in Nat, a <= b, b <= Len(T)
    PROVE  SubSeq(T, 1, a) \o Piece(T, a, b - a) = SubSeq(T, 1, b)
<1>1. Len(T) \in Nat
  BY LenProperties
<1>2. SubSeq(T, 1, a) \o SubSeq(T, a + 1, b) = SubSeq(T, 1, b)
  BY <1>1, ConcatAdjacentSubSeq
<1> QED BY <1>2 DEF Piece

-----------------------------------------------------------------------------
(* What a list of commands makes: the ends of the pieces of the target     *)
(* that they stand for, one behind the other.                              *)
Commands == [op : {"@"}, cnt : Nat, ofst : Nat] \cup [op : {":"}, text : Seq(Byte)]

Makes(e, x, y) ==
    /\ x <= y /\ y <= Len(target)
    /\ \/ /\ e.op = "@" /\ e.cnt = y - x /\ e.ofst \in Nat /\ e.ofst + e.cnt <= Len(src)
          /\ Piece(src, e.ofst, e.cnt) = Piece(target, x, y - x)
       \/ e.op = ":" /\ e.text = Piece(target, x, y - x)

Covers(at, D, n) ==
    /\ at \in [0 .. Len(D) -> Nat] /\ at[0] = 0 /\ at[Len(D)] = n
    /\ \A r \in 1 .. Len(D) : Makes(D[r], at[r-1], at[r])

Covered(D, n) == \E at : Covers(at, D, n)

LEMMA NothingCovered == Covered(<<>>, 0)
<1> DEFINE at == [r \in 0 .. 0 |-> 0]
<1>1. at \in [0 .. Len(<<>>) -> Nat] /\ at[0] = 0 /\ at[Len(<<>>)] = 0
  OBVIOUS
<1>2. 1 .. Len(<<>>) = {}
  OBVIOUS
<1>3. Covers(at, <<>>, 0)
  BY <1>1, <1>2 DEF Covers
<1> QED BY <1>3 DEF Covered

LEMMA OneMore ==
    ASSUME NEW D \in Seq(Commands), NEW n \in Nat, Covered(D, n),
           NEW e \in Commands, NEW m \in Nat, Makes(e, n, m)
    PROVE  Covered(D \o <<e>>, m) /\ D \o <<e>> \in Seq(Commands)
<1> PICK at : Covers(at, D, n)
  BY DEF Covered
<1> DEFINE E == Append(D, e)
           new == [r \in 0 .. Len(D) + 1 |-> IF r <= Len(D) THEN at[r] ELSE m]
<1>1. /\ E \in Seq(Commands) /\ Len(E) = Len(D) + 1 /\ Len(D) \in Nat
      /\ (\A r \in 1 .. Len(D) : E[r] = D[r]) /\ E[Len(D) + 1] = e
  BY AppendProperties, LenProperties
<1>2. at \in [0 .. Len(D) -> Nat] /\ at[0] = 0 /\ at[Len(D)] = n
      /\ \A r \in 1 .. Len(D) : Makes(D[r], at[r-1], at[r])
  BY DEF Covers
<1>3. /\ new \in [0 .. Len(D) + 1 -> Nat] /\ new[0] = 0 /\ new[Len(D) + 1] = m
      /\ \A r \in 0 .. Len(D) : new[r] = at[r]
  BY <1>1, <1>2
<1> HIDE DEF E, new
<1>4. ASSUME NEW r \in 1 .. Len(E)
      PROVE  Makes(E[r], new[r-1], new[r])
  <2>1. CASE r <= Len(D)
    <3>1. E[r] = D[r] /\ new[r-1] = at[r-1] /\ new[r] = at[r] /\ r \in 1 .. Len(D)
      BY <1>1, <1>3, <2>1
    <3> QED BY <1>2, <3>1
  <2>2. CASE r = Len(D) + 1
    <3>1. E[r] = e /\ new[r-1] = n /\ new[r] = m
      BY <1>1, <1>2, <1>3, <2>2
    <3> QED BY <3>1
  <2> QED BY <1>1, <2>1, <2>2
<1>5. Covers(new, E, m)
  BY <1>1, <1>3, <1>4 DEF Covers
<1>6. E = D \o <<e>>
  BY AppendIsConcat DEF E
<1> QED BY <1>1, <1>5, <1>6 DEF Covered

-----------------------------------------------------------------------------
(* What is found in the source.                                            *)
Texts == src \in Seq(Byte) /\ target \in Seq(Byte)

LEMMA BlockStarts ==
    ASSUME DeltaAssumption, Texts, NEW b \in Blocks
    PROVE  b \in 0 .. nHash /\ nHash \in Nat /\ b * NHASH \in Nat /\ b * NHASH <= Len(src)
<1>1. Len(src) \in Nat /\ NHASH \in Nat \ {0}
  BY LenProperties DEF Texts, DeltaAssumption
<1>2. nHash \in Nat
  <2>1. \A x \in Nat, y \in Nat \ {0} : x \div y \in Nat
    OBVIOUS
  <2> QED BY <1>1, <2>1 DEF nHash
<1>3. b \in Nat /\ b \in 0 .. nHash /\ b * NHASH < Len(src) - NHASH
  BY <1>2 DEF Blocks
<1>4. b * NHASH \in Nat
  <2>1. \A x, y \in Nat : x * y \in Nat
    OBVIOUS
  <2> QED BY <1>1, <1>3, <2>1
<1> QED BY <1>1, <1>2, <1>3, <1>4

(* A match is as long in the source as in the target, and ends in both.    *)
LEMMA MatchIsRight ==
    ASSUME DeltaAssumption, Texts, NEW b \in Blocks,
           base \in Nat, i \in Nat, base + i <= Len(target)
    PROVE  LET m == Match(b) IN
           /\ m.cnt \in Nat /\ m.ofst \in Nat /\ m.litsz \in Nat
           /\ m.ofst + m.cnt <= Len(src) /\ base + m.litsz + m.cnt <= Len(target)
           /\ Piece(src, m.ofst, m.cnt) = Piece(target, base + m.litsz, m.cnt)
<1> DEFINE iSrc == b * NHASH
           Forward(n) == \A d \in 0 .. n - 1 : src[iSrc + d + 1] = target[base + i + d + 1]
           Backward(n) == \A d \in 1 .. n : src[iSrc - d + 1] = target[base + i - d + 1]
           FN == Min({Len(src) - iSrc, Len(target) - base - i})
           BN == Min({Max({iSrc - 1, 0}), i})
           FS == {n \in 0 .. FN : Forward(n)}
           BS == {n \in 0 .. BN : Backward(n)}
           j == Max(FS)
           k == Max(BS)
<1>1. Len(src) \in Nat /\ Len(target) \in Nat /\ iSrc \in Nat /\ iSrc <= Len(src)
  BY LenProperties, BlockStarts DEF Texts
<1> HIDE DEF iSrc
<1>2. FN \in Nat /\ FN <= Len(src) - iSrc /\ FN <= Len(target) - base - i
  BY <1>1, Smaller
<1>3. BN \in Nat /\ BN <= iSrc /\ BN <= i
  <2>1. Max({iSrc - 1, 0}) \in Nat /\ Max({iSrc - 1, 0}) <= iSrc
    BY <1>1, Larger
  <2>2. PICK z \in Nat : z = Max({iSrc - 1, 0}) /\ z <= iSrc
    BY <2>1
  <2>3. BN = Min({z, i})
    BY <2>2
  <2> HIDE DEF BN
  <2>4. Min({z, i}) = IF z <= i THEN z ELSE i
    <3>1. z \in Int /\ i \in Int
      BY <2>2
    <3> QED BY <3>1, Smaller
  <2> QED BY <1>1, <2>2, <2>3, <2>4
<1> HIDE DEF FN, BN
<1>4. 0 \in FS /\ 0 \in BS /\ FS \subseteq 0 .. FN /\ BS \subseteq 0 .. BN
  BY <1>2, <1>3
<1>5. j \in 0 .. FN /\ Forward(j)
  <2>1. j \in FS
    BY <1>2, <1>4, Greatest
  <2> QED BY <2>1
<1>6. k \in 0 .. BN /\ Backward(k)
  <2>1. k \in BS
    BY <1>3, <1>4, Greatest
  <2> QED BY <2>1
<1>7. Match(b) = [cnt |-> j + k, ofst |-> iSrc - k, litsz |-> i - k]
  BY DEF Match, iSrc, FN, BN
<1> HIDE DEF FS, BS, j, k
<1>8. j \in Nat /\ k \in Nat /\ k <= iSrc /\ k <= i
      /\ iSrc + j <= Len(src) /\ base + i + j <= Len(target)
  BY <1>1, <1>2, <1>3, <1>5, <1>6
<1>9. \A d \in 1 .. j + k : src[iSrc - k + d] = target[base + i - k + d]
  <2> SUFFICES ASSUME NEW d \in 1 .. j + k PROVE src[iSrc - k + d] = target[base + i - k + d]
    OBVIOUS
  <2>1. CASE d <= k
    <3>1. k - d + 1 \in 1 .. k
      BY <1>8, <2>1
    <3>2. src[iSrc - (k - d + 1) + 1] = target[base + i - (k - d + 1) + 1]
      BY <1>6, <3>1
    <3>3. iSrc - (k - d + 1) + 1 = iSrc - k + d /\ base + i - (k - d + 1) + 1 = base + i - k + d
      BY <1>1, <1>8
    <3> QED BY <3>2, <3>3
  <2>2. CASE d > k
    <3>1. d - k - 1 \in 0 .. j - 1
      BY <1>8, <2>2
    <3>2. src[iSrc + (d - k - 1) + 1] = target[base + i + (d - k - 1) + 1]
      BY <1>5, <3>1
    <3>3. iSrc + (d - k - 1) + 1 = iSrc - k + d /\ base + i + (d - k - 1) + 1 = base + i - k + d
      BY <1>1, <1>8
    <3> QED BY <3>2, <3>3
  <2> QED BY <1>8, <2>1, <2>2
<1> HIDE DEF Forward, Backward
<1> DEFINE m == Match(b)
<1>10. m.cnt = j + k /\ m.ofst = iSrc - k /\ m.litsz = i - k
  BY <1>7
<1> HIDE DEF m
<1>11. /\ m.cnt \in Nat /\ m.ofst \in Nat /\ m.litsz \in Nat
       /\ m.ofst + m.cnt <= Len(src) /\ base + m.litsz + m.cnt <= Len(target)
  BY <1>1, <1>8, <1>10
<1>12. \A d \in 1 .. m.cnt : src[m.ofst + d] = target[base + m.litsz + d]
  BY <1>1, <1>8, <1>9, <1>10
<1>13. Piece(src, m.ofst, m.cnt) = Piece(target, base + m.litsz, m.cnt)
  <2>1. PICK at \in Nat, n \in Nat, o \in Nat : at = base + m.litsz /\ n = m.cnt /\ o = m.ofst
    BY <1>11
  <2>2. o + n <= Len(src) /\ at + n <= Len(target) /\ \A d \in 1 .. n : src[o + d] = target[at + d]
    BY <1>11, <1>12, <2>1
  <2>3. src \in Seq(Byte) /\ target \in Seq(Byte)
    BY DEF Texts
  <2>4. Piece(src, o, n) = Piece(target, at, n)
    <3> DEFINE P == Piece(src, o, n)
               Q == Piece(target, at, n)
    <3>1. P \in Seq(Byte) /\ Len(P) = n /\ \A d \in 1 .. n : P[d] = src[o + d]
      <4>1. o + n <= Len(src) /\ src \in Seq(Byte)
        BY <2>2, <2>3
      <4> QED BY <4>1, PieceOf
    <3>2. Q \in Seq(Byte) /\ Len(Q) = n /\ \A d \in 1 .. n : Q[d] = target[at + d]
      BY <2>2, <2>3, PieceOf
    <3> HIDE DEF P, Q
    <3>3. P = Q
      BY <2>2, <3>1, <3>2, SeqEqual
    <3> QED BY <3>3 DEF P, Q
  <2> QED BY <2>1, <2>4
<1> QED BY <1>11, <1>13 DEF m

LEMMA BestIsMatch ==
    ASSUME DeltaAssumption, Texts, Worth # {},
           base \in Nat, i \in Nat, base + i <= Len(target)
    PROVE  \E b \in Blocks : Best = Match(b)
<1> DEFINE lengths == {Match(b).cnt : b \in Worth}
           longest == Max(lengths)
           candidates == {b \in Worth : Match(b).cnt = longest}
<1>1. Len(src) \in Nat /\ Worth \subseteq Blocks
  BY LenProperties DEF Texts, Worth, Chain
<1>2. \A b \in Worth : Match(b).cnt \in 0 .. Len(src)
  BY <1>1, MatchIsRight
<1>3. \A x \in lengths : \E b \in Worth : x = Match(b).cnt
  OBVIOUS
<1>4. lengths # {}
  OBVIOUS
<1> HIDE DEF lengths
<1>5. lengths \subseteq 0 .. Len(src)
  BY <1>2, <1>3
<1>6. longest \in lengths
  BY <1>1, <1>4, <1>5, Greatest
<1> HIDE DEF longest
<1>7. candidates # {}
  BY <1>3, <1>6
<1>8. nHash \in Nat /\ candidates \subseteq 0 .. nHash
  BY <1>1, <1>7, BlockStarts
<1> HIDE DEF candidates
<1>9. Max(candidates) \in candidates
  BY <1>7, <1>8, Greatest
<1>10. Max(candidates) \in Worth
  BY <1>9 DEF candidates
<1>11. Best = Match(Max(candidates))
  BY DEF Best, longest, lengths, candidates
<1> QED BY <1>1, <1>10, <1>11

-----------------------------------------------------------------------------
(* The inductive invariant: the commands stand for the first base bytes of *)
(* the target, and what delta_apply() has made of the source is what those *)
(* before the next one stand for.                                          *)
Typed ==
    /\ src \in Source /\ target \in Target /\ from \in Source \cup Other
    /\ delta \in Seq(Commands)
    /\ base \in Nat /\ i \in Nat /\ base + i <= Len(target)
    /\ made \in Seq(Byte) /\ next \in 1 .. Len(delta) + 1
    /\ phase \in {"scan", "written", "apply", "done", "error"}

Begun ==
    /\ phase \in {"scan", "written"} => from = src /\ made = <<>> /\ next = 1
    /\ phase = "scan" /\ Len(src) <= NHASH => delta = <<>> /\ base = 0

Applied(at) == from = src => made = SubSeq(target, 1, at[next - 1])

IInv ==
    /\ Typed /\ Begun
    /\ phase # "scan" => base = Len(target)
    /\ \E at : Covers(at, delta, base) /\ Applied(at)
    /\ phase = "done" => Len(made) = Len(target)
    /\ from = src => phase # "error"

LEMMA TextTypes ==
    ASSUME DeltaAssumption, Typed
    PROVE  /\ Texts /\ from \in Seq(Byte)
           /\ Len(src) \in Nat /\ Len(target) \in Nat /\ Len(from) \in Nat /\ Len(delta) \in Nat
BY LenProperties DEF DeltaAssumption, Typed, Texts

LEMMA CommandTypes ==
    /\ \A n, o \in Nat : Copy(n, o) \in Commands /\ Copy(n, o).op = "@"
                           /\ Copy(n, o).cnt = n /\ Copy(n, o).ofst = o
    /\ \A t \in Seq(Byte) : Insert(t) \in Commands /\ Insert(t).op = ":" /\ Insert(t).text = t
BY DEF Copy, Insert, Commands

(* While the commands are written nothing has been applied.                *)
LEMMA NothingApplied ==
    ASSUME DeltaAssumption, Typed, Covered(delta, base), made = <<>>, next = 1
    PROVE  \E at : Covers(at, delta, base) /\ Applied(at)
<1> PICK at : Covers(at, delta, base)
  BY DEF Covered
<1>1. at[next - 1] = 0
  BY DEF Covers
<1>2. SubSeq(target, 1, 0) = <<>>
  BY SubSeqEmpty
<1> QED BY <1>1, <1>2 DEF Applied

LEMMA InitIInv == ASSUME DeltaAssumption, DeltaInit PROVE IInv
<1>1. Typed
  <2>1. Len(target) \in Nat /\ <<>> \in Seq(Commands) /\ <<>> \in Seq(Byte) /\ Len(delta) = 0
    BY LenProperties, EmptySeq DEF DeltaInit, DeltaAssumption
  <2> QED BY <2>1 DEF Typed, DeltaInit
<1>2. Begun /\ phase = "scan"
  BY DEF Begun, DeltaInit
<1>3. \E at : Covers(at, delta, base) /\ Applied(at)
  BY <1>1, NothingCovered, NothingApplied DEF DeltaInit
<1> QED BY <1>1, <1>2, <1>3 DEF IInv

(* A command makes a piece of n bytes.                                     *)
LEMMA CopyMakes ==
    ASSUME NEW x \in Nat, NEW n \in Nat, NEW o \in Nat, x + n <= Len(target), o + n <= Len(src),
           Piece(src, o, n) = Piece(target, x, n)
    PROVE  Makes(Copy(n, o), x, x + n)
<1> PICK y \in Nat : y = x + n
  OBVIOUS
<1>1. y - x = n /\ x <= y
  OBVIOUS
<1>2. Copy(n, o).op = "@" /\ Copy(n, o).cnt = n /\ Copy(n, o).ofst = o
  BY DEF Copy
<1>3. Makes(Copy(n, o), x, y)
  BY <1>1, <1>2 DEF Makes
<1> QED BY <1>3

LEMMA InsertMakes ==
    ASSUME NEW x \in Nat, NEW n \in Nat, x + n <= Len(target)
    PROVE  Makes(Insert(Piece(target, x, n)), x, x + n)
<1> PICK y \in Nat : y = x + n
  OBVIOUS
<1>1. y - x = n /\ x <= y
  OBVIOUS
<1> PICK t : t = Piece(target, x, n)
  OBVIOUS
<1>2. Insert(t).op = ":" /\ Insert(t).text = t
  BY DEF Insert
<1>3. Makes(Insert(t), x, y)
  BY <1>1, <1>2 DEF Makes
<1> QED BY <1>3

(* A literal of n bytes, if n is not 0.                                    *)
LEMMA WithLiteral ==
    ASSUME DeltaAssumption, Typed, Covered(delta, base), NEW n \in Nat, base + n <= Len(target)
    PROVE  Covered(delta \o Literal(n), base + n) /\ delta \o Literal(n) \in Seq(Commands)
<1>1. delta \in Seq(Commands) /\ base \in Nat /\ target \in Seq(Byte)
  BY TextTypes DEF Typed, Texts
<1>2. CASE n = 0
  <2>1. delta \o Literal(n) = delta /\ base + n = base
    BY <1>1, <1>2, ConcatEmptySeq DEF Literal
  <2> QED BY <1>1, <2>1
<1>3. CASE n > 0
  <2> PICK t : t = Piece(target, base, n)
    OBVIOUS
  <2> PICK m \in Nat : m = base + n
    BY <1>1
  <2>1. Insert(t) \in Commands
    <3>1. t \in Seq(Byte)
      BY <1>1, PieceOf
    <3> QED BY <3>1, CommandTypes
  <2>2. Makes(Insert(t), base, m)
    BY <1>1, InsertMakes
  <2>3. Literal(n) = <<Insert(t)>>
    BY <1>3 DEF Literal
  <2>4. Covered(delta \o <<Insert(t)>>, m) /\ delta \o <<Insert(t)>> \in Seq(Commands)
    BY <1>1, <2>1, <2>2, OneMore
  <2> QED BY <2>3, <2>4
<1> QED BY <1>2, <1>3

(* While the commands are written nothing has been applied.                *)
LEMMA Written ==
    ASSUME NEW D, NEW n, Covered(D, n), delta' = D, base' = n, made = <<>>, next = 1,
           UNCHANGED <<src, target, from, made, next>>
    PROVE  (\E at : Covers(at, delta, base) /\ Applied(at))'
<1>1. PICK at : Covers(at, D, n)
  BY DEF Covered
<1>2. Covers(at, delta, base)'
  BY <1>1 DEF Covers, Makes, Piece
<1>3. Applied(at)'
  <2>1. at[next' - 1] = 0
    BY <1>1 DEF Covers
  <2>2. SubSeq(target', 1, 0) = <<>>
    BY SubSeqEmpty
  <2> QED BY <2>1, <2>2 DEF Applied
<1> QED BY <1>2, <1>3

LEMMA WriteCopyStep == ASSUME DeltaAssumption, IInv, WriteCopy PROVE IInv'
<1>1. /\ Typed /\ Begun /\ phase = "scan" /\ Len(src) > NHASH /\ Worth # {}
      /\ delta' = delta \o Literal(Best.litsz) \o <<Copy(Best.cnt, Best.ofst)>>
      /\ base' = base + Best.litsz + Best.cnt /\ i' = 0
      /\ UNCHANGED <<src, target, from, made, next, phase>>
  BY DEF IInv, WriteCopy, Scanning
<1>2. /\ Texts /\ Len(target) \in Nat /\ Covered(delta, base) /\ Len(src) \in Nat /\ NHASH \in Nat
      /\ base \in Nat /\ i \in Nat /\ base + i <= Len(target)
      /\ from = src /\ made = <<>> /\ next = 1 /\ delta \in Seq(Commands)
  BY <1>1, TextTypes DEF Covered, IInv, Typed, Begun, DeltaAssumption
<1>3. PICK b \in Blocks : Best = Match(b)
  BY <1>1, <1>2, BestIsMatch
<1>4. /\ Best.cnt \in Nat /\ Best.ofst \in Nat /\ Best.litsz \in Nat
      /\ Best.ofst + Best.cnt <= Len(src) /\ base + Best.litsz + Best.cnt <= Len(target)
      /\ Piece(src, Best.ofst, Best.cnt) = Piece(target, base + Best.litsz, Best.cnt)
  BY <1>2, <1>3, MatchIsRight
<1>5. PICK cnt \in Nat, ofst \in Nat, litsz \in Nat :
        cnt = Best.cnt /\ ofst = Best.ofst /\ litsz = Best.litsz
  BY <1>4
<1> PICK e : e = Copy(cnt, ofst)
  OBVIOUS
<1> PICK D : D = delta \o Literal(litsz)
  OBVIOUS
<1> PICK x \in Nat : x = base + litsz
  BY <1>2
<1> PICK y \in Nat : y = x + cnt
  OBVIOUS
<1>6. Covered(D, x) /\ D \in Seq(Commands)
  <2>1. base + litsz + cnt <= Len(target)
    BY <1>4, <1>5
  <2>2. base + litsz <= Len(target)
    BY <1>2, <2>1
  <2> QED BY <1>1, <1>2, <2>2, WithLiteral
<1>7. e \in Commands
  BY CommandTypes
<1>8. Makes(e, x, y)
  <2>1. x + cnt <= Len(target) /\ ofst + cnt <= Len(src) /\ Piece(src, ofst, cnt) = Piece(target, x, cnt)
    BY <1>4, <1>5
  <2> QED BY <2>1, CopyMakes
<1>9. delta' = D \o <<e>> /\ base' = y
  BY <1>1, <1>5
<1>10. Covered(D \o <<e>>, y) /\ D \o <<e>> \in Seq(Commands)
  BY <1>6, <1>7, <1>8, OneMore
<1>11. y <= Len(target)
  BY <1>4, <1>5
<1>12. Typed'
  <2>0. base' = y /\ i' = 0 /\ Len(target') = Len(target) /\ y + 0 = y
    BY <1>1, <1>9
  <2>1. delta' \in Seq(Commands) /\ base' \in Nat /\ i' \in Nat /\ base' + i' <= Len(target')
    BY <1>9, <1>10, <1>11, <2>0
  <2>2. Len(delta') \in Nat
    BY <2>1, LenProperties
  <2> QED BY <1>1, <1>2, <2>1, <2>2 DEF Typed
<1>13. Begun'
  BY <1>1, <1>2 DEF Begun
<1>14. (\E at : Covers(at, delta, base) /\ Applied(at))'
  BY <1>1, <1>2, <1>9, <1>10, Written
<1> QED BY <1>1, <1>12, <1>13, <1>14 DEF IInv

LEMMA SlideStep == ASSUME DeltaAssumption, IInv, Slide PROVE IInv'
<1>1. /\ Typed /\ Begun /\ phase = "scan" /\ base + i + NHASH < Len(target) /\ i' = i + 1
      /\ UNCHANGED <<src, target, delta, base, from, made, next, phase>>
  BY DEF IInv, Slide, Scanning
<1>2. /\ Covered(delta, base) /\ made = <<>> /\ next = 1
  BY <1>1 DEF Covered, IInv, Begun
<1>3. Typed'
  <2>1. Len(target) \in Nat /\ NHASH \in Nat \ {0}
    BY <1>1, TextTypes DEF DeltaAssumption
  <2> QED BY <1>1, <2>1 DEF Typed
<1>4. Begun'
  BY <1>1 DEF Begun
<1>5. (\E at : Covers(at, delta, base) /\ Applied(at))'
  BY <1>1, <1>2, Written
<1> QED BY <1>1, <1>3, <1>4, <1>5 DEF IInv

LEMMA WriteRestStep == ASSUME DeltaAssumption, IInv, WriteRest PROVE IInv'
<1>1. /\ Typed /\ Begun /\ phase = "scan" /\ base' = Len(target) /\ i' = 0 /\ phase' = "written"
      /\ delta' = IF Len(src) <= NHASH THEN <<Insert(target)>>
                  ELSE delta \o Literal(Len(target) - base)
      /\ UNCHANGED <<src, target, from, made, next>>
  BY DEF IInv, WriteRest
<1>2. /\ Texts /\ Len(target) \in Nat /\ Covered(delta, base)
      /\ base \in Nat /\ i \in Nat /\ base + i <= Len(target)
      /\ from = src /\ made = <<>> /\ next = 1 /\ delta \in Seq(Commands)
  BY <1>1, TextTypes DEF Covered, IInv, Typed, Begun
<1>3. Covered(delta', Len(target)) /\ delta' \in Seq(Commands)
  <2>1. CASE Len(src) <= NHASH
    <3>1. Piece(target, 0, Len(target)) = target
      BY <1>2, SubSeqFull DEF Piece, Texts
    <3>2. Makes(Insert(target), 0, Len(target))
      <4>1. Makes(Insert(Piece(target, 0, Len(target))), 0, 0 + Len(target))
        BY <1>2, InsertMakes
      <4> QED BY <1>2, <3>1, <4>1
    <3>3. Insert(target) \in Commands
      BY <1>2, CommandTypes DEF Texts
    <3>4. <<>> \in Seq(Commands)
      OBVIOUS
    <3>5. Covered(<<>> \o <<Insert(target)>>, Len(target)) /\ <<>> \o <<Insert(target)>> \in Seq(Commands)
      BY <1>2, <3>2, <3>3, <3>4, NothingCovered, OneMore
    <3>6. <<>> \o <<Insert(target)>> = <<Insert(target)>>
      BY <3>3, ConcatEmptySeq
    <3> QED BY <1>1, <2>1, <3>5, <3>6
  <2>2. CASE ~ (Len(src) <= NHASH)
    <3> PICK n \in Nat : n = Len(target) - base
      BY <1>2
    <3>1. base + n = Len(target)
      BY <1>2
    <3>2. Covered(delta \o Literal(n), base + n) /\ delta \o Literal(n) \in Seq(Commands)
      BY <1>1, <1>2, <3>1, WithLiteral
    <3> QED BY <1>1, <2>2, <3>1, <3>2
  <2> QED BY <2>1, <2>2
<1>4. Typed'
  <2>1. Len(delta') \in Nat
    BY <1>3, LenProperties
  <2> QED BY <1>1, <1>2, <1>3, <2>1 DEF Typed
<1>5. Begun'
  BY <1>1, <1>2 DEF Begun
<1>6. (\E at : Covers(at, delta, base) /\ Applied(at))'
  BY <1>1, <1>2, <1>3, Written
<1> QED BY <1>1, <1>4, <1>5, <1>6 DEF IInv

(* What is applied later leaves the commands alone.                        *)
LEMMA StillCovers ==
    ASSUME UNCHANGED <<src, target, delta, base>>, NEW at, Covers(at, delta, base)
    PROVE  Covers(at, delta, base)'
BY DEF Covers, Makes, Piece

LEMMA ApplyStep == ASSUME DeltaAssumption, IInv, Apply PROVE IInv'
<1>1. /\ Typed /\ Begun /\ phase = "written" /\ phase' = "apply" /\ from' \in {src} \cup Other
      /\ UNCHANGED <<src, target, delta, base, i, made, next>>
  BY DEF IInv, Apply
<1>2. base = Len(target) /\ made = <<>> /\ next = 1 /\ Covered(delta, base)
  BY <1>1 DEF IInv, Begun, Covered
<1>3. Typed'
  BY <1>1 DEF Typed
<1>4. Begun'
  BY <1>1 DEF Begun
<1>5. PICK at : Covers(at, delta, base)
  BY <1>2 DEF Covered
<1>6. Covers(at, delta, base)'
  BY <1>1, <1>5, StillCovers
<1>7. Applied(at)'
  <2>1. at[next' - 1] = 0
    BY <1>1, <1>2, <1>5 DEF Covers
  <2>2. SubSeq(target', 1, 0) = <<>>
    BY SubSeqEmpty
  <2> QED BY <1>1, <1>2, <2>1, <2>2 DEF Applied
<1> QED BY <1>1, <1>2, <1>3, <1>4, <1>6, <1>7 DEF IInv

(* A command that is not refused appends its piece; applied to the source, *)
(* none is refused.                                                        *)
LEMMA CommandIs ==
    ASSUME DeltaAssumption, Typed, next <= Len(delta)
    PROVE  /\ Command \in Commands
           /\ Command.op = "@" => Command.cnt \in Nat /\ Command.ofst \in Nat
           /\ Command.op # "@" => Command.op = ":" /\ Command.text \in Seq(Byte)
<1>1. delta \in Seq(Commands) /\ next \in 1 .. Len(delta) /\ Len(delta) \in Nat
  BY TextTypes DEF Typed
<1>2. Command \in Commands
  BY <1>1, ElementOfSeq DEF Command
<1> HIDE DEF Command
<1> QED BY <1>2 DEF Commands

(* What the next command makes of the source.                              *)
LEMMA OfTheSource ==
    ASSUME DeltaAssumption, IInv, next <= Len(delta), from = src
    PROVE  \E at : /\ Covers(at, delta, base) /\ Applied(at)
                   /\ at[next - 1] \in Nat /\ at[next] \in Nat
                   /\ made = SubSeq(target, 1, at[next - 1]) /\ Makes(Command, at[next - 1], at[next])
<1>1. Typed /\ next \in 1 .. Len(delta) /\ Len(delta) \in Nat
  BY TextTypes DEF IInv, Typed
<1> PICK at : Covers(at, delta, base) /\ Applied(at)
  BY DEF IInv
<1>2. at \in [0 .. Len(delta) -> Nat] /\ \A r \in 1 .. Len(delta) : Makes(delta[r], at[r-1], at[r])
  BY DEF Covers
<1>3. at[next - 1] \in Nat /\ at[next] \in Nat
  BY <1>1, <1>2
<1>4. Makes(Command, at[next - 1], at[next])
  BY <1>1, <1>2 DEF Command
<1>5. made = SubSeq(target, 1, at[next - 1])
  BY DEF Applied
<1> QED BY <1>3, <1>4, <1>5

LEMMA NotRefused ==
    ASSUME DeltaAssumption, IInv, next <= Len(delta), from = src
    PROVE  ~Refused
<1>1. Typed /\ target \in Seq(Byte) /\ Len(target) \in Nat /\ Len(src) \in Nat
  BY TextTypes DEF IInv, Texts
<1> PICK at : /\ at[next - 1] \in Nat /\ at[next] \in Nat
              /\ made = SubSeq(target, 1, at[next - 1]) /\ Makes(Command, at[next - 1], at[next])
  BY OfTheSource
<1> PICK x \in Nat, y \in Nat : x = at[next - 1] /\ y = at[next]
  OBVIOUS
<1>2. x <= y /\ y <= Len(target) /\ made = SubSeq(target, 1, x)
  BY DEF Makes
<1>3. Len(made) = x
  <2>1. SubSeq(target, 1, x) = Piece(target, 0, x)
    BY DEF Piece
  <2> QED BY <1>1, <1>2, <2>1, PieceOf
<1>4. CASE Command.op = "@"
  <2>1. Command.cnt = y - x /\ Command.ofst + Command.cnt <= Len(src)
    BY <1>4 DEF Makes
  <2>2. x + (y - x) <= Len(target) /\ x + (y - x) = y
    BY <1>1, <1>2
  <2>3. ~ (Len(made) + Command.cnt > Len(target))
    BY <1>1, <1>2, <1>3, <2>1, <2>2
  <2>4. ~ (Command.ofst + Command.cnt > Len(from))
    <3>1. Command.cnt \in Nat /\ Command.ofst \in Nat
      BY <1>1, <1>4, CommandIs
    <3>2. Len(from) = Len(src)
      OBVIOUS
    <3> QED BY <1>1, <2>1, <3>1, <3>2
  <2> QED BY <1>4, <2>3, <2>4 DEF Refused
<1>5. CASE Command.op # "@"
  <2>1. Command.text = Piece(target, x, y - x)
    BY <1>5 DEF Makes
  <2> PICK n \in Nat : n = y - x
    BY <1>2
  <2>2. x + n <= Len(target) /\ x + n = y
    BY <1>2
  <2>3. Len(Command.text) = n
    BY <1>1, <2>1, <2>2, PieceOf
  <2>4. ~ (Len(made) + Len(Command.text) > Len(target))
    BY <1>1, <1>2, <1>3, <2>2, <2>3
  <2> QED BY <1>5, <2>4 DEF Refused
<1> QED BY <1>4, <1>5

LEMMA DoCommandStep == ASSUME DeltaAssumption, IInv, DoCommand PROVE IInv'
<1>1. /\ Typed /\ Begun /\ phase = "apply" /\ next <= Len(delta) /\ ~Refused /\ next' = next + 1
      /\ made' = made \o IF Command.op = "@" THEN Piece(from, Command.ofst, Command.cnt)
                         ELSE Command.text
      /\ UNCHANGED <<src, target, delta, base, i, from, phase>>
  BY DEF IInv, DoCommand
<1>2. /\ src \in Seq(Byte) /\ target \in Seq(Byte) /\ from \in Seq(Byte) /\ made \in Seq(Byte)
      /\ Len(from) \in Nat /\ Len(delta) \in Nat /\ next \in 1 .. Len(delta)
  BY <1>1, TextTypes DEF Typed, Texts
<1>3. made' \in Seq(Byte)
  <2>1. CASE Command.op = "@"
    <3>1. Command.cnt \in Nat /\ Command.ofst \in Nat /\ Command.ofst + Command.cnt <= Len(from)
      <4>1. Command.cnt \in Nat /\ Command.ofst \in Nat
        BY <1>1, <2>1, CommandIs
      <4>2. ~ (Command.ofst + Command.cnt > Len(from))
        BY <1>1, <2>1 DEF Refused
      <4> QED BY <1>2, <4>1, <4>2
    <3>2. Piece(from, Command.ofst, Command.cnt) \in Seq(Byte)
      BY <1>2, <3>1, PieceOf
    <3> QED BY <1>1, <1>2, <2>1, <3>2, ConcatProperties
  <2>2. CASE Command.op # "@"
    <3>1. Command.text \in Seq(Byte)
      BY <1>1, <2>2, CommandIs
    <3> QED BY <1>1, <1>2, <2>2, <3>1, ConcatProperties
  <2> QED BY <2>1, <2>2
<1>4. Typed'
  <2>1. next' \in 1 .. Len(delta) + 1
    BY <1>1, <1>2
  <2> QED BY <1>1, <1>3, <2>1 DEF Typed
<1>5. Begun'
  BY <1>1 DEF Begun
<1>6. (\E at : Covers(at, delta, base) /\ Applied(at))'
  <2>1. CASE from = src
    <3> PICK at : /\ Covers(at, delta, base) /\ at[next - 1] \in Nat /\ at[next] \in Nat
                  /\ made = SubSeq(target, 1, at[next - 1])
                  /\ Makes(Command, at[next - 1], at[next])
      BY <1>1, <2>1, OfTheSource
    <3> PICK x \in Nat, y \in Nat : x = at[next - 1] /\ y = at[next]
      OBVIOUS
    <3>1. x <= y /\ y <= Len(target) /\ made = SubSeq(target, 1, x)
      BY DEF Makes
    <3>2. made' = made \o Piece(target, x, y - x)
      BY <1>1, <2>1, CommandIs DEF Makes
    <3>3. SubSeq(target, 1, x) \o Piece(target, x, y - x) = SubSeq(target, 1, y)
      BY <1>2, <3>1, PieceAppended
    <3>4. made' = SubSeq(target', 1, at[next' - 1])
      <4>1. next' - 1 = next
        BY <1>1, <1>2
      <4> QED BY <1>1, <3>1, <3>2, <3>3, <4>1
    <3>5. Applied(at)'
      BY <3>4 DEF Applied
    <3>6. Covers(at, delta, base)'
      BY <1>1, StillCovers
    <3> QED BY <3>5, <3>6
  <2>2. CASE from # src
    <3> PICK at : Covers(at, delta, base)
      BY DEF IInv
    <3>1. Covers(at, delta, base)'
      BY <1>1, StillCovers
    <3>2. Applied(at)'
      BY <1>1, <2>2 DEF Applied
    <3> QED BY <3>1, <3>2
  <2> QED BY <2>1, <2>2
<1>7. phase' = "apply" /\ base' = base /\ target' = target /\ base = Len(target)
  BY <1>1 DEF IInv
<1> QED BY <1>4, <1>5, <1>6, <1>7 DEF IInv

(* At the end of the commands the source has become the whole target.      *)
LEMMA AllMade ==
    ASSUME DeltaAssumption, IInv, phase # "scan", next > Len(delta), from = src
    PROVE  made = target
<1>1. Typed /\ base = Len(target) /\ target \in Seq(Byte)
  BY TextTypes DEF IInv, Texts
<1>2. next - 1 = Len(delta)
  BY <1>1, TextTypes DEF Typed
<1> PICK at : Covers(at, delta, base) /\ Applied(at)
  BY DEF IInv
<1>3. at[next - 1] = Len(target)
  BY <1>1, <1>2 DEF Covers
<1>4. made = SubSeq(target, 1, Len(target))
  BY <1>3 DEF Applied
<1> QED BY <1>1, <1>4, SubSeqFull

LEMMA EndStep == ASSUME DeltaAssumption, IInv, End PROVE IInv'
<1>1. /\ Typed /\ Begun /\ phase = "apply" /\ base = Len(target)
      /\ UNCHANGED <<src, target, delta, base, i, from, made, next>>
  BY DEF IInv, End
<1>2. phase' \in {"done", "error"} /\ (phase' = "done" => Len(made) = Len(target))
  BY DEF End
<1>3. from = src => phase' # "error"
  <2>1. CASE next <= Len(delta)
    BY <1>1, <2>1, TextTypes, NotRefused DEF End, Typed
  <2>2. CASE next > Len(delta)
    <3>1. from = src => made = target
      BY <1>1, <2>2, AllMade
    <3>2. Len(delta) \in Nat /\ next \in Nat
      BY <1>1, TextTypes DEF Typed
    <3> QED BY <2>2, <3>1, <3>2 DEF End
  <2>3. Len(delta) \in Nat /\ next \in Nat
    BY <1>1, TextTypes DEF Typed
  <2> QED BY <2>1, <2>2, <2>3
<1>4. Typed'
  BY <1>1, <1>2 DEF Typed
<1>5. Begun'
  BY <1>2 DEF Begun
<1>6. (\E at : Covers(at, delta, base) /\ Applied(at))'
  <2> PICK at : Covers(at, delta, base) /\ Applied(at)
    BY DEF IInv
  <2>1. Covers(at, delta, base)'
    BY <1>1, StillCovers
  <2>2. Applied(at)'
    BY <1>1 DEF Applied
  <2> QED BY <2>1, <2>2
<1> QED BY <1>1, <1>2, <1>3, <1>4, <1>5, <1>6 DEF IInv

LEMMA StutterStep == ASSUME IInv, UNCHANGED deltaVars PROVE IInv'
<1>1. UNCHANGED <<src, target, delta, base, i, from, made, next, phase>>
  BY DEF deltaVars
<1>2. Typed' /\ Begun'
  BY <1>1 DEF IInv, Typed, Begun
<1>3. (\E at : Covers(at, delta, base) /\ Applied(at))'
  <2> PICK at : Covers(at, delta, base) /\ Applied(at)
    BY DEF IInv
  <2>1. Covers(at, delta, base)'
    BY <1>1, StillCovers
  <2>2. Applied(at)'
    BY <1>1 DEF Applied
  <2> QED BY <2>1, <2>2
<1> QED BY <1>1, <1>2, <1>3 DEF IInv

LEMMA Inductive == ASSUME DeltaAssumption, IInv, [DeltaNext]_deltaVars PROVE IInv'
BY WriteCopyStep, SlideStep, WriteRestStep, ApplyStep, DoCommandStep, EndStep, StutterStep
   DEF DeltaNext

LEMMA TypedIsRight == ASSUME DeltaAssumption, Typed PROVE DeltaTypeOK
<1>1. delta \in Seq(Commands) /\ Len(target) \in Nat /\ base \in Nat /\ i \in Nat
      /\ base + i <= Len(target)
  BY TextTypes DEF Typed
<1>2. ASSUME NEW r \in DOMAIN delta
      PROVE  IF delta[r].op = "@" THEN delta[r].cnt \in Nat /\ delta[r].ofst \in Nat
             ELSE delta[r].op = ":" /\ delta[r].text \in Seq(Byte)
  <2>1. delta[r] \in Commands
    BY <1>1, LenProperties, ElementOfSeq
  <2> QED BY <2>1 DEF Commands
<1>3. base \in 0 .. Len(target) /\ i \in 0 .. Len(target)
  BY <1>1
<1> QED BY <1>2, <1>3 DEF Typed, DeltaTypeOK

LEMMA IInvRestores == ASSUME DeltaAssumption, IInv PROVE DeltaRestores
<1>1. Typed /\ target \in Seq(Byte) /\ Len(target) \in Nat /\ Len(delta) \in Nat
      /\ next \in 1 .. Len(delta) + 1
  BY TextTypes DEF IInv, Texts, Typed
<1>2. ASSUME from = src
      PROVE  made = SubSeq(target, 1, Len(made)) /\ Len(made) \in Nat
  <2> PICK at : Covers(at, delta, base) /\ Applied(at)
    BY DEF IInv
  <2>1. at \in [0 .. Len(delta) -> Nat] /\ at[Len(delta)] = base
        /\ \A r \in 1 .. Len(delta) : at[r-1] <= at[r] /\ at[r] <= Len(target)
    BY DEF Covers, Makes
  <2> PICK x \in Nat : x = at[next - 1]
    BY <1>1, <2>1
  <2>2. x <= Len(target)
    <3>1. CASE next = 1
      <4>1. x = 0
        BY <3>1 DEF Covers
      <4> QED BY <1>1, <4>1
    <3>2. CASE next # 1
      <4>1. next - 1 \in 1 .. Len(delta)
        BY <1>1, <3>2
      <4> QED BY <2>1, <4>1
    <3> QED BY <3>1, <3>2
  <2>3. made = SubSeq(target, 1, x)
    BY <1>2 DEF Applied
  <2>4. Len(made) = x
    <3>1. SubSeq(target, 1, x) = Piece(target, 0, x)
      BY DEF Piece
    <3> QED BY <1>1, <2>2, <2>3, <3>1, PieceOf
  <2> QED BY <2>3, <2>4
<1>3. phase = "done" => Len(made) = Len(target)
  BY DEF IInv
<1>4. from = src => phase # "error"
  BY DEF IInv
<1>5. phase = "done" /\ from = src => made = target
  BY <1>1, <1>2, <1>3, SubSeqFull
<1> QED BY <1>2, <1>3, <1>4, <1>5 DEF DeltaRestores

-----------------------------------------------------------------------------
(* The commands and the text that is made of them stay well-formed, the    *)
(* window inside the target and the reader inside the commands             *)
(* (delta_create(), delta_apply()).                                        *)
THEOREM DeltaTyped == ASSUME DeltaAssumption PROVE DeltaSpec => []DeltaTypeOK
<1>1. DeltaInit => IInv
  BY InitIInv
<1>2. IInv /\ [DeltaNext]_deltaVars => IInv'
  BY Inductive
<1>3. IInv => DeltaTypeOK
  BY TypedIsRight DEF IInv
<1> QED BY <1>1, <1>2, <1>3, PTL DEF DeltaSpec

(* Applied to its source, a delta never fails and gives back the target;   *)
(* applied to another text it fails or gives something of the announced    *)
(* size (delta_create(), delta_apply()).                                   *)
THEOREM DeltaRestored == ASSUME DeltaAssumption PROVE DeltaSpec => []DeltaRestores
<1>1. DeltaInit => IInv
  BY InitIInv
<1>2. IInv /\ [DeltaNext]_deltaVars => IInv'
  BY Inductive
<1>3. IInv => DeltaRestores
  BY IInvRestores
<1> QED BY <1>1, <1>2, <1>3, PTL DEF DeltaSpec
=============================================================================
