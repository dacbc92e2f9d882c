-------------------------------- MODULE Delta --------------------------------
(***************************************************************************)
(* src/src/delta.c: delta_create() scans the target for stretches that the *)
(* source has, too, and delta_apply() follows the commands it wrote, with  *)
(* the right source or with another one.  Positions count from 0, as in    *)
(* the code: byte i of a text is at i + 1.                                 *)
(***************************************************************************)
EXTENDS Integers, SequencesExt

CONSTANTS
    Byte,
    NHASH,      \* the width of the sliding window (16 in the code)
    Hash(_),    \* hash_once() of such a window
    Limit,      \* entries of a collision chain that are looked at (250)
    Overhead,   \* bytes of a copy command and the literal before it
    Source, Target, \* the texts that deltas are made of
    Other       \* the texts they may be applied to instead

DeltaAssumption ==
    /\ NHASH \in Nat \ {0} /\ Limit \in Nat /\ Overhead \in Nat \ {0}
    /\ Source \cup Target \cup Other \subseteq Seq(Byte)

VARIABLES
    src, target,
    delta,  \* the commands written
    base,   \* how much of the target they make
    i,      \* the window is at base + i
    from,   \* the text to which the delta is applied
    made,   \* what delta_apply() has written
    next,   \* the command it comes to
    phase

deltaVars == <<src, target, delta, base, i, from, made, next, phase>>

Copy(cnt, ofst) == [op |-> "@", cnt |-> cnt, ofst |-> ofst]
Insert(T) == [op |-> ":", text |-> T]

Piece(T, at, n) == SubSeq(T, at + 1, at + n)

DeltaTypeOK ==
    /\ src \in Source /\ target \in Target /\ from \in Source \cup Other
    /\ \A r \in DOMAIN delta :
         IF delta[r].op = "@" THEN delta[r].cnt \in Nat /\ delta[r].ofst \in Nat
         ELSE delta[r].op = ":" /\ delta[r].text \in Seq(Byte)
    /\ base \in 0 .. Len(target) /\ i \in 0 .. Len(target)
    /\ made \in Seq(Byte) /\ next \in 1 .. Len(delta) + 1
    /\ phase \in {"scan", "written", "apply", "done", "error"}

DeltaInit ==
    /\ src \in Source /\ target \in Target
    /\ delta = <<>> /\ base = 0 /\ i = 0
    /\ from = src /\ made = <<>> /\ next = 1
    /\ phase = "scan"

-----------------------------------------------------------------------------
(* The landmarks: every NHASH-th window of the source, but not the last.   *)
nHash == Len(src) \div NHASH
Slot(T, at) == Hash(Piece(T, at, NHASH)) % nHash
Blocks == {b \in 0 .. nHash : b * NHASH < Len(src) - NHASH}

(* The chain of the slot of the window, the latest block first.            *)
Chain(at) ==
    LET same == {b \in Blocks : Slot(src, b * NHASH) = Slot(target, at)}
    IN  {b \in same : Cardinality({c \in same : c > b}) < Limit}

(* The stretch that matches around the start of a block, extended to both  *)
(* sides.  Byte 0 of the source is never looked at backwards.              *)
Match_Anchored(b) ==
    LET iSrc == b * NHASH
        Forward(n) == \A d \in 0 .. n - 1 : src[iSrc + d + 1] = target[base + i + d + 1]
        Backward(n) == \A d \in 1 .. n : src[iSrc - d + 1] = target[base + i - d + 1]
        j == Max({n \in 0 .. Min({Len(src) - iSrc, Len(target) - base - i}) : Forward(n)})
        k == Max({n \in 0 .. Min({Max({iSrc - 1, 0}), i}) : Backward(n)})
    IN  [cnt |-> j + k, ofst |-> iSrc, litsz |-> i - k]
Match(b) ==
    LET iSrc == b * NHASH
        Forward(n) == \A d \in 0 .. n - 1 : src[iSrc + d + 1] = target[base + i + d + 1]
        Backward(n) == \A d \in 1 .. n : src[iSrc - d + 1] = target[base + i - d + 1]
        j == Max({n \in 0 .. Min({Len(src) - iSrc, Len(target) - base - i}) : Forward(n)})
        k == Max({n \in 0 .. Min({Max({iSrc - 1, 0}), i}) : Backward(n)})
    IN  [cnt |-> j + k, ofst |-> iSrc - k, litsz |-> i - k]

(* The longest one that is worth a command; of several, the first in the   *)
(* chain.                                                                  *)
Worth == {b \in Chain(base + i) : Match(b).cnt >= Overhead}
Best ==
    LET longest == Max({Match(b).cnt : b \in Worth})
    IN  Match(Max({b \in Worth : Match(b).cnt = longest}))

-----------------------------------------------------------------------------
Scanning == phase = "scan" /\ Len(src) > NHASH /\ base + NHASH < Len(target)

Literal(n) == IF n > 0 THEN <<Insert(Piece(target, base, n))>> ELSE <<>>

WriteCopy ==
    /\ Scanning /\ Worth # {}
    /\ delta' = delta \o Literal(Best.litsz) \o <<Copy(Best.cnt, Best.ofst)>>
    /\ base' = base + Best.litsz + Best.cnt
    /\ i' = 0
    /\ UNCHANGED <<src, target, from, made, next, phase>>

Slide ==
    /\ Scanning /\ Worth = {} /\ base + i + NHASH < Len(target)
    /\ i' = i + 1
    /\ UNCHANGED <<src, target, delta, base, from, made, next, phase>>

(* No match up to the end; what is shorter than a window; a source that is *)
(* too short.  The latter writes a literal even for an empty target.       *)
WriteRest ==
    /\ phase = "scan"
    /\ \/ Scanning /\ Worth = {} /\ base + i + NHASH >= Len(target)
       \/ ~Scanning
    /\ delta' = IF Len(src) <= NHASH THEN <<Insert(target)>>
                ELSE delta \o Literal(Len(target) - base)
    /\ base' = Len(target)
    /\ i' = 0
    /\ phase' = "written"
    /\ UNCHANGED <<src, target, from, made, next>>

-----------------------------------------------------------------------------
(* delta_apply(), on the source or on another text.                        *)
Apply ==
    /\ phase = "written"
    /\ from' \in {src} \cup Other
    /\ phase' = "apply"
    /\ UNCHANGED <<src, target, delta, base, i, made, next>>

Command == delta[next]

(* More than the size in the first line, or past the end of the text.      *)
Refused ==
    IF Command.op = "@" THEN
        \/ Len(made) + Command.cnt > Len(target)
        \/ Command.ofst + Command.cnt > Len(from)
    ELSE Len(made) + Len(Command.text) > Len(target)

DoCommand ==
    /\ phase = "apply" /\ next <= Len(delta) /\ ~Refused
    /\ made' = made \o IF Command.op = "@" THEN Piece(from, Command.ofst, Command.cnt)
                       ELSE Command.text
    /\ next' = next + 1
    /\ UNCHANGED <<src, target, delta, base, i, from, phase>>

(* The last term: its checksum is not looked at, but the size is.          *)
End ==
    /\ phase = "apply"
    /\ \/ next <= Len(delta) /\ Refused /\ phase' = "error"
       \/ next > Len(delta) /\ phase' = IF Len(made) = Len(target) THEN "done" ELSE "error"
    /\ UNCHANGED <<src, target, delta, base, i, from, made, next>>

DeltaNext == WriteCopy \/ Slide \/ WriteRest \/ Apply \/ DoCommand \/ End

DeltaSpec == DeltaInit /\ [][DeltaNext]_deltaVars

-----------------------------------------------------------------------------
(* A delta gives back its target: applied to its source it never fails and *)
(* ends with the target; applied to any other text it fails or gives       *)
(* something of the announced size (for which content_get() and            *)
(* verify_before_commit() then compare hashes).                            *)
DeltaRestores ==
    /\ phase \in {"apply", "done", "error"} /\ from = src =>
         made = SubSeq(target, 1, Len(made)) /\ phase # "error"
    /\ phase = "done" => Len(made) = Len(target)
    /\ phase = "done" /\ from = src => made = target
=============================================================================
