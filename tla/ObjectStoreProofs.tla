-------------------------- MODULE ObjectStoreProofs --------------------------
(***************************************************************************)
(* Theorems about ObjectStoreProbe, for any number of payloads and         *)
(* whatever the bucket answers.                                            *)
(***************************************************************************)
EXTENDS ObjectStoreProbe, TLAPS

(***************************************************************************)
(* The strengthening.  Between two payloads the report covers those before *)
(* the next one and flags just those that landed, and the bucket holds     *)
(* nothing that could be deleted; while an object is deleted, it is the    *)
(* only one of which neither is true.                                      *)
(***************************************************************************)
NotOver == pc # "done" <=> verdict = "none"
ReportFollows == pc # "done" => tested = 1..(next - 1)
BetweenPayloads ==
  pc \in {"start", "put"} =>
    /\ vulnerable = landed \cap Payloads
    /\ stored \subseteq undeleted
WhileDeleting ==
  pc = "delete" =>
    /\ next \in Objects
    /\ landed \cap Payloads = vulnerable \cup ({next} \cap Payloads)
    /\ stored \subseteq undeleted \cup {next}
VerdictIsTrue ==
  verdict \in {"PASS", "FAIL"} =>
    verdict = IF landed \cap Payloads = {} THEN "PASS" ELSE "FAIL"

IInv ==
  /\ TypeOK
  /\ NotOver
  /\ pc = "start" => next = 0
  /\ ReportFollows
  /\ BetweenPayloads
  /\ WhileDeleting
  /\ VerdictIsTrue
  /\ EvidenceIsExact
  /\ NothingLeftBehind

USE NumPayloadsAssumption

LEMMA InitIInv == Init => IInv
<1> SUFFICES ASSUME Init PROVE IInv
  OBVIOUS
<1>1. ambiguous \in BOOLEAN
  BY DEF Init
<1>2. next \in 0..NumPayloads + 1
  BY DEF Init
<1>3. TypeOK /\ NotOver
  BY <1>1, <1>2 DEF Init, TypeOK, NotOver
<1>4. ReportFollows
  BY DEF Init, ReportFollows
<1>5. BetweenPayloads /\ WhileDeleting /\ VerdictIsTrue
  BY DEF Init, BetweenPayloads, WhileDeleting, VerdictIsTrue
<1>6. EvidenceIsExact /\ NothingLeftBehind
  BY DEF Init, EvidenceIsExact, NothingLeftBehind
<1>7. QED
  BY <1>3, <1>4, <1>5, <1>6 DEF Init, IInv

\* Observing the object at `next` extends what the report covers by one payload.
LEMMA Covered ==
  ASSUME next \in Objects, tested = 1..(next - 1)
  PROVE  (IF next \in Payloads THEN tested \cup {next} ELSE tested) = 1..((next + 1) - 1)
<1>1. CASE next = 0
  BY <1>1 DEF Objects, Payloads
<1>2. CASE next # 0
  <2>1. next \in Payloads /\ next \in Nat \ {0}
    BY <1>2 DEF Objects, Payloads
  <2>2. \A i : i \in 1..((next + 1) - 1) <=> i \in 1..(next - 1) \/ i = next
    BY <2>1
  <2>3. QED
    BY <2>1, <2>2
<1>3. QED
  BY <1>1, <1>2

LEMMA NextIInv == IInv /\ [Next]_vars => IInv'
<1> SUFFICES ASSUME IInv, [Next]_vars PROVE IInv'
  OBVIOUS
<1> USE DEF IInv, TypeOK, Payloads, Objects, NotOver, ReportFollows, BetweenPayloads,
            WhileDeleting, VerdictIsTrue, EvidenceIsExact, NothingLeftBehind, bucket, report
<1>1. CASE Start
  BY <1>1 DEF Start, End
<1>2. CASE PutAccepted
  BY <1>2 DEF PutAccepted, Putting, Land
<1>3. CASE PutBlocked
  <2> USE <1>3 DEF PutBlocked, Putting, Observe
  <2>1. next \in Nat /\ next' \in 0..NumPayloads + 1
    OBVIOUS
  <2>2. tested' = 1..(next' - 1)
    BY <2>1, Covered
  <2>3. vulnerable' = vulnerable
    OBVIOUS
  <2>4. TypeOK' /\ NotOver' /\ ReportFollows'
    BY <2>1, <2>2, <2>3
  <2>5. QED
    BY <2>3, <2>4
<1>4. CASE PutFails
  BY <1>4 DEF PutFails, Putting, Land, End
<1>5. CASE Delete
  <2> USE <1>5 DEF Delete, Deleted, DeleteRaised, Observe
  <2>1. next \in Nat /\ next' \in 0..NumPayloads + 1
    OBVIOUS
  <2>2. tested' = 1..(next' - 1)
    BY <2>1, Covered
  <2>3. vulnerable' = landed' \cap Payloads /\ stored' \subseteq undeleted'
    OBVIOUS
  <2>4. TypeOK'
    BY <2>1
  <2>5. NotOver' /\ ReportFollows'
    BY <2>1, <2>2
  <2>6. QED
    BY <2>3, <2>4, <2>5
<1>6. CASE Finish
  BY <1>6 DEF Finish, End
<1>7. CASE UNCHANGED vars
  BY <1>7 DEF vars
<1>8. QED
  BY <1>1, <1>2, <1>3, <1>4, <1>5, <1>6, <1>7 DEF Next

LEMMA Invariance == Spec => []IInv
BY InitIInv, NextIInv, PTL DEF Spec

-------------------------------------------------------------------------------
\* The types of ObjectStoreProbe's variables (TypeOK).
THEOREM TypeCorrect == Spec => []TypeOK
<1>1. IInv => TypeOK
  BY DEF IInv
<1>2. QED
  BY <1>1, Invariance, PTL

\* With a verdict the report covers every payload and flags just those that
\* landed (EvidenceIsExact), however many there are.
THEOREM ExactEvidence == Spec => []EvidenceIsExact
<1>1. IInv => EvidenceIsExact
  BY DEF IInv
<1>2. QED
  BY <1>1, Invariance, PTL

\* However the probe ends, a canary stays only if deleting it raised or the put
\* that wrote it did (NothingLeftBehind).
THEOREM CleanProbe == Spec => []NothingLeftBehind
<1>1. IInv => NothingLeftBehind
  BY DEF IInv
<1>2. QED
  BY <1>1, Invariance, PTL

-------------------------------------------------------------------------------
\* Every step of the probe is a step the abstract canary audit of the payload
\* keys allows, or none: the baseline object is not among them.
LEMMA StepSimulation == IInv /\ [Next]_vars => [Audit!Next]_(Audit!vars)
<1> SUFFICES ASSUME IInv, [Next]_vars PROVE [Audit!Next]_(Audit!vars)
  OBVIOUS
<1> USE DEF Audit!Next, Audit!vars, bucket, report
<1>1. CASE Start
  <2>1. {} \in SUBSET Payloads
    OBVIOUS
  <2>2. Audit!GiveUp \/ UNCHANGED Audit!vars
    BY <1>1, <2>1 DEF Start, End, Audit!GiveUp, IInv, NotOver
  <2>3. QED
    BY <2>2
<1>2. CASE PutAccepted
  <2>1. CASE next \in Payloads
    <3>1. Audit!Write(next)
      BY <1>2, <2>1 DEF PutAccepted, Putting, Land, Audit!Write, IInv, NotOver
    <3>2. QED
      BY <2>1, <3>1
  <2>2. CASE next \notin Payloads
    BY <1>2, <2>2 DEF PutAccepted, Putting, Land
  <2>3. QED
    BY <2>1, <2>2
<1>3. CASE PutBlocked
  BY <1>3 DEF PutBlocked
<1>4. CASE PutFails
  <2>1. {next} \cap Payloads \in SUBSET Payloads
    OBVIOUS
  <2>2. Audit!GiveUp
    BY <1>4, <2>1 DEF PutFails, Putting, Land, End, Audit!GiveUp, IInv, NotOver
  <2>3. QED
    BY <2>2
<1>5. CASE Delete
  <2>1. CASE next \in Payloads
    <3>1. Audit!Remove(next) \/ UNCHANGED Audit!vars
      BY <1>5, <2>1 DEF Delete, Deleted, DeleteRaised, Audit!Remove, IInv, NotOver
    <3>2. QED
      BY <2>1, <3>1
  <2>2. CASE next \notin Payloads
    BY <1>5, <2>2 DEF Delete, Deleted, DeleteRaised
  <2>3. QED
    BY <2>1, <2>2
<1>6. CASE Finish
  <2>1. Audit!Decide
    BY <1>6 DEF Finish, End, Audit!Decide, IInv, NotOver, BetweenPayloads
  <2>2. QED
    BY <2>1
<1>7. CASE UNCHANGED vars
  BY <1>7 DEF vars
<1>8. QED
  BY <1>1, <1>2, <1>3, <1>4, <1>5, <1>6, <1>7 DEF Next

\* The safety half of ImplementsAudit: a PASS only if no payload's canary ever
\* landed, a FAIL only if one did.
THEOREM VerdictsAreTrue == Spec => Audit!Init /\ [][Audit!Next]_(Audit!vars)
<1>1. Init => Audit!Init
  BY DEF Init, Audit!Init
<1>2. QED
  BY <1>1, StepSimulation, Invariance, PTL DEF Spec
===============================================================================
