--------------------------- MODULE ScanRunnerProofs ---------------------------
(***************************************************************************)
(* Theorems about ScanRunner, for every registry, every evidence tiering   *)
(* and dependency map, and whatever the checks return.  All of them follow *)
(* from one inductive invariant, IInv.                                     *)
(***************************************************************************)
EXTENDS ScanRunner, TLAPS

USE DEF Positions, Ids, Statuses, Tiers, Outcome, FindingSet

(***************************************************************************)
(* The strengthening.  The properties alone are not inductive: that a note *)
(* names only non-passes needs the note to be exactly Missing(i) once the  *)
(* second pass has run, and empty before; and that needs the loop to have  *)
(* finished with every selected check, and only those, having a finding.   *)
(***************************************************************************)
OnlySelectedRan == \A i \in Positions : Found(i) => i \in selected
NothingBeforeStart == pc = "start" => selected = {}
LoopLeftNonePending == pc \in {"annotate", "report", "done"} => Pending = {}
SelectionIsPassive == mode = "read-only" => selected \subseteq PassiveOnly
NotesExact ==
  \A i \in Positions :
    findings[i].note = IF pc \in {"report", "done"} THEN Missing(i) ELSE {}

IInv ==
  /\ TypeOK
  /\ OnlySelectedRan
  /\ NothingBeforeStart
  /\ LoopLeftNonePending
  /\ SelectionIsPassive
  /\ NotesExact

-------------------------------------------------------------------------------
\* What the second pass would note is a set of ids, whatever the findings.
LEMMA MissingType ==
  ASSUME NEW i \in Positions
  PROVE  Missing(i) \subseteq Ids
BY DependsOnAssumption DEF Missing

\* A finding stamped by run_checks is well formed, has no note yet, and shows
\* the content the check read.
LEMMA StampedType ==
  ASSUME TypeOK, NEW i \in Positions, NEW o \in Outcomes[Registry[i]][input]
  PROVE  /\ Stamped(i, o) \in FindingSet
         /\ Stamped(i, o).status \in Statuses
         /\ Stamped(i, o).note = {}
         /\ Stamped(i, o).seen = input
<1>1. Registry[i] \in Ids
  OBVIOUS
<1>2. Outcomes[Registry[i]][input] \subseteq Outcome
  BY <1>1, OutcomesAssumption DEF TypeOK
<1>3. o \in Outcome
  BY <1>2
<1>4. Tier[Registry[i]] \in Tiers
  BY <1>1, TierAssumption
<1>5. QED
  BY <1>3, <1>4 DEF Stamped, TypeOK

\* Missing depends on the selection and on the findings' statuses and tiers:
\* a step that keeps those keeps what would be noted.
LEMMA MissingStable ==
  ASSUME selected' = selected,
         \A j \in Positions : /\ findings'[j].status = findings[j].status
                              /\ findings'[j].tier = findings[j].tier,
         selected \subseteq Positions,
         NEW i \in Positions
  PROVE  Missing(i)' = Missing(i)
<1>1. PassedIds' = PassedIds
  BY DEF PassedIds
<1>2. QED
  BY <1>1 DEF Missing

-------------------------------------------------------------------------------
LEMMA InitIInv == Init => IInv
BY BoundAssumption
   DEF Init, IInv, TypeOK, OnlySelectedRan, NothingBeforeStart,
       LoopLeftNonePending, SelectionIsPassive, NotesExact, Found, NoFinding

LEMMA StepIInv == IInv /\ [Next]_vars => IInv'
<1> SUFFICES ASSUME IInv, [Next]_vars PROVE IInv'
  OBVIOUS
<1>0. TypeOK
  BY DEF IInv
\* Steps that leave the findings and the selection alone.
<1>a. ASSUME UNCHANGED <<mode, usable, findings, selected>>,
             input' \in Contents, replaced' \in 0..MaxReplacements,
             pc' \in {"start", "run", "annotate", "report", "done"},
             exitCode' \in {0, 1},
             pc' = "start" => pc = "start",
             pc' \in {"annotate", "report", "done"} => Pending = {},
             pc' \in {"report", "done"} => pc \in {"report", "done"} \/ selected = {},
             pc \in {"report", "done"} => pc' \in {"report", "done"}
      PROVE  IInv'
  <2>1. \A i \in Positions : Missing(i)' = Missing(i)
    BY <1>a, <1>0, MissingStable DEF TypeOK
  <2>2. TypeOK'
    BY <1>a, <1>0 DEF TypeOK
  <2>3. selected = {} => \A i \in Positions : Missing(i) = {}
    BY DEF Missing
  <2>4. NotesExact'
    BY <1>a, <2>1, <2>3 DEF IInv, NotesExact
  <2>5. QED
    BY <1>a, <2>2, <2>4
       DEF IInv, OnlySelectedRan, NothingBeforeStart, LoopLeftNonePending,
           SelectionIsPassive, Found, Pending
<1>1. ASSUME NEW written \in BOOLEAN, Demo(written) PROVE IInv'
  <2>1. selected = {} /\ Pending = {}
    BY <1>1 DEF Demo, IInv, NothingBeforeStart, Pending
  <2>2. QED
    BY <1>a, <1>0, <1>1, <2>1 DEF Demo, TypeOK
<1>2. CASE Refuse
  <2>1. selected = {} /\ Pending = {}
    BY <1>2 DEF Refuse, IInv, NothingBeforeStart, Pending
  <2>2. QED
    BY <1>a, <1>0, <1>2, <2>1 DEF Refuse, TypeOK
<1>3. CASE Select
  <2>1. \A i \in Positions : ~Found(i)
    BY <1>3 DEF Select, IInv, OnlySelectedRan, NothingBeforeStart
  <2>2. TypeOK'
    BY <1>3, <1>0 DEF Select, TypeOK, PassiveOnly
  <2>3. OnlySelectedRan'
    BY <1>3, <2>1 DEF Select, OnlySelectedRan, Found
  <2>4. SelectionIsPassive'
    BY <1>3 DEF Select, SelectionIsPassive, PassiveOnly
  <2>5. NotesExact'
    BY <1>3 DEF Select, IInv, NotesExact
  <2>6. QED
    BY <1>3, <2>2, <2>3, <2>4, <2>5
       DEF Select, IInv, NothingBeforeStart, LoopLeftNonePending
<1>4. ASSUME NEW i \in Positions, RunCheck(i) PROVE IInv'
  <2>1. PICK o \in Outcomes[Registry[i]][input] :
          findings' = [findings EXCEPT ![i] = Stamped(i, o)]
    BY <1>4 DEF RunCheck
  <2>2. /\ Stamped(i, o) \in FindingSet
        /\ Stamped(i, o).note = {}
    BY <1>0, StampedType
  <2>3. TypeOK'
    BY <1>0, <1>4, <2>1, <2>2 DEF TypeOK, RunCheck
  <2>4. OnlySelectedRan'
    BY <1>0, <1>4, <2>1 DEF IInv, OnlySelectedRan, RunCheck, Found, Pending, TypeOK
  <2>5. NotesExact'
    BY <1>0, <1>4, <2>1, <2>2 DEF IInv, NotesExact, RunCheck, TypeOK
  <2>6. QED
    BY <1>4, <2>3, <2>4, <2>5
       DEF IInv, RunCheck, NothingBeforeStart, LoopLeftNonePending, SelectionIsPassive,
           PassiveOnly
<1>5. CASE LoopDone
  BY <1>a, <1>0, <1>5 DEF LoopDone, TypeOK
<1>6. CASE Annotate
  <2>1. \A i \in Positions : Missing(i) \in SUBSET Ids
    BY MissingType
  <2>2. findings' \in [Positions -> FindingSet]
    BY <1>0, <1>6, <2>1 DEF Annotate, TypeOK
  <2>3. TypeOK'
    BY <1>0, <1>6, <2>2 DEF Annotate, TypeOK
  <2>4. \A i \in Positions : /\ findings'[i].status = findings[i].status
                             /\ findings'[i].tier = findings[i].tier
                             /\ findings'[i].note = Missing(i)
    BY <1>0, <1>6 DEF Annotate, TypeOK
  <2>5. \A i \in Positions : Missing(i)' = Missing(i)
    BY <1>0, <1>6, <2>4, MissingStable DEF Annotate, TypeOK
  <2>6. NotesExact'
    BY <1>6, <2>4, <2>5 DEF Annotate, NotesExact
  <2>7. LoopLeftNonePending' /\ OnlySelectedRan'
    BY <1>0, <1>6, <2>4
       DEF Annotate, IInv, LoopLeftNonePending, OnlySelectedRan, Pending, Found, TypeOK
  <2>8. QED
    BY <1>6, <2>3, <2>6, <2>7
       DEF Annotate, IInv, NothingBeforeStart, SelectionIsPassive, PassiveOnly
<1>7. ASSUME NEW written \in BOOLEAN, Report(written) PROVE IInv'
  BY <1>a, <1>0, <1>7 DEF Report, TypeOK, IInv, LoopLeftNonePending
<1>8. CASE Replace
  BY <1>a, <1>0, <1>8, BoundAssumption
     DEF Replace, TypeOK, IInv, LoopLeftNonePending
<1>9. CASE UNCHANGED vars
  BY <1>a, <1>0, <1>9 DEF vars, TypeOK, IInv, LoopLeftNonePending
<1>10. QED
  BY <1>1, <1>2, <1>3, <1>4, <1>5, <1>6, <1>7, <1>8, <1>9 DEF Next, Step

\* Every reachable state satisfies the strengthened invariant.
THEOREM Invariance == Spec => []IInv
BY InitIInv, StepIInv, PTL DEF Spec

-------------------------------------------------------------------------------
\* Type correctness, for every registry and every behaviour of its checks.
THEOREM TypeCorrect == Spec => []TypeOK
<1>1. IInv => TypeOK
  BY DEF IInv
<1>2. QED
  BY <1>1, Invariance, PTL

\* run_checks' second pass can pair classes with findings: every selected
\* check leaves exactly one finding, and nothing else does.
THEOREM FindingPerCheck == Spec => []OneFindingPerCheck
<1>1. IInv => OneFindingPerCheck
  BY DEF IInv, TypeOK, OneFindingPerCheck, Ran, OnlySelectedRan, LoopLeftNonePending,
         Pending
<1>2. QED
  BY <1>1, Invariance, PTL

\* --read-only runs no intrusive check, on any platform's registry.
THEOREM ReadOnly == Spec => []ReadOnlyIsPassive
<1>1. IInv => ReadOnlyIsPassive
  BY DEF IInv, ReadOnlyIsPassive, SelectionIsPassive, OnlySelectedRan, PassiveOnly
<1>2. QED
  BY <1>1, Invariance, PTL

\* A note never blames a dependency that passed.
THEOREM HonestNotes == Spec => []NotesNameNonPasses
<1>1. IInv => NotesNameNonPasses
  <2> SUFFICES ASSUME IInv, NEW i \in Positions, NEW d \in findings[i].note
               PROVE  /\ d \in DependsOn[Registry[i]]
                      /\ \A j \in selected :
                           Registry[j] = d => findings[j].status # "PASS"
    BY DEF NotesNameNonPasses
  <2>1. d \in Missing(i)
    BY DEF IInv, NotesExact
  <2>2. d \in DependsOn[Registry[i]] /\ d \notin PassedIds
    BY <2>1 DEF Missing
  <2>3. QED
    BY <2>2 DEF PassedIds, IInv, TypeOK
<1>2. QED
  BY <1>1, Invariance, PTL

\* The dependencies of a dependency are dependencies: so it is on the host
\* platform and on the GPU platform.
DependenciesClosed ==
  \A c \in Ids : \A d \in DependsOn[c] : DependsOn[d] \subseteq DependsOn[c]

\* With dependencies listed in full, a "verified" report-derived pass rests,
\* directly and through others, only on checks of this scan that passed.
THEOREM VerifiedSound ==
  ASSUME DependenciesClosed
  PROVE  Spec => []VerifiedRestsOnPasses
<1>1. ASSUME IInv PROVE VerifiedRestsOnPasses
  <2> SUFFICES ASSUME pc \in {"report", "done"}, NEW i \in Verified,
                      findings[i].tier = "report-derived", NEW d \in Rests(i)
               PROVE  \E j \in WithStatus("PASS") : Registry[j] = d
    BY DEF VerifiedRestsOnPasses
  <2>1. /\ i \in selected /\ i \in Positions
        /\ findings[i].status = "PASS"
        /\ findings[i].note = {}
    BY <1>1 DEF Verified, WithStatus, IInv, TypeOK
  <2>2. Missing(i) = {}
    BY <1>1, <2>1 DEF IInv, NotesExact
  <2>3. DependsOn[Registry[i]] \subseteq PassedIds
    BY <2>1, <2>2 DEF Missing
  <2>4. d \in DependsOn[Registry[i]]
    <3>1. Registry[i] \in Ids
      BY <2>1
    <3>2. DependsOn[Registry[i]] \in SUBSET Ids
      BY <3>1, DependsOnAssumption
    <3>3. \A c \in DependsOn[Registry[i]] : DependsOn[c] \subseteq DependsOn[Registry[i]]
      BY <3>1, DependenciesClosed DEF DependenciesClosed
    <3>4. QED
      BY <3>2, <3>3 DEF Rests
  <2>5. d \in PassedIds
    BY <2>3, <2>4
  <2>6. QED
    BY <2>5 DEF PassedIds, WithStatus
<1>2. QED
  BY <1>1, Invariance, PTL

\* Verdicts are final: no later check and no second pass changes one.
THEOREM FinalVerdicts == Spec => VerdictsAreFinal
<1>1. ASSUME IInv, Next
      PROVE  \A i \in Positions : Found(i) =>
               /\ findings'[i].status = findings[i].status
               /\ findings'[i].tier = findings[i].tier
               /\ findings'[i].seen = findings[i].seen
  <2>1. TypeOK
    BY <1>1 DEF IInv
  <2>2. CASE Annotate
    BY <2>1, <2>2 DEF Annotate, TypeOK
  <2>3. ASSUME NEW k \in Positions, RunCheck(k)
        PROVE  \A i \in Positions : Found(i) => findings'[i] = findings[i]
    BY <2>1, <2>3 DEF RunCheck, Pending, TypeOK
  <2>4. CASE UNCHANGED findings
    BY <2>4
  <2>5. QED
    BY <1>1, <2>2, <2>3, <2>4
       DEF Next, Step, Demo, Refuse, Select, LoopDone, Report, Replace
<1>2. IInv /\ [Next]_vars => [\A i \in Positions : Found(i) =>
               /\ findings'[i].status = findings[i].status
               /\ findings'[i].tier = findings[i].tier
               /\ findings'[i].seen = findings[i].seen]_vars
  BY <1>1
<1>3. QED
  BY <1>2, Invariance, PTL DEF Spec, VerdictsAreFinal
===============================================================================
