------------------------------ MODULE HostProofs ------------------------------
(***************************************************************************)
(* Two parts of the host platform.  HostScan: on files that are left alone *)
(* the six findings let a host in only on evidence the verifier allows,    *)
(* and do so whenever it does, for any verdicts the verifier may give.     *)
(* EventLogReplay: for logs of any length, any algorithms, any PCRs and    *)
(* any quote, the Secure Boot verdict is sound, the flags summarise the    *)
(* log and the banks advance together.                                     *)
(***************************************************************************)
EXTENDS HostScan, EventLogReplay, TLAPS


\* What the check at i makes of a content.
StatusOf(i, e) ==
  IF e = Unreadable THEN "ERROR" ELSE ControlStatus(e[Control[HostChecks[i]]])

\* The loop of this scan is entered, and left, with all six checks selected.
Started == pc \in {"run", "annotate", "report"} \/ (pc = "done" /\ usable /\ mode # "demo")
Looped == pc \in {"annotate", "report"} \/ (pc = "done" /\ usable /\ mode # "demo")
Annotated == pc = "report" \/ (pc = "done" /\ usable /\ mode # "demo")

\* A finding is what the check makes of what it read; the note is the second pass's.
FindingIsOfSeen(i) ==
  findings[i].status # "NONE" =>
    /\ findings[i].seen \in Contents
    /\ findings[i].status = StatusOf(i, findings[i].seen)
    /\ findings[i].tier = "report-derived"
    /\ replaced = 0 => findings[i].seen = input

ScanInv ==
  /\ input \in Contents
  /\ replaced \in 0..MaxReplacements
  /\ pc \in {"start", "run", "annotate", "report", "done"}
  /\ DOMAIN findings = 1..6
  /\ pc \in {"run", "annotate", "report"} => usable /\ mode # "demo"
  /\ Started => selected = 1..6
  /\ ~Started => \A i \in 1..6 : findings[i].status = "NONE"
  /\ Looped => \A i \in 1..6 : findings[i].status # "NONE"
  /\ \A i \in 1..6 : FindingIsOfSeen(i)
  /\ Annotated => \A i \in 1..6 : findings[i].note = Scan!Missing(i)

-------------------------------------------------------------------------------
\* The registry and its controls

LEMMA SixChecks ==
  /\ DOMAIN HostChecks = 1..6
  /\ HostIds = {"HOST-CHAIN-01", "HOST-SIG-01", "HOST-NONCE-01",
                "HOST-DEBUG-01", "HOST-TCB-01", "HOST-MEAS-01"}
  /\ \A i \in 1..6 : HostChecks[i] \in HostIds
  /\ \A c \in HostIds : \E i \in 1..6 : HostChecks[i] = c
<1>1. /\ DOMAIN HostChecks = 1..6
      /\ \A i \in 1..6 : HostChecks[i] \in HostIds
      /\ \A c \in HostIds : \E i \in 1..6 : HostChecks[i] = c
  BY DEF HostChecks, HostIds
<1>2. HostIds = {HostChecks[i] : i \in 1..6}
  BY <1>1 DEF HostIds
<1>3. /\ HostChecks[1] = "HOST-CHAIN-01" /\ HostChecks[2] = "HOST-SIG-01"
      /\ HostChecks[3] = "HOST-NONCE-01" /\ HostChecks[4] = "HOST-DEBUG-01"
      /\ HostChecks[5] = "HOST-TCB-01" /\ HostChecks[6] = "HOST-MEAS-01"
  BY DEF HostChecks
<1>4. \A i \in 1..6 : i \in {1, 2, 3, 4, 5, 6}
  OBVIOUS
<1>5. QED
  BY <1>1, <1>2, <1>3, <1>4

\* Every control is reported by a check: none is left to nobody.
LEMMA ControlsAreReported ==
  /\ \A i \in 1..6 : Control[HostChecks[i]] \in Controls
  /\ \A k \in Controls : \E i \in 1..6 : Control[HostChecks[i]] = k
<1>1. /\ Control["HOST-CHAIN-01"] = "chain" /\ Control["HOST-SIG-01"] = "signature"
      /\ Control["HOST-NONCE-01"] = "nonce" /\ Control["HOST-DEBUG-01"] = "debug"
      /\ Control["HOST-TCB-01"] = "tcb" /\ Control["HOST-MEAS-01"] = "measurement"
  BY SixChecks DEF Control
<1>2. \A c \in HostIds : Control[c] \in Controls
  BY <1>1, SixChecks DEF Controls
<1>3. \A k \in Controls : \E c \in HostIds : Control[c] = k
  BY <1>1, SixChecks DEF Controls
<1>4. QED
  BY <1>2, <1>3, SixChecks

LEMMA PassIsPositive ==
  ASSUME NEW passed \in {TRUE, FALSE, Unassessed}
  PROVE  /\ ControlStatus(passed) \in {"PASS", "FAIL", "SKIP"}
         /\ ControlStatus(passed) = "PASS" <=> passed = TRUE
<1>1. CASE passed = TRUE
  BY <1>1, UnassessedAssumption DEF ControlStatus
<1>2. CASE passed = FALSE
  BY <1>2, UnassessedAssumption DEF ControlStatus
<1>3. CASE passed = Unassessed
  BY <1>3, UnassessedAssumption DEF ControlStatus
<1>4. QED
  BY <1>1, <1>2, <1>3

LEMMA StatusIsKnown ==
  ASSUME NEW i \in 1..6, NEW e \in Contents
  PROVE  StatusOf(i, e) \in {"PASS", "FAIL", "SKIP", "ERROR"}
<1>1. CASE e = Unreadable
  BY <1>1 DEF StatusOf
<1>2. CASE e # Unreadable
  <2>1. e[Control[HostChecks[i]]] \in {TRUE, FALSE, Unassessed}
    BY <1>2, ContentsAssumption, ControlsAreReported
  <2>2. QED
    BY <1>2, <2>1, PassIsPositive DEF StatusOf
<1>3. QED
  BY <1>1, <1>2

\* The six checks together pass exactly on what the verifier allows.
LEMMA AllPassIsAllowed ==
  ASSUME NEW e \in Contents
  PROVE  (\A i \in 1..6 : StatusOf(i, e) = "PASS") <=> e \in Allowed
<1>1. CASE e = Unreadable
  BY <1>1 DEF StatusOf, Allowed
<1>2. CASE e # Unreadable
  <2>1. \A k \in Controls : e[k] \in {TRUE, FALSE, Unassessed}
    BY <1>2, ContentsAssumption
  <2>2. \A i \in 1..6 : StatusOf(i, e) = "PASS" <=> e[Control[HostChecks[i]]] = TRUE
    BY <1>2, <2>1, ControlsAreReported, PassIsPositive DEF StatusOf
  <2>3. (\A i \in 1..6 : StatusOf(i, e) = "PASS") <=> \A k \in Controls : e[k] = TRUE
    BY <2>2, ControlsAreReported
  <2>4. QED
    BY <1>2, <2>3 DEF Allowed
<1>3. QED
  BY <1>1, <1>2

-------------------------------------------------------------------------------
\* The invariant

\* The second pass reads statuses and tiers only, so that it says the same before
\* and after a step that changes neither.
LEMMA MissingStable ==
  ASSUME selected' = selected,
         \A j \in 1..6 : /\ findings'[j].status = findings[j].status
                         /\ findings'[j].tier = findings[j].tier,
         selected = 1..6
  PROVE  \A i \in 1..6 : Scan!Missing(i)' = Scan!Missing(i)
<1>1. Scan!PassedIds' = Scan!PassedIds
  BY DEF Scan!PassedIds
<1>2. QED
  BY <1>1 DEF Scan!Missing

LEMMA InitScanInv == Scan!Init => ScanInv
BY SixChecks, BoundAssumption
   DEF Scan!Init, Scan!Positions, Scan!NoFinding, ScanInv, Started, Looped, Annotated,
       FindingIsOfSeen

LEMMA StampIsOfInput ==
  ASSUME ScanInv, NEW i \in 1..6, NEW o \in HostOutcomes[HostChecks[i]][input]
  PROVE  /\ Scan!Stamped(i, o).status = StatusOf(i, input)
         /\ Scan!Stamped(i, o).tier = "report-derived"
         /\ Scan!Stamped(i, o).seen = input
<1>1. HostChecks[i] \in HostIds /\ input \in Contents
  BY SixChecks DEF ScanInv
<1>2. o = [raised |-> FALSE, status |-> StatusOf(i, input), tier |-> "none"]
  BY <1>1 DEF HostOutcomes, StatusOf
<1>3. HostTier[HostChecks[i]] = "report-derived"
  BY <1>1 DEF HostTier
<1>4. QED
  BY <1>2, <1>3 DEF Scan!Stamped

LEMMA NextScanInv == ScanInv /\ [Scan!Next]_(Scan!vars) => ScanInv'
<1> SUFFICES ASSUME ScanInv, [Scan!Next]_(Scan!vars) PROVE ScanInv'
  OBVIOUS
<1>1. ASSUME NEW w \in BOOLEAN, Scan!Demo(w) PROVE ScanInv'
  BY <1>1 DEF Scan!Demo, ScanInv, Started, Looped, Annotated, FindingIsOfSeen
<1>2. CASE Scan!Refuse
  BY <1>2 DEF Scan!Refuse, ScanInv, Started, Looped, Annotated, FindingIsOfSeen
<1>3. CASE Scan!Select
  <2>1. selected' = 1..6
    BY <1>3, SixChecks DEF Scan!Select, Scan!PassiveOnly, Scan!Positions
  <2>2. QED
    BY <1>3, <2>1 DEF Scan!Select, ScanInv, Started, Looped, Annotated, FindingIsOfSeen
<1>4. ASSUME NEW i \in 1..6, Scan!RunCheck(i) PROVE ScanInv'
  <2>1. PICK o \in HostOutcomes[HostChecks[i]][input] :
          findings' = [findings EXCEPT ![i] = Scan!Stamped(i, o)]
    BY <1>4 DEF Scan!RunCheck
  <2>2. /\ pc = "run" /\ pc' = "run" /\ usable' = usable /\ mode' = mode
        /\ input' = input /\ replaced' = replaced /\ selected' = selected
    BY <1>4 DEF Scan!RunCheck
  <2>3. DOMAIN findings = 1..6
    BY DEF ScanInv
  <2>4. FindingIsOfSeen(i)'
    BY <2>1, <2>2, <2>3, StampIsOfInput DEF FindingIsOfSeen, ScanInv, StatusOf
  <2>5. ASSUME NEW j \in 1..6, j # i PROVE FindingIsOfSeen(j)'
    BY <2>1, <2>2, <2>3, <2>5 DEF FindingIsOfSeen, ScanInv, StatusOf
  <2>6. QED
    BY <2>1, <2>2, <2>3, <2>4, <2>5 DEF ScanInv, Started, Looped, Annotated
<1>5. CASE Scan!LoopDone
  <2>1. \A i \in 1..6 : findings[i].status # "NONE"
    BY <1>5 DEF Scan!LoopDone, Scan!Pending, Scan!Found, ScanInv, Started
  <2>2. QED
    BY <1>5, <2>1 DEF Scan!LoopDone, ScanInv, Started, Looped, Annotated, FindingIsOfSeen
<1>6. CASE Scan!Annotate
  <2>1. /\ findings' = [i \in 1..6 |-> [findings[i] EXCEPT !.note = Scan!Missing(i)]]
        /\ pc = "annotate" /\ pc' = "report" /\ selected = 1..6 /\ selected' = selected
        /\ usable' = usable /\ mode' = mode /\ input' = input /\ replaced' = replaced
    BY <1>6, SixChecks DEF Scan!Annotate, Scan!Positions, ScanInv, Started
  <2>2. \A i \in 1..6 : /\ findings'[i].status = findings[i].status
                        /\ findings'[i].tier = findings[i].tier
                        /\ findings'[i].seen = findings[i].seen
    BY <2>1
  <2>3. \A i \in 1..6 : findings'[i].note = Scan!Missing(i)
    BY <2>1
  <2>4. \A i \in 1..6 : Scan!Missing(i)' = Scan!Missing(i)
    BY <2>1, <2>2, MissingStable
  <2>5. \A i \in 1..6 : FindingIsOfSeen(i)'
    BY <2>1, <2>2 DEF FindingIsOfSeen, ScanInv, StatusOf
  <2>6. QED
    BY <2>1, <2>2, <2>3, <2>4, <2>5 DEF ScanInv, Started, Looped, Annotated
<1>7. ASSUME NEW w \in BOOLEAN, Scan!Report(w) PROVE ScanInv'
  <2>1. \A i \in 1..6 : Scan!Missing(i)' = Scan!Missing(i)
    BY <1>7, MissingStable DEF Scan!Report, ScanInv, Started
  <2>2. QED
    BY <1>7, <2>1 DEF Scan!Report, ScanInv, Started, Looped, Annotated, FindingIsOfSeen
<1>8. CASE Scan!Replace
  <2>1. /\ pc \in {"start", "run"} /\ pc' = pc /\ input' \in Contents
        /\ replaced < MaxReplacements /\ replaced' = replaced + 1
        /\ usable' = usable /\ mode' = mode /\ selected' = selected /\ findings' = findings
    BY <1>8 DEF Scan!Replace
  <2>2. replaced' \in 0..MaxReplacements /\ replaced' # 0
    BY <2>1, BoundAssumption DEF ScanInv
  <2>3. QED
    BY <2>1, <2>2 DEF ScanInv, Started, Looped, Annotated, FindingIsOfSeen
<1>9. CASE UNCHANGED Scan!vars
  <2>1. Annotated => \A i \in 1..6 : Scan!Missing(i)' = Scan!Missing(i)
    BY <1>9, MissingStable DEF Scan!vars, ScanInv, Started, Annotated
  <2>2. QED
    BY <1>9, <2>1 DEF Scan!vars, ScanInv, Started, Looped, Annotated, FindingIsOfSeen
<1>10. QED
  BY <1>1, <1>2, <1>3, <1>4, <1>5, <1>6, <1>7, <1>8, <1>9, SixChecks
     DEF Scan!Next, Scan!Step, Scan!Positions

LEMMA ScanInvariance == Spec => []ScanInv
BY InitScanInv, NextScanInv, PTL DEF Spec, Scan!Spec

-------------------------------------------------------------------------------
\* The findings together

\* A note has nothing to name when all six passed.
LEMMA NothingMissing ==
  ASSUME ScanInv, Annotated, \A i \in 1..6 : findings[i].status = "PASS"
  PROVE  \A i \in 1..6 : findings[i].note = {}
<1>1. selected = 1..6
  BY DEF ScanInv, Annotated, Started
<1>2. Scan!PassedIds = HostIds
  BY <1>1, SixChecks DEF Scan!PassedIds
<1>3. \A i \in 1..6 : HostDependsOn[HostChecks[i]] \subseteq HostIds
  <2>1. \A c \in HostIds : HostDependsOn[c] \subseteq HostIds
    BY SixChecks DEF HostDependsOn, Trust
  <2>2. QED
    BY <2>1, SixChecks
<1>4. \A i \in 1..6 : Scan!Missing(i) = {}
  BY <1>2, <1>3 DEF Scan!Missing
<1>5. QED
  BY <1>4 DEF ScanInv

\* AllowedEvidenceIsReported holds whatever verdicts the verifier may give and
\* however long the scan: allowed evidence, left alone, is six passes, no note.
THEOREM AllowedIsReported == Spec => []AllowedEvidenceIsReported
<1>1. ASSUME ScanInv, pc = "done", replaced = 0, usable, mode # "demo", input \in Allowed
      PROVE  AllSixPass
  <2>1. \A i \in 1..6 : findings[i].status = StatusOf(i, input)
    BY <1>1 DEF ScanInv, FindingIsOfSeen, Looped
  <2>2. \A i \in 1..6 : findings[i].status = "PASS"
    BY <1>1, <2>1, AllPassIsAllowed DEF ScanInv
  <2>3. QED
    BY <1>1, <2>2, NothingMissing, SixChecks DEF AllSixPass, Annotated
<1>2. ScanInv => AllowedEvidenceIsReported
  BY <1>1 DEF AllowedEvidenceIsReported
<1>3. QED
  BY <1>2, ScanInvariance, PTL

\* A step of the scan decides nothing or takes the gate's decision.
LEMMA StepDecides ==
  ASSUME MaxReplacements = 0, ScanInv, ScanInv', [Scan!Next]_(Scan!vars)
  PROVE  [Gate!Next]_(Gate!vars)
<1>1. replaced = 0 /\ replaced' = 0
  BY DEF ScanInv
<1>2. input' = input
  <2>1. ~Scan!Replace
    BY <1>1 DEF Scan!Replace
  <2>2. QED
    BY <2>1 DEF Scan!Next, Scan!Step, Scan!Demo, Scan!Refuse, Scan!Select, Scan!RunCheck,
                Scan!LoopDone, Scan!Annotate, Scan!Report, Scan!vars
<1>3. \/ pc # "done" /\ pc' = "done"
      \/ pc # "done" /\ pc' # "done"
      \/ UNCHANGED Scan!vars
  BY <1>1 DEF Scan!Next, Scan!Step, Scan!Demo, Scan!Refuse, Scan!Select, Scan!RunCheck,
         Scan!LoopDone, Scan!Annotate, Scan!Report, Scan!Replace, Scan!vars
<1>4. CASE pc # "done" /\ pc' = "done"
  <2>1. Decision = "pending" /\ Decision' \in {"allow", "deny"}
    BY <1>4 DEF Decision
  <2>2. CASE Decision' = "deny"
    BY <1>2, <2>1, <2>2 DEF Gate!Next, Gate!Deny
  <2>3. CASE Decision' = "allow"
    <3>1. usable' /\ mode' # "demo" /\ AllSixPass'
      BY <1>4, <2>3 DEF Decision
    <3>2. input \in Allowed
      <4>1. \A i \in 1..6 : findings'[i].status = "PASS"
        BY <3>1, SixChecks DEF AllSixPass
      <4>2. \A i \in 1..6 : findings'[i].status = StatusOf(i, input)
        BY <1>1, <1>2, <1>4, <3>1 DEF ScanInv, FindingIsOfSeen, Looped, StatusOf
      <4>3. QED
        BY <4>1, <4>2, AllPassIsAllowed DEF ScanInv
    <3>3. QED
      BY <1>2, <2>1, <2>3, <3>2 DEF Gate!Next, Gate!Allow
  <2>4. QED
    BY <2>1, <2>2, <2>3
<1>5. CASE pc # "done" /\ pc' # "done"
  BY <1>2, <1>5 DEF Decision, Gate!vars
<1>6. CASE UNCHANGED Scan!vars
  BY <1>6 DEF Scan!vars, Gate!vars, Decision, AllSixPass
<1>7. QED
  BY <1>3, <1>4, <1>5, <1>6

\* The safety half of FindingsImplementGate: on files that are left alone the six findings
\* together are the gate, whatever verdicts the verifier may give.
THEOREM FindingsAreTheGate ==
  ASSUME MaxReplacements = 0
  PROVE  Spec => Gate!Init /\ [][Gate!Next]_(Gate!vars)
<1>1. Scan!Init => Gate!Init
  BY DEF Scan!Init, Gate!Init, Decision
<1>2. ScanInv /\ ScanInv' /\ [Scan!Next]_(Scan!vars) => [Gate!Next]_(Gate!vars)
  BY StepDecides
<1>3. QED
  BY <1>1, <1>2, ScanInvariance, PTL DEF Spec, Scan!Spec


-------------------------------------------------------------------------------
\* The replay of an event log

USE DEF environment, result

(***************************************************************************)
(* The strengthening.  SecureBootWasMeasured speaks of the end of the log  *)
(* only; what every step keeps is that a Secure Boot value, once taken,    *)
(* was extended into PCR 7 of every bank.  The flags are related to the    *)
(* events through the value itself: FlagsSummariseLog alone does not say   *)
(* that the value is that of a bound event.                                *)
(***************************************************************************)
NothingReadYet ==
  stage = "header" =>
    /\ log = <<>> /\ secureBoot = "none" /\ ~unbound /\ ~conflict
    /\ \A b \in Known : \A p \in Pcrs : pcrs[b][p] = [loc |-> 0, ext |-> <<>>]

BoundValues == {Enabled(e) : e \in {f \in SecureBootEvents : Bound(f)}}
FlagsFollowValues ==
  stage \in {"events", "done"} =>
    /\ unbound <=> \E e \in SecureBootEvents : ~Bound(e)
    /\ secureBoot = "none" <=> BoundValues = {}
    /\ secureBoot # "none" => secureBoot \in BoundValues
    /\ conflict <=> \E v \in BoundValues : v # secureBoot

ReplayInv ==
  /\ TypeOK
  /\ NothingReadYet
  /\ ValueWasExtended
  /\ FlagsFollowValues
  /\ EquallyExtended

-------------------------------------------------------------------------------
\* What Extend returns is a PCR value one digest longer, holding all digests
\* held before and the new one.
LEMMA ExtendType ==
  ASSUME TypeOK, NEW v \in PcrValue, NEW p \in Pcrs, NEW d \in Data
  PROVE  /\ Extend(v, p, d) \in PcrValue
         /\ Len(Extend(v, p, d).ext) = Len(v.ext) + 1
         /\ Extended(Extend(v, p, d), d)
         /\ \A x : Extended(v, x) => Extended(Extend(v, p, d), x)
<1>1. Extend(v, p, d) \in PcrValue
  BY DEF Extend, TypeOK, PcrValue
<1>2. Extend(v, p, d).ext = Append(v.ext, d)
  BY DEF Extend
<1>3. /\ Len(Append(v.ext, d)) = Len(v.ext) + 1
      /\ Append(v.ext, d)[Len(v.ext) + 1] = d
      /\ \A k \in DOMAIN v.ext : /\ k \in DOMAIN Append(v.ext, d)
                                 /\ Append(v.ext, d)[k] = v.ext[k]
      /\ Len(v.ext) + 1 \in DOMAIN Append(v.ext, d)
  BY DEF PcrValue
<1>4. QED
  BY <1>1, <1>2, <1>3 DEF Extended

\* The digest an event carries for an algorithm is one of its digests.
LEMMA DigestInType ==
  ASSUME NEW e \in Events, NEW a \in Carried(e)
  PROVE  DigestIn(e, a) \in Data
<1>1. e.digests \in Seq(Digest)
  BY EventsAssumption DEF Event
<1>2. PICK k \in DOMAIN e.digests : e.digests[k].alg = a
  BY DEF Carried
<1> DEFINE j == CHOOSE i \in DOMAIN e.digests : e.digests[i].alg = a
<1>3. j \in DOMAIN e.digests
  BY <1>2
<1> HIDE DEF j
<1>4. e.digests[j] \in Digest
  BY <1>1, <1>3
<1>5. e.digests[j].of \in Data
  BY <1>4 DEF Digest
<1>6. QED
  BY <1>5 DEF DigestIn, j

\* Reading an event adds it to the Secure Boot events just when it is one.
LEMMA ReadEvents ==
  ASSUME TypeOK, NEW e \in Events, log' = Append(log, e)
  PROVE  /\ log' \in Seq(Events)
         /\ SecureBootEvents' =
              IF IsSecureBoot(e) THEN SecureBootEvents \cup {e} ELSE SecureBootEvents
<1>1. /\ log' \in Seq(Events)
      /\ DOMAIN log' = DOMAIN log \cup {Len(log) + 1}
      /\ log'[Len(log) + 1] = e
      /\ \A k \in DOMAIN log : log'[k] = log[k]
  BY DEF TypeOK
<1>2. \A f : IsSecureBoot(f)' = IsSecureBoot(f)
  BY DEF IsSecureBoot
<1>3. SecureBootEvents' = {log'[k] : k \in {j \in DOMAIN log' : IsSecureBoot(log'[j])}}
  BY <1>2 DEF SecureBootEvents
<1>4. QED
  BY <1>1, <1>3 DEF SecureBootEvents

-------------------------------------------------------------------------------
LEMMA InitReplayInv == Init => ReplayInv
<1> SUFFICES ASSUME Init PROVE ReplayInv
  OBVIOUS
<1>1. TypeOK
  <2>1. tpm \in [Pcrs -> PcrValue]
    BY BootsAssumption DEF Init
  <2>2. quoted \in SUBSET (Known \X Pcrs)
    BY SelectionsAssumption DEF Init
  <2>3. [loc |-> 0, ext |-> <<>>] \in PcrValue
    BY DEF PcrValue
  <2>4. pcrs \in [Known -> [Pcrs -> PcrValue]]
    BY <2>3 DEF Init
  <2>5. log \in Seq(Events)
    BY DEF Init
  <2>6. /\ stage = "header" /\ algorithms = {} /\ locality = 0 /\ secureBoot = "none"
        /\ unbound = FALSE /\ conflict = FALSE
    BY DEF Init
  <2>7. QED
    BY <2>1, <2>2, <2>4, <2>5, <2>6 DEF TypeOK
<1>2. NothingReadYet
  BY DEF Init, NothingReadYet
<1>3. ValueWasExtended
  BY DEF Init, ValueWasExtended
<1>4. FlagsFollowValues
  BY DEF Init, FlagsFollowValues
<1>5. EquallyExtended
  BY DEF Init, EquallyExtended, Banks
<1>6. QED
  BY <1>1, <1>2, <1>3, <1>4, <1>5 DEF ReplayInv

\* The header fixes the algorithms before anything is read.
LEMMA HeaderReplayInv == ReplayInv /\ Header => ReplayInv'
<1> SUFFICES ASSUME ReplayInv, Header PROVE ReplayInv'
  OBVIOUS
<1>0. TypeOK /\ NothingReadYet
  BY DEF ReplayInv
<1>1. TypeOK'
  BY <1>0 DEF Header, TypeOK
<1>2. NothingReadYet'
  BY DEF Header, NothingReadYet
<1>3. ValueWasExtended'
  BY <1>0 DEF Header, NothingReadYet, ValueWasExtended
<1>4. FlagsFollowValues'
  <2>1. SecureBootEvents' = {}
    BY <1>0 DEF Header, NothingReadYet, SecureBootEvents
  <2>2. BoundValues' = {}
    BY <2>1 DEF BoundValues
  <2>3. secureBoot' = "none" /\ ~unbound' /\ ~conflict'
    BY <1>0 DEF Header, NothingReadYet
  <2>4. QED
    BY <2>1, <2>2, <2>3 DEF FlagsFollowValues
<1>5. EquallyExtended'
  <2>1. \A b \in Known : \A p \in Pcrs : pcrs'[b][p] = [loc |-> 0, ext |-> <<>>]
    BY <1>0 DEF Header, NothingReadYet
  <2>2. QED
    BY <2>1 DEF EquallyExtended, Banks
<1>6. QED
  BY <1>1, <1>2, <1>3, <1>4, <1>5 DEF ReplayInv

\* A step that changes no result keeps everything, if what it reads is not a
\* Secure Boot event or the reading is over.
LEMMA QuietReplayInv ==
  ASSUME ReplayInv, UNCHANGED <<tpm, quoted, algorithms, pcrs, secureBoot, unbound, conflict>>,
         locality' \in Nat, log' \in Seq(Events),
         stage' \in {"events", "done", "raised"},
         \/ stage' = "raised"
         \/ stage \in {"events", "done"} /\ SecureBootEvents' = SecureBootEvents
  PROVE  ReplayInv'
<1>1. TypeOK'
  BY DEF ReplayInv, TypeOK
<1>2. NothingReadYet'
  BY DEF NothingReadYet
<1>3. ValueWasExtended'
  BY DEF ReplayInv, ValueWasExtended, Banks, Extended
<1>4. FlagsFollowValues'
  <2>1. CASE stage' = "raised"
    BY <2>1 DEF FlagsFollowValues
  <2>2. CASE stage \in {"events", "done"} /\ SecureBootEvents' = SecureBootEvents
    <3>1. \A e : Bound(e)' = Bound(e) /\ Enabled(e)' = Enabled(e)
      BY DEF Bound, Enabled, Banks, Carried, DigestIn
    <3>2. BoundValues' = BoundValues
      BY <2>2, <3>1 DEF BoundValues
    <3>3. QED
      BY <2>2, <3>1, <3>2 DEF ReplayInv, FlagsFollowValues
  <2>3. QED
    BY <2>1, <2>2
<1>5. EquallyExtended'
  BY DEF ReplayInv, EquallyExtended, Banks
<1>6. QED
  BY <1>1, <1>2, <1>3, <1>4, <1>5 DEF ReplayInv

-------------------------------------------------------------------------------
\* A measured event extends its PCR in every bank, then sets at most one flag.
LEMMA MeasureReplayInv == ReplayInv => \A e \in Events : Measure(e) => ReplayInv'
<1> SUFFICES ASSUME ReplayInv, NEW e \in Events, Measure(e) PROVE ReplayInv'
  OBVIOUS
<1>0. /\ TypeOK
      /\ e \in Event
      /\ stage = "events" /\ stage' = "events" /\ algorithms' = algorithms
      /\ Banks' = Banks /\ Banks \subseteq Known
  BY EventsAssumption DEF ReplayInv, Measure, Replay, TakeSecureBoot, Reads, Banks
<1>1. \A b \in Banks : b \in Carried(e) /\ DigestIn(e, b) \in Data
  <2>1. Carried(e) = algorithms
    BY DEF Measure, Replay, TakeSecureBoot, Refused
  <2>2. QED
    BY <2>1, DigestInType DEF Banks
<1>2. \A b \in Banks : \A p \in Pcrs :
        pcrs'[b][p] = IF p = e.pcr THEN Extend(pcrs[b][p], p, DigestIn(e, b))
                      ELSE pcrs[b][p]
  BY <1>0 DEF Measure, Replay, TakeSecureBoot, TypeOK
<1>3. /\ log' \in Seq(Events)
      /\ SecureBootEvents' =
           IF IsSecureBoot(e) THEN SecureBootEvents \cup {e} ELSE SecureBootEvents
  BY <1>0, ReadEvents DEF Measure, Replay, TakeSecureBoot, Reads
<1>4. \A b \in Known : \A p \in Pcrs : pcrs[b][p] \in PcrValue
  BY <1>0 DEF TypeOK
<1>5. Enabled(e) \in {"on", "off"}
  BY DEF Enabled
<1>6. ASSUME NEW b \in Banks, NEW p \in Pcrs
       PROVE  LET v == pcrs[b][p]
                  w == pcrs'[b][p]
              IN  /\ \A x : Extended(v, x) => Extended(w, x)
                  /\ p = e.pcr => Extended(w, DigestIn(e, b))
                  /\ Len(w.ext) = IF p = e.pcr THEN Len(v.ext) + 1 ELSE Len(v.ext)
                  /\ w.loc = IF p = e.pcr /\ Len(v.ext) = 0
                             THEN IF p = 0 THEN locality ELSE 0
                             ELSE v.loc
  <2>1. pcrs[b][p] \in PcrValue /\ DigestIn(e, b) \in Data
    BY <1>0, <1>1, <1>4
  <2>2. CASE p # e.pcr
    BY <1>2, <2>2
  <2>3. CASE p = e.pcr
    <3> DEFINE w == Extend(pcrs[b][p], p, DigestIn(e, b))
    <3>1. pcrs'[b][p] = w
      BY <1>2, <2>3
    <3>2. /\ \A x : Extended(pcrs[b][p], x) => Extended(w, x)
          /\ Extended(w, DigestIn(e, b))
          /\ Len(w.ext) = Len(pcrs[b][p].ext) + 1
      BY <1>0, <2>1, ExtendType
    <3>3. pcrs[b][p].ext = <<>> <=> Len(pcrs[b][p].ext) = 0
      BY <2>1 DEF PcrValue
    <3>4. w.loc = IF Len(pcrs[b][p].ext) = 0
                  THEN IF p = 0 THEN locality ELSE 0
                  ELSE pcrs[b][p].loc
      BY <3>3 DEF Extend
    <3>5. QED
      BY <2>3, <3>1, <3>2, <3>4
  <2>4. QED
    BY <2>2, <2>3
<1>7. TypeOK'
  <2>1. pcrs' \in [Known -> [Pcrs -> PcrValue]]
    <3>1. e.pcr \in Pcrs
      BY <1>0 DEF Event
    <3>2. \A b \in Banks : Extend(pcrs[b][e.pcr], e.pcr, DigestIn(e, b)) \in PcrValue
      BY <1>0, <1>1, <1>4, <3>1, ExtendType
    <3>3. \A b \in Known : pcrs[b] \in [Pcrs -> PcrValue]
      BY <1>0 DEF TypeOK
    <3>4. \A b \in Banks :
            [pcrs[b] EXCEPT ![e.pcr] = Extend(@, e.pcr, DigestIn(e, b))]
              \in [Pcrs -> PcrValue]
      BY <1>0, <3>2, <3>3
    <3>5. pcrs' = [b \in Known |->
                IF b \in Banks
                THEN [pcrs[b] EXCEPT ![e.pcr] = Extend(@, e.pcr, DigestIn(e, b))]
                ELSE pcrs[b]]
      BY DEF Measure, Replay, TakeSecureBoot
    <3>6. QED
      BY <3>3, <3>4, <3>5
  <2>2. secureBoot' \in {"none", "on", "off"} /\ unbound' \in BOOLEAN /\ conflict' \in BOOLEAN
    BY <1>0, <1>5 DEF Measure, Replay, TakeSecureBoot, TypeOK
  <2>3. QED
    BY <1>0, <1>3, <2>1, <2>2 DEF Measure, Replay, TakeSecureBoot, TypeOK
<1>8. NothingReadYet'
  BY <1>0 DEF NothingReadYet
<1>9. \A b \in Banks : \A x : Extended(pcrs[b][7], x) => Extended(pcrs'[b][7], x)
  BY <1>6, PcrAssumption
<1>10. ValueWasExtended'
  <2>1. ASSUME secureBoot' # secureBoot
        PROVE  /\ IsSecureBoot(e) /\ Bound(e) /\ secureBoot' = Enabled(e)
               /\ \A b \in Banks : Extended(pcrs'[b][7], e.data)
    <3>1. IsSecureBoot(e) /\ Bound(e) /\ secureBoot' = Enabled(e)
      BY <2>1 DEF Measure, Replay, TakeSecureBoot
    <3>2. e.pcr = 7 /\ \A b \in Banks : DigestIn(e, b) = e.data
      BY <3>1 DEF IsSecureBoot, Bound
    <3>3. QED
      BY <1>6, <3>1, <3>2, PcrAssumption
  <2>2. IsSecureBoot(e) => e.data = IF Enabled(e) = "on" THEN SbOn ELSE SbOff
    BY DEF IsSecureBoot, Enabled
  <2>3. \A b, x : Extended(pcrs[b][7], x)' <=> Extended(pcrs'[b][7], x)
    BY DEF Extended
  <2>4. CASE secureBoot' = secureBoot
    BY <1>0, <1>9, <2>3, <2>4 DEF ReplayInv, ValueWasExtended
  <2>5. CASE secureBoot' # secureBoot
    BY <1>0, <2>1, <2>2, <2>3, <2>5 DEF ValueWasExtended
  <2>6. QED
    BY <2>4, <2>5
<1>11. FlagsFollowValues'
  <2>1. \A f : Bound(f)' = Bound(f) /\ Enabled(f)' = Enabled(f)
    BY <1>0 DEF Bound, Enabled, Carried, DigestIn
  <2>2. BoundValues' = IF IsSecureBoot(e) /\ Bound(e)
                       THEN BoundValues \cup {Enabled(e)} ELSE BoundValues
    BY <1>3, <2>1 DEF BoundValues
  <2>3. FlagsFollowValues
    BY DEF ReplayInv
  <2>4. CASE ~IsSecureBoot(e)
    BY <1>0, <1>3, <2>1, <2>2, <2>3, <2>4 DEF FlagsFollowValues, Measure, Replay, TakeSecureBoot
  <2>5. CASE IsSecureBoot(e) /\ ~Bound(e)
    BY <1>0, <1>3, <2>1, <2>2, <2>3, <2>5 DEF FlagsFollowValues, Measure, Replay, TakeSecureBoot
  <2>6. CASE IsSecureBoot(e) /\ Bound(e)
    <3>1. (unbound' <=> unbound) /\ (\E f \in SecureBootEvents' : ~Bound(f))
                                      <=> (\E f \in SecureBootEvents : ~Bound(f))
      BY <1>3, <2>6 DEF Measure, Replay, TakeSecureBoot
    <3>2. CASE secureBoot # "none" /\ secureBoot # Enabled(e)
      BY <1>0, <2>1, <2>2, <2>3, <2>6, <3>1, <3>2 DEF FlagsFollowValues, Measure, Replay, TakeSecureBoot
    <3>3. CASE ~(secureBoot # "none" /\ secureBoot # Enabled(e))
      BY <1>0, <1>5, <2>1, <2>2, <2>3, <2>6, <3>1, <3>3 DEF FlagsFollowValues, Measure, Replay, TakeSecureBoot
    <3>4. QED
      BY <3>2, <3>3
  <2>7. QED
    BY <2>4, <2>5, <2>6
<1>12. EquallyExtended'
  <2> SUFFICES ASSUME NEW b \in Banks, NEW c \in Banks, NEW p \in Pcrs
               PROVE  /\ pcrs'[b][p].loc = pcrs'[c][p].loc
                      /\ Len(pcrs'[b][p].ext) = Len(pcrs'[c][p].ext)
    BY <1>0 DEF EquallyExtended
  <2>1. pcrs[b][p].loc = pcrs[c][p].loc /\ Len(pcrs[b][p].ext) = Len(pcrs[c][p].ext)
    BY DEF ReplayInv, EquallyExtended
  <2>2. CASE p = e.pcr
    <3>1. \A d \in Banks :
            /\ Len(pcrs'[d][p].ext) = Len(pcrs[d][p].ext) + 1
            /\ pcrs'[d][p].loc = IF Len(pcrs[d][p].ext) = 0
                                 THEN IF p = 0 THEN locality ELSE 0
                                 ELSE pcrs[d][p].loc
      BY <1>6, <2>2
    <3>2. QED
      BY <2>1, <3>1
  <2>3. CASE p # e.pcr
    BY <1>2, <2>1, <2>3
  <2>4. QED
    BY <2>2, <2>3
<1>13. QED
  BY <1>7, <1>8, <1>10, <1>11, <1>12 DEF ReplayInv

LEMMA StepReplayInv == ReplayInv /\ [Next]_vars => ReplayInv'
<1> SUFFICES ASSUME ReplayInv, [Next]_vars PROVE ReplayInv'
  OBVIOUS
<1>0. TypeOK
  BY DEF ReplayInv
<1>1. CASE Header
  BY <1>1, HeaderReplayInv
<1>2. CASE Truncated
  BY <1>0, <1>2, QuietReplayInv DEF Truncated, TypeOK
<1>3. ASSUME NEW e \in Events, Refuse(e) PROVE ReplayInv'
  BY <1>0, <1>3, ReadEvents, QuietReplayInv DEF Refuse, Reads, TypeOK
<1>4. ASSUME NEW e \in Events, NoAction(e) PROVE ReplayInv'
  <2>1. log' \in Seq(Events) /\ SecureBootEvents' = SecureBootEvents
    BY <1>0, <1>4, ReadEvents DEF NoAction, Reads, IsSecureBoot
  <2>2. locality' \in Nat
    BY <1>0, <1>4, LocalityAssumption DEF NoAction, TypeOK
  <2>3. QED
    BY <1>4, <2>1, <2>2, QuietReplayInv DEF NoAction, Reads
<1>5. ASSUME NEW e \in Events, Measure(e) PROVE ReplayInv'
  BY <1>5, MeasureReplayInv
<1>6. CASE EndOfLog
  <2>1. SecureBootEvents' = SecureBootEvents
    BY <1>6 DEF EndOfLog, SecureBootEvents
  <2>2. QED
    BY <1>0, <1>6, <2>1, QuietReplayInv DEF EndOfLog, TypeOK
<1>7. CASE UNCHANGED vars
  <2>1. TypeOK' /\ NothingReadYet' /\ ValueWasExtended' /\ EquallyExtended'
    BY <1>7 DEF vars, ReplayInv, TypeOK, NothingReadYet, ValueWasExtended, Banks, Extended,
       EquallyExtended
  <2>2. \A e : Bound(e)' = Bound(e) /\ Enabled(e)' = Enabled(e)
    BY <1>7 DEF vars, Bound, Enabled, Banks, Carried, DigestIn
  <2>3. SecureBootEvents' = SecureBootEvents
    BY <1>7 DEF vars, SecureBootEvents, IsSecureBoot
  <2>4. BoundValues' = BoundValues
    BY <2>2, <2>3 DEF BoundValues
  <2>5. FlagsFollowValues'
    BY <1>7, <2>2, <2>3, <2>4 DEF vars, ReplayInv, FlagsFollowValues
  <2>6. QED
    BY <2>1, <2>5 DEF ReplayInv
<1>8. QED
  BY <1>1, <1>2, <1>3, <1>4, <1>5, <1>6, <1>7 DEF Next

LEMMA ReplayInvariance == ReplaySpec => []ReplayInv
<1>1. Init => ReplayInv
  BY InitReplayInv
<1>2. ReplayInv /\ [Next]_vars => ReplayInv'
  BY StepReplayInv
<1>3. QED
  BY <1>1, <1>2, PTL DEF ReplaySpec

-------------------------------------------------------------------------------
\* Type correctness of replay_event_log's state.
THEOREM TypeCorrect == ReplaySpec => []TypeOK
<1>1. ReplayInv => TypeOK
  BY DEF ReplayInv
<1>2. QED
  BY <1>1, ReplayInvariance, PTL

\* check_secure_boot is sound: if it passes with Secure Boot required, then the
\* TPM extended SecureBoot = 1 into the PCR 7 it signed, whatever the log.
THEOREM SecureBootSound == ReplaySpec => []SecureBootWasMeasured
<1>1. ReplayInv => SecureBootWasMeasured
  BY DEF ReplayInv, ValueWasExtended, SecureBootWasMeasured, SecureBootPasses, Pcr7Bound
<1>2. QED
  BY <1>1, ReplayInvariance, PTL

\* The sticky flags of replay_event_log say exactly what the log read so far
\* says, in whatever order its events came.
THEOREM FlagsExact == ReplaySpec => []FlagsSummariseLog
<1>1. ReplayInv => FlagsSummariseLog
  <2> SUFFICES ASSUME ReplayInv, stage \in {"events", "done"}
               PROVE  /\ unbound <=> \E e \in SecureBootEvents : ~Bound(e)
                      /\ conflict <=> \E e, f \in SecureBootEvents :
                                         Bound(e) /\ Bound(f) /\ Enabled(e) # Enabled(f)
                      /\ (secureBoot = "none") <=> \A e \in SecureBootEvents : ~Bound(e)
    BY DEF FlagsSummariseLog
  <2>1. FlagsFollowValues
    BY DEF ReplayInv
  <2>2. \A v : v \in BoundValues <=> \E e \in SecureBootEvents : Bound(e) /\ Enabled(e) = v
    BY DEF BoundValues
  <2>3. "none" \notin BoundValues
    BY <2>2 DEF Enabled
  <2>4. conflict <=> \E u, v \in BoundValues : u # v
    BY <2>1, <2>3 DEF FlagsFollowValues
  <2>5. QED
    BY <2>1, <2>2, <2>4 DEF FlagsFollowValues
<1>2. QED
  BY <1>1, ReplayInvariance, PTL

\* All declared banks of a PCR advance in step, and PCR 7 of each has the digest of
\* the Secure Boot value that was taken.
THEOREM BanksTogether == ReplaySpec => []BanksAdvanceTogether
<1>1. ReplayInv => BanksAdvanceTogether
  BY DEF ReplayInv, BanksAdvanceTogether
<1>2. QED
  BY <1>1, ReplayInvariance, PTL

-------------------------------------------------------------------------------
(***************************************************************************)
(* Exactness needs the converse too: what is extended into PCR 7 is what   *)
(* the events read so far measured there, and none of them was refused.    *)
(***************************************************************************)
MeasuredAs(e, b, d) == e.type # "EV_NO_ACTION" /\ e.pcr = 7 /\ DigestIn(e, b) = d
LogIsExtended ==
  stage \in {"events", "done"} =>
    /\ \A k \in DOMAIN log : ~Refused(log[k])
    /\ \A b \in Banks : \A d \in Data :
         Extended(pcrs[b][7], d) <=> \E k \in DOMAIN log : MeasuredAs(log[k], b, d)

\* Extend adds the digest and nothing else.
LEMMA ExtendAddsOne ==
  ASSUME NEW v \in PcrValue, NEW p, NEW d \in Data, NEW x
  PROVE  Extended(Extend(v, p, d), x) <=> Extended(v, x) \/ x = d
<1>1. Extend(v, p, d).ext = Append(v.ext, d)
  BY DEF Extend
<1>2. v.ext \in Seq(Data)
  BY DEF PcrValue
<1>3. /\ DOMAIN Append(v.ext, d) = DOMAIN v.ext \cup {Len(v.ext) + 1}
      /\ Append(v.ext, d)[Len(v.ext) + 1] = d
      /\ \A k \in DOMAIN v.ext : Append(v.ext, d)[k] = v.ext[k]
  BY <1>2
<1>4. QED
  BY <1>1, <1>3 DEF Extended

\* An event that is read and not refused keeps the correspondence if it extends
\* PCR 7 by just the digests it carries, if it measures anything there.
LEMMA EventKeepsLog ==
  ASSUME TypeOK, LogIsExtended, stage = "events", algorithms' = algorithms,
         NEW e \in Events, ~Refused(e), log' = Append(log, e),
         \A b \in Banks : \A d \in Data :
           Extended(pcrs'[b][7], d) <=> Extended(pcrs[b][7], d) \/ MeasuredAs(e, b, d)
  PROVE  LogIsExtended'
<1>1. /\ DOMAIN log' = DOMAIN log \cup {Len(log) + 1}
      /\ log'[Len(log) + 1] = e
      /\ \A k \in DOMAIN log : log'[k] = log[k]
  BY DEF TypeOK
<1>2. Banks' = Banks /\ \A f : Refused(f)' = Refused(f)
  BY DEF Banks, Refused, MalformedDigests, Carried
<1>3. \A f, b, d : MeasuredAs(f, b, d)' = MeasuredAs(f, b, d)
  BY DEF MeasuredAs, DigestIn
<1>4. \A v, d : Extended(v, d)' = Extended(v, d)
  BY DEF Extended
<1>5. \A k \in DOMAIN log' : ~Refused(log'[k])
  BY <1>1 DEF LogIsExtended
<1>6. ASSUME NEW b \in Banks, NEW d \in Data
      PROVE  Extended(pcrs'[b][7], d) <=> \E k \in DOMAIN log' : MeasuredAs(log'[k], b, d)
  <2>1. Extended(pcrs[b][7], d) <=> \E k \in DOMAIN log : MeasuredAs(log[k], b, d)
    BY DEF LogIsExtended
  <2>2. (\E k \in DOMAIN log' : MeasuredAs(log'[k], b, d))
          <=> (\E k \in DOMAIN log : MeasuredAs(log[k], b, d)) \/ MeasuredAs(e, b, d)
    BY <1>1
  <2>3. QED
    BY <2>1, <2>2
<1>7. QED
  BY <1>2, <1>3, <1>4, <1>5, <1>6 DEF LogIsExtended

LEMMA MeasureKeepsLog ==
  ASSUME ReplayInv, LogIsExtended, NEW e \in Events, Measure(e)
  PROVE  LogIsExtended'
<1>1. /\ TypeOK /\ stage = "events" /\ algorithms' = algorithms /\ ~Refused(e)
      /\ log' = Append(log, e) /\ e.type # "EV_NO_ACTION" /\ pcrs' = Replay(e)
  BY DEF ReplayInv, Measure, Reads
<1>2. Carried(e) = algorithms
  BY <1>1 DEF Refused
<1>3. ASSUME NEW b \in Banks, NEW d \in Data
      PROVE  Extended(pcrs'[b][7], d) <=> Extended(pcrs[b][7], d) \/ MeasuredAs(e, b, d)
  <2>1. b \in Known /\ b \in Carried(e) /\ DigestIn(e, b) \in Data
    BY <1>2, DigestInType DEF Banks
  <2>2. pcrs[b] \in [Pcrs -> PcrValue] /\ pcrs[b][7] \in PcrValue
    BY <1>1, <2>1, PcrAssumption DEF TypeOK
  <2>3. pcrs'[b] = [pcrs[b] EXCEPT ![e.pcr] = Extend(@, e.pcr, DigestIn(e, b))]
    BY <1>1, <2>1 DEF Replay
  <2>4. CASE e.pcr = 7
    <3>1. pcrs'[b][7] = Extend(pcrs[b][7], 7, DigestIn(e, b))
      BY <2>2, <2>3, <2>4, PcrAssumption
    <3>2. Extended(pcrs'[b][7], d) <=> Extended(pcrs[b][7], d) \/ d = DigestIn(e, b)
      BY <2>1, <2>2, <3>1, ExtendAddsOne
    <3>3. QED
      BY <1>1, <2>4, <3>2 DEF MeasuredAs
  <2>5. CASE e.pcr # 7
    <3>1. pcrs'[b][7] = pcrs[b][7]
      BY <2>2, <2>3, <2>5, PcrAssumption
    <3>2. QED
      BY <2>5, <3>1 DEF MeasuredAs
  <2>6. QED
    BY <2>4, <2>5
<1>4. QED
  BY <1>1, <1>3, EventKeepsLog

LEMMA StepKeepsLog ==
  ASSUME ReplayInv, LogIsExtended, [Next]_vars
  PROVE  LogIsExtended'
<1>0. TypeOK
  BY DEF ReplayInv
<1>1. CASE Header
  <2>1. /\ log' = <<>>
        /\ \A b \in Known : pcrs'[b][7].ext = <<>>
    BY <1>1, PcrAssumption DEF Header, ReplayInv, NothingReadYet
  <2>2. \A b \in Known : \A d : ~Extended(pcrs'[b][7], d)
    BY <2>1 DEF Extended
  <2>3. \A v, d : Extended(v, d)' = Extended(v, d)
    BY DEF Extended
  <2>4. QED
    BY <2>1, <2>2, <2>3 DEF LogIsExtended, Banks
<1>2. CASE Truncated
  BY <1>2 DEF Truncated, LogIsExtended
<1>3. ASSUME NEW e \in Events, Refuse(e) PROVE LogIsExtended'
  BY <1>3 DEF Refuse, LogIsExtended
<1>4. ASSUME NEW e \in Events, NoAction(e) PROVE LogIsExtended'
  <2>1. /\ stage = "events" /\ algorithms' = algorithms /\ ~Refused(e) /\ pcrs' = pcrs
        /\ log' = Append(log, e) /\ e.type = "EV_NO_ACTION"
    BY <1>4 DEF NoAction, Reads
  <2>2. \A b, d : ~MeasuredAs(e, b, d)
    BY <2>1 DEF MeasuredAs
  <2>3. QED
    BY <1>0, <2>1, <2>2, EventKeepsLog
<1>5. ASSUME NEW e \in Events, Measure(e) PROVE LogIsExtended'
  BY <1>5, MeasureKeepsLog
<1>6. CASE EndOfLog \/ UNCHANGED vars
  <2>1. /\ algorithms' = algorithms /\ pcrs' = pcrs /\ log' = log
        /\ stage' \in {"events", "done"} => stage \in {"events", "done"}
    BY <1>6 DEF EndOfLog, vars
  <2>2. Banks' = Banks /\ \A f : Refused(f)' = Refused(f)
    BY <2>1 DEF Banks, Refused, MalformedDigests, Carried
  <2>3. \A f, b, d : MeasuredAs(f, b, d)' = MeasuredAs(f, b, d)
    BY DEF MeasuredAs, DigestIn
  <2>4. \A v, d : Extended(v, d)' = Extended(v, d)
    BY DEF Extended
  <2>5. QED
    BY <2>1, <2>2, <2>3, <2>4 DEF LogIsExtended
<1>7. QED
  BY <1>1, <1>2, <1>3, <1>4, <1>5, <1>6 DEF Next

LEMMA LogInvariance == ReplaySpec => []LogIsExtended
<1>1. Init => LogIsExtended
  BY DEF Init, LogIsExtended
<1>2. ReplayInv /\ LogIsExtended /\ [Next]_vars => LogIsExtended'
  BY StepKeepsLog
<1>3. QED
  BY <1>1, <1>2, ReplayInvariance, PTL DEF ReplaySpec

\* In a faithful log every Secure Boot event is bound, and PCR 7 holds a value of
\* the variable just when there is an event that says so.
LEMMA FaithfulEvents ==
  ASSUME ReplayInv, LogIsExtended, FaithfulLog, NEW bank \in Banks
  PROVE  /\ \A e \in SecureBootEvents : Bound(e)
         /\ Extended(tpm[7], SbOn) <=> "on" \in BoundValues
         /\ Extended(tpm[7], SbOff) <=> "off" \in BoundValues
<1>1. /\ stage = "done" /\ TypeOK
      /\ \A k \in DOMAIN log : log[k] \in Events
      /\ \A k \in DOMAIN log : ~Refused(log[k])
      /\ pcrs[bank][7] = tpm[7]
  BY PcrAssumption DEF FaithfulLog, ReplayInv, TypeOK, LogIsExtended
<1>2. ASSUME NEW k \in DOMAIN log, log[k].type # "EV_NO_ACTION", NEW b \in Banks
      PROVE  b \in Carried(log[k]) /\ DigestIn(log[k], b) = log[k].data
  <2>1. b \in Carried(log[k])
    BY <1>1, <1>2 DEF Refused, Banks
  <2>2. PICK h \in DOMAIN log[k].digests : log[k].digests[h].alg = b
    BY <2>1 DEF Carried
  <2> DEFINE j == CHOOSE i \in DOMAIN log[k].digests : log[k].digests[i].alg = b
  <2>3. j \in DOMAIN log[k].digests
    BY <2>2
  <2> HIDE DEF j
  <2>4. log[k].digests[j].of = log[k].data
    BY <1>2, <2>3 DEF FaithfulLog
  <2>5. DigestIn(log[k], b) = log[k].digests[j].of
    BY DEF DigestIn, j
  <2>6. QED
    BY <2>1, <2>4, <2>5
<1>3. \A e \in SecureBootEvents : \E k \in DOMAIN log : log[k] = e /\ IsSecureBoot(e)
  BY DEF SecureBootEvents
<1>4. \A e \in SecureBootEvents : Bound(e)
  BY <1>2, <1>3 DEF IsSecureBoot, Bound
<1>5. ASSUME NEW d \in {SbOn, SbOff}
      PROVE  Extended(tpm[7], d) <=> \E e \in SecureBootEvents : e.data = d
  <2>1. Extended(tpm[7], d) <=> \E k \in DOMAIN log : MeasuredAs(log[k], bank, d)
    BY <1>1, DataAssumption DEF LogIsExtended
  <2>2. ASSUME NEW k \in DOMAIN log, MeasuredAs(log[k], bank, d)
        PROVE  log[k] \in SecureBootEvents /\ log[k].data = d
    <3>1. log[k].type # "EV_NO_ACTION" /\ log[k].pcr = 7 /\ log[k].data = d
      BY <1>2, <2>2 DEF MeasuredAs
    <3>2. IsSecureBoot(log[k])
      BY <3>1 DEF FaithfulLog
    <3>3. QED
      BY <3>1, <3>2 DEF SecureBootEvents
  <2>3. ASSUME NEW e \in SecureBootEvents, e.data = d
        PROVE  \E k \in DOMAIN log : MeasuredAs(log[k], bank, d)
    <3>1. PICK k \in DOMAIN log : log[k] = e /\ IsSecureBoot(e)
      BY <1>3
    <3>2. log[k].type # "EV_NO_ACTION" /\ log[k].pcr = 7
      BY <3>1 DEF IsSecureBoot
    <3>3. DigestIn(log[k], bank) = d
      BY <1>2, <2>3, <3>1, <3>2
    <3>4. QED
      BY <3>2, <3>3 DEF MeasuredAs
  <2>4. QED
    BY <2>1, <2>2, <2>3
<1>6. \A e \in SecureBootEvents : e.data \in {SbOn, SbOff}
  BY <1>3 DEF IsSecureBoot
<1>7. /\ "on" \in BoundValues <=> \E e \in SecureBootEvents : e.data = SbOn
      /\ "off" \in BoundValues <=> \E e \in SecureBootEvents : e.data = SbOff
  BY <1>4, <1>6, DataAssumption DEF BoundValues, Enabled
<1>8. QED
  BY <1>4, <1>5, <1>7

\* A host that booted as it should is not denied: on a log as the firmware wrote
\* it, check_secure_boot passes just when the TPM measured one value of the
\* variable, and that it was on if this is required.
THEOREM FaithfulLogsAreJudgedExactly == ReplaySpec => []FaithfulLogIsJudgedExactly
<1>1. ReplayInv /\ LogIsExtended => FaithfulLogIsJudgedExactly
  <2> SUFFICES ASSUME ReplayInv, LogIsExtended, FaithfulLog, tpm[7].ext # <<>>,
                      NEW b \in Banks, <<b, 7>> \in quoted, NEW require \in BOOLEAN
               PROVE  SecureBootPasses(require) <=>
                        /\ ~(Extended(tpm[7], SbOn) /\ Extended(tpm[7], SbOff))
                        /\ require => Extended(tpm[7], SbOn)
    BY DEF FaithfulLogIsJudgedExactly
  <2>1. /\ stage = "done" /\ pcrs[b][7] = tpm[7]
    BY PcrAssumption DEF FaithfulLog
  <2>2. Pcr7Bound
    BY <2>1 DEF Pcr7Bound, Replayed
  <2>3. /\ \A e \in SecureBootEvents : Bound(e)
        /\ Extended(tpm[7], SbOn) <=> "on" \in BoundValues
        /\ Extended(tpm[7], SbOff) <=> "off" \in BoundValues
    BY FaithfulEvents
  <2>4. /\ unbound <=> \E e \in SecureBootEvents : ~Bound(e)
        /\ secureBoot = "none" <=> BoundValues = {}
        /\ secureBoot # "none" => secureBoot \in BoundValues
        /\ conflict <=> \E v \in BoundValues : v # secureBoot
    BY <2>1 DEF ReplayInv, FlagsFollowValues
  <2>5. BoundValues \subseteq {"on", "off"}
    BY DEF BoundValues, Enabled
  <2>6. ~unbound
    BY <2>3, <2>4
  <2>7. conflict <=> "on" \in BoundValues /\ "off" \in BoundValues
    BY <2>4, <2>5
  <2>8. ~conflict => (secureBoot = "on" <=> "on" \in BoundValues)
    BY <2>4, <2>5
  <2>9. QED
    BY <2>1, <2>2, <2>3, <2>6, <2>7, <2>8 DEF SecureBootPasses
<1>2. QED
  BY <1>1, ReplayInvariance, LogInvariance, PTL
===============================================================================
