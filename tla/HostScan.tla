------------------------------- MODULE HostScan -------------------------------
(***************************************************************************)
(* `untrust scan --platform host`: the six HOST-* checks run by ScanRunner *)
(* over one evidence manifest.  Each check loads the manifest again, runs  *)
(* the verifier over it and reports the control it is named for.           *)
(*                                                                         *)
(* An evidence content is what the verifier makes of the files: for each   *)
(* control TRUE (passed), FALSE (failed) or Unassessed, or Unreadable when *)
(* the files cannot be loaded.  HostVerifier models the verifier itself.   *)
(***************************************************************************)
EXTENDS Naturals, Sequences, FiniteSets

CONSTANTS
  Unassessed,       \* a control's passed = None
  Unreadable,       \* load_evidence, load_baseline or the nonce raises
  Contents,         \* contents of the evidence files considered
  MaxReplacements,  \* bound: replacements of the files during a scan
  Modes

VARIABLES mode, usable, input, replaced, pc, selected, findings, exitCode

HostChecks ==
  <<"HOST-CHAIN-01", "HOST-SIG-01", "HOST-NONCE-01",
    "HOST-DEBUG-01", "HOST-TCB-01", "HOST-MEAS-01">>
HostIds == {HostChecks[i] : i \in DOMAIN HostChecks}

\* verify.CONTROLS: what a verdict holds a result for.
Controls == {"chain", "signature", "nonce", "debug", "tcb", "measurement"}

ASSUME ContentsAssumption ==
  \A e \in Contents \ {Unreadable} : e \in [Controls -> {TRUE, FALSE, Unassessed}]
ASSUME UnassessedAssumption == Unassessed \notin BOOLEAN
ASSUME BoundAssumption == MaxReplacements \in Nat
ASSUME ModesAssumption == Modes \subseteq {"scan", "read-only", "demo"}

\* Mutant: HOST-DEBUG-01 is wired to another control.
ControlMiswired ==
  [c \in HostIds |->
     CASE c = "HOST-CHAIN-01" -> "chain"
       [] c = "HOST-SIG-01"   -> "signature"
       [] c = "HOST-NONCE-01" -> "nonce"
       [] c \in {"HOST-DEBUG-01", "HOST-TCB-01"} -> "tcb"
       [] c = "HOST-MEAS-01"  -> "measurement"]

\* The verifier control a check reports.
Control ==
  [c \in HostIds |->
     CASE c = "HOST-CHAIN-01" -> "chain"
       [] c = "HOST-SIG-01"   -> "signature"
       [] c = "HOST-NONCE-01" -> "nonce"
       [] c = "HOST-DEBUG-01" -> "debug"
       [] c = "HOST-TCB-01"   -> "tcb"
       [] c = "HOST-MEAS-01"  -> "measurement"]

\* Every verdict is read from the evidence, so it rests on the signature and
\* the chain; the signature rests on the chain.
Trust == {"HOST-CHAIN-01", "HOST-SIG-01"}
HostDependsOn ==
  [c \in HostIds |->
     CASE c = "HOST-CHAIN-01" -> {}
       [] c = "HOST-SIG-01"   -> {"HOST-CHAIN-01"}
       [] OTHER               -> Trust]
HostTier == [c \in HostIds |-> "report-derived"]

\* HostControlCheck.run: the finding a check makes of what it loads.
ControlStatus(passed) ==
  IF passed = Unassessed THEN "SKIP" ELSE IF passed THEN "PASS" ELSE "FAIL"
HostOutcomes ==
  [c \in HostIds |-> [e \in Contents |->
     {[raised |-> FALSE,
       status |-> IF e = Unreadable THEN "ERROR" ELSE ControlStatus(e[Control[c]]),
       tier   |-> "none"]}]]

\* HostVerdict.allowed: every control positively passed.
Allowed == {e \in Contents \ {Unreadable} : \A k \in Controls : e[k] = TRUE}

Scan == INSTANCE ScanRunner WITH
  Registry <- HostChecks, Tier <- HostTier, DependsOn <- HostDependsOn,
  Intrusive <- {}, Outcomes <- HostOutcomes

Spec == Scan!Spec

-------------------------------------------------------------------------------
\* Properties

\* A reader of the findings lets the host in when all six checks passed and
\* none is marked as resting on unverified evidence.
AllSixPass ==
  \A i \in DOMAIN HostChecks : findings[i].status = "PASS" /\ findings[i].note = {}

Decision ==
  IF pc # "done" THEN "pending"
  ELSE IF usable /\ mode # "demo" /\ exitCode = 0 /\ AllSixPass THEN "allow"
  ELSE "deny"

\* With the files left alone, the six findings together are the gate: they
\* amount to an "allow" only on evidence the verifier itself allows.
Gate == INSTANCE HostGate WITH
  Evidence <- Contents, evidence <- input, decision <- Decision
FindingsImplementGate == Gate!Spec

\* And they do so whenever they should: a scan of allowed evidence that was
\* left alone, and whose report was written, is all passes without a note.
AllowedEvidenceIsReported ==
  pc = "done" /\ replaced = 0 /\ usable /\ mode # "demo" /\ input \in Allowed
    => AllSixPass
===============================================================================
