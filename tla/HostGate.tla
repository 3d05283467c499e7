------------------------------- MODULE HostGate -------------------------------
(***************************************************************************)
(* What a relying party is promised of host attestation: one decision,     *)
(* taken on one piece of evidence, that lets the host in only if that      *)
(* evidence is allowed.  Both the library call verify() and a scan of the  *)
(* host platform are meant to be this gate.                                *)
(***************************************************************************)
CONSTANTS
  Evidence,  \* the evidence a host may hand over
  Allowed    \* the evidence every control positively passes on

VARIABLES evidence, decision

vars == <<evidence, decision>>

Init ==
  /\ evidence \in Evidence
  /\ decision = "pending"

\* The gate may deny for its own reasons, never allow for them.
Deny ==
  /\ decision = "pending"
  /\ decision' = "deny"
  /\ UNCHANGED evidence

Allow ==
  /\ decision = "pending"
  /\ evidence \in Allowed
  /\ decision' = "allow"
  /\ UNCHANGED evidence

Next == Deny \/ Allow

\* The gate does decide.
Spec == Init /\ [][Next]_vars /\ WF_vars(Next)

===============================================================================
