-------------------------- MODULE HostVerifierProofs --------------------------
(***************************************************************************)
(* Theorems about HostVerifier, for any inputs of the assumed shape: any   *)
(* chain of certificates, any report or quote, any baseline section.       *)
(***************************************************************************)
EXTENDS HostVerifier, FiniteSetTheorems, TLAPS

(***************************************************************************)
(* The inductive invariant: what has been evaluated is a prefix of the     *)
(* controls, each with the outcome of this very input, and none raised; a  *)
(* verdict is that for all controls, or the one of _failed.                *)
(***************************************************************************)
Stages ==
  <<{"chain"}, {"chain", "signature"}, {"chain", "signature", "nonce"},
    {"chain", "signature", "nonce", "debug"}, {"chain", "signature", "nonce", "debug", "tcb"}>>

Chain(in) == VerifyChain(in.certs, Policy(in).trusted_roots_sha256, in.kind = "tpm2")

\* Past ReadPolicy, and past CheckChain.
Readable == input.section # "malformed" /\ ~SwitchesRaise(Policy(input), input.kind)
Chained == input.certs # <<>> /\ Chain(input) # "raise"

Assessed(names) ==
  /\ DOMAIN results = names
  /\ results["chain"] = Chain(input)
  /\ \A c \in names \ {"chain"} :
       results[c] = Evaluate(input, c) /\ results[c] # "raise"

Judged == Readable /\ Chained /\ input.parses /\ Assessed(ControlNames)

IInv ==
  /\ input \in Inputs
  /\ pc \in {"policy", "chain", "parse", "evaluate", "done"}
  /\ pc = "chain" => Readable
  /\ pc = "parse" => Readable /\ Chained /\ Assessed({"chain"})
  /\ pc = "evaluate" => /\ Readable /\ Chained /\ input.parses
                        /\ \E k \in 1..5 : Assessed(Stages[k])
  /\ pc = "done" => results = Failed \/ Judged

LEMMA AllControls == ControlNames = {"chain", "signature", "nonce", "debug", "tcb", "measurement"}
<1>1. DOMAIN Controls = 1..6
  BY DEF Controls
<1>2. ControlNames = {Controls[1], Controls[2], Controls[3], Controls[4], Controls[5], Controls[6]}
  BY <1>1 DEF ControlNames
<1>3. QED
  BY <1>2 DEF Controls

\* After k controls the next one is the (k + 1)st.
LEMMA NextStage ==
  ASSUME NEW k \in 1..5
  PROVE  /\ Cardinality(Stages[k]) = k
         /\ Controls[Cardinality(Stages[k]) + 1] \notin Stages[k]
         /\ Stages[k] # ControlNames
         /\ Stages[k] \cup {Controls[Cardinality(Stages[k]) + 1]} =
              IF k = 5 THEN ControlNames ELSE Stages[k + 1]
         /\ "chain" \in Stages[k]
<1>1. Cardinality({"chain"}) = 1 /\ IsFiniteSet({"chain"})
  BY FS_Singleton
<1>2. Cardinality({"chain", "signature"}) = 2 /\ IsFiniteSet({"chain", "signature"})
  <2>1. {"chain", "signature"} = {"chain"} \cup {"signature"} /\ "signature" \notin {"chain"}
    OBVIOUS
  <2>2. QED
    BY <1>1, <2>1, FS_AddElement
<1>3. /\ Cardinality({"chain", "signature", "nonce"}) = 3
      /\ IsFiniteSet({"chain", "signature", "nonce"})
  <2>1. /\ {"chain", "signature", "nonce"} = {"chain", "signature"} \cup {"nonce"}
        /\ "nonce" \notin {"chain", "signature"}
    OBVIOUS
  <2>2. QED
    BY <1>2, <2>1, FS_AddElement
<1>4. /\ Cardinality({"chain", "signature", "nonce", "debug"}) = 4
      /\ IsFiniteSet({"chain", "signature", "nonce", "debug"})
  <2>1. /\ {"chain", "signature", "nonce", "debug"} = {"chain", "signature", "nonce"} \cup {"debug"}
        /\ "debug" \notin {"chain", "signature", "nonce"}
    OBVIOUS
  <2>2. QED
    BY <1>3, <2>1, FS_AddElement
<1>5. Cardinality({"chain", "signature", "nonce", "debug", "tcb"}) = 5
  <2>1. /\ {"chain", "signature", "nonce", "debug", "tcb"} =
             {"chain", "signature", "nonce", "debug"} \cup {"tcb"}
        /\ "tcb" \notin {"chain", "signature", "nonce", "debug"}
    OBVIOUS
  <2>2. QED
    BY <1>4, <2>1, FS_AddElement
<1>6. Cardinality(Stages[k]) = k
  BY <1>1, <1>2, <1>3, <1>4, <1>5 DEF Stages
<1>7. k = 1 \/ k = 2 \/ k = 3 \/ k = 4 \/ k = 5
  OBVIOUS
<1>8. QED
  BY <1>6, <1>7, AllControls DEF Stages, Controls

-------------------------------------------------------------------------------
LEMMA InitIInv == Init => IInv
  BY DEF Init, IInv

LEMMA NextIInv == IInv /\ [Next]_vars => IInv'
<1> SUFFICES ASSUME IInv, [Next]_vars PROVE IInv'
  OBVIOUS
<1>1. ASSUME Deny, UNCHANGED input PROVE IInv'
  BY <1>1 DEF Deny, IInv, Failed
<1>2. CASE ReadPolicy
  BY <1>1, <1>2 DEF ReadPolicy, IInv, Readable
<1>3. CASE CheckChain
  <2>1. CASE input.certs = <<>> \/ Chain(input) = "raise"
    BY <1>1, <1>3, <2>1 DEF CheckChain, Chain
  <2>2. CASE input.certs # <<>> /\ Chain(input) # "raise"
    <3>1. pc' = "parse" /\ results' = [c \in {"chain"} |-> Chain(input)] /\ input' = input
      BY <1>3, <2>2 DEF CheckChain, Chain
    <3>2. Readable
      BY <1>3 DEF IInv, CheckChain
    <3>3. Assessed({"chain"})'
      BY <3>1 DEF Assessed
    <3>4. QED
      BY <2>2, <3>1, <3>2, <3>3 DEF IInv, Readable, Chained
  <2>3. QED
    BY <2>1, <2>2
<1>4. CASE ParseEvidence
  <2>1. CASE ~input.parses
    BY <1>1, <1>4, <2>1 DEF ParseEvidence
  <2>2. CASE input.parses
    <3>1. pc' = "evaluate" /\ UNCHANGED <<results, input>>
      BY <1>4, <2>2 DEF ParseEvidence
    <3>2. Readable /\ Chained /\ Assessed({"chain"})
      BY <1>4 DEF ParseEvidence, IInv
    <3>3. Assessed(Stages[1])'
      BY <3>1, <3>2 DEF Assessed, Stages
    <3>4. QED
      BY <2>2, <3>1, <3>2, <3>3 DEF IInv, Readable, Chained
  <2>3. QED
    BY <2>1, <2>2
<1>5. CASE EvaluateControl
  <2>1. PICK k \in 1..5 : Assessed(Stages[k])
    BY <1>5 DEF EvaluateControl, IInv
  <2>7. PICK name : name = Controls[Cardinality(DOMAIN results) + 1]
    OBVIOUS
  <2>2. Readable /\ Chained /\ input.parses /\ input \in Inputs
    BY <1>5 DEF EvaluateControl, IInv
  <2>3. DOMAIN results = Stages[k]
    BY <2>1 DEF Assessed
  <2>4. CASE Evaluate(input, name) = "raise"
    BY <1>1, <1>5, <2>4, <2>7 DEF EvaluateControl
  <2>5. CASE Evaluate(input, name) # "raise"
    <3>1. /\ results' = [c \in Stages[k] \cup {name} |->
                           IF c = name THEN Evaluate(input, name) ELSE results[c]]
          /\ pc' = IF DOMAIN results' = ControlNames THEN "done" ELSE "evaluate"
          /\ input' = input
      BY <1>5, <2>3, <2>5, <2>7 DEF EvaluateControl
    <3>2. /\ name \notin Stages[k] /\ Stages[k] # ControlNames /\ "chain" \in Stages[k]
          /\ Stages[k] \cup {name} = IF k = 5 THEN ControlNames ELSE Stages[k + 1]
      BY <2>3, <2>7, NextStage
    <3>3. Assessed(Stages[k] \cup {name})'
      <4>1. DOMAIN results' = Stages[k] \cup {name}
        BY <3>1
      <4>2. results'["chain"] = Chain(input')
        BY <2>1, <3>1, <3>2 DEF Assessed
      <4>3. ASSUME NEW c \in (Stages[k] \cup {name}) \ {"chain"}
            PROVE  results'[c] = Evaluate(input', c) /\ results'[c] # "raise"
        BY <2>1, <2>5, <3>1, <3>2 DEF Assessed
      <4>4. QED
        BY <4>1, <4>2, <4>3 DEF Assessed
    <3>4. Readable' /\ Chained' /\ input'.parses /\ input' \in Inputs
      BY <2>2, <3>1 DEF Readable, Chained
    <3>5. CASE k = 5
      <4>1. Assessed(ControlNames)' /\ pc' = "done"
        BY <3>1, <3>2, <3>3, <3>5 DEF Assessed
      <4>2. QED
        BY <3>4, <4>1 DEF IInv, Judged
    <3>6. CASE k # 5
      <4>1. k + 1 \in 1..5 /\ Assessed(Stages[k + 1])'
        BY <3>2, <3>3, <3>6
      <4>2. Stages[k + 1] # ControlNames
        BY <4>1, NextStage
      <4>3. pc' = "evaluate"
        BY <3>1, <4>1, <4>2 DEF Assessed
      <4>4. QED
        BY <3>4, <4>1, <4>3 DEF IInv
    <3>7. QED
      BY <3>5, <3>6
  <2>6. QED
    BY <2>4, <2>5
<1>6. CASE UNCHANGED vars
  BY <1>6 DEF vars, IInv, Readable, Chained, Assessed, Judged
<1>7. QED
  BY <1>2, <1>3, <1>4, <1>5, <1>6 DEF Next

LEMMA Invariance == Spec => []IInv
  BY InitIInv, NextIInv, PTL DEF Spec

-------------------------------------------------------------------------------
\* Who is let in was judged, by every control, and passed each.
LEMMA AllowedIsJudged ==
  ASSUME IInv, VerdictAllows
  PROVE  /\ Readable /\ input.parses /\ input \in Inputs
         /\ input.certs # <<>> /\ Chain(input) = "pass" /\ Judged
         /\ \A c \in {"signature", "nonce", "debug", "tcb", "measurement"} :
              Evaluate(input, c) = "pass"
<1>1. results["chain"] = "pass" /\ pc = "done"
  BY AllControls DEF VerdictAllows
<1>2. results # Failed
  BY <1>1, AllControls DEF Failed
<1>3. Judged
  BY <1>1, <1>2 DEF IInv
<1>4. QED
  BY <1>1, <1>3, AllControls DEF Judged, Assessed, Chained, VerdictAllows, IInv

LEMMA Sections ==
  /\ SectionKeys("sev-snp") =
       {"allow_debug", "allow_migration_agent", "allow_smt", "require_single_socket",
        "trusted_roots_sha256", "max_vmpl", "min_policy_abi", "min_tcb", "min_guest_svn",
        "measurements", "host_data"}
  /\ SectionKeys("tpm2") =
       {"require_ak_eku", "require_clock_safe", "require_secure_boot",
        "trusted_roots_sha256", "min_firmware_version", "pcrs"}
  BY DEF SectionKeys, Switches

\* What the readers make of a value that is misread.
LEMMA Readers ==
  /\ AsNumber(Absent) = Absent /\ AsList(Absent) = Absent /\ AsObject(Absent) = Absent
  /\ Absent # Junk /\ Absent \notin Mistyped /\ Junk \in Mistyped
  /\ \A x \in Mistyped \ DOMAIN NumberIn : AsNumber(x) = Junk
  /\ \A x \in Mistyped \ DOMAIN MembersOf : AsList(x) = IF x \in Falsy THEN Absent ELSE Junk
  /\ \A x \in Mistyped : AsObject(x) = IF x \in Falsy THEN Absent ELSE Junk
  /\ \A n \in Nat : AsNumber(n) = n
  /\ \A x \in DOMAIN NumberIn : AsNumber(x) \in Nat
BY AbsentAssumption, MistypedAssumption DEF AsNumber, AsList, AsObject, Mistyped

\* A section that is not there pins nothing, and that denies.
LEMMA AllowedHasSection ==
  ASSUME IInv, VerdictAllows
  PROVE  input.section = "object" /\ Policy(input) = input.base
<1>1. input.section \in {"object", "missing"}
  BY AllowedIsJudged, InputsAssumption DEF Readable
<1>2. ASSUME input.section = "missing" PROVE FALSE
  <2>1. input.kind \in {"sev-snp", "tpm2"}
    BY AllowedIsJudged, InputsAssumption
  <2>2. Policy(input) = [key \in SectionKeys(input.kind) |-> Absent]
    BY <1>2, <2>1, EmptyAssumption DEF Policy
  <2>3. Policy(input).trusted_roots_sha256 = Absent
    BY <2>1, <2>2, Sections
  <2>4. Chain(input) # "pass"
    BY <2>3, Readers DEF Chain, VerifyChain, PassIf
  <2>5. QED
    BY <2>4, AllowedIsJudged
<1>3. QED
  BY <1>1, <1>2 DEF Policy

\* Where every control came to an outcome, no key of the section is misread but a
\* false one taken for none: each is looked up by some control, which raises on it.
LEMMA JudgedIsReadable ==
  ASSUME IInv, Judged
  PROVE  ~Unreadable(input)
<1>1. /\ input \in Inputs /\ Readable /\ Chain(input) # "raise"
      /\ \A c \in {"debug", "tcb", "measurement"} : Evaluate(input, c) # "raise"
  BY AllControls DEF Judged, Assessed, Chained, IInv
<1>2. SUFFICES ASSUME input.section = "object",
                      NEW key \in DOMAIN input.base, Misread(key, input.base[key]),
                      ~(key \in OrEmpty /\ input.base[key] \in Falsy)
               PROVE  FALSE
  BY <1>1 DEF Unreadable, Readable
<1> DEFINE x == input.base[key]
<1>3. Policy(input) = input.base /\ ~SwitchesRaise(input.base, input.kind)
  BY <1>1, <1>2 DEF Readable, Policy
<1>4. ASSUME key \notin Versioned
      PROVE  /\ x \in Mistyped
             /\ key \in Numbers => x \notin DOMAIN NumberIn
             /\ key \in Lists => x \notin DOMAIN MembersOf
  BY <1>2, <1>4 DEF Misread
<1>5. key \notin Switches(input.kind)
  <2>1. SUFFICES ASSUME key \in Switches(input.kind) PROVE FALSE
    OBVIOUS
  <2>2. key \notin Versioned
    BY <2>1 DEF Switches, Versioned
  <2>3. QED
    BY <1>3, <1>4, <2>1, <2>2 DEF SwitchesRaise
<1>6. key # "trusted_roots_sha256"
  <2>1. SUFFICES ASSUME key = "trusted_roots_sha256" PROVE FALSE
    OBVIOUS
  <2>2. x \in Mistyped \ DOMAIN MembersOf /\ x \notin Falsy
    BY <1>2, <1>4, <2>1 DEF Versioned, Lists, OrEmpty
  <2>3. AsList(input.base.trusted_roots_sha256) = Junk
    BY <2>1, <2>2, Readers
  <2>4. Chain(input) = "raise"
    BY <1>3, <2>3 DEF Chain, VerifyChain
  <2>5. QED
    BY <1>1, <2>4
<1>7. CASE input.kind = "sev-snp"
  <2>1. key \in {"max_vmpl", "min_policy_abi", "min_tcb", "min_guest_svn", "measurements", "host_data"}
    BY <1>1, <1>2, <1>5, <1>6, <1>7, Sections, InputsAssumption DEF Switches
  <2>2. /\ SnpDebug(input.body, input.base) # "raise"
        /\ SnpTcb(input.body, input.certs[1], input.base) # "raise"
        /\ SnpMeasurement(input.body, input.base) # "raise"
    BY <1>1, <1>3, <1>7 DEF Evaluate, SnpControl
  <2>3. key # "max_vmpl"
    <3>1. SUFFICES ASSUME key = "max_vmpl" PROVE FALSE
      OBVIOUS
    <3>2. AsNumber(input.base.max_vmpl) = Junk
      BY <1>4, <3>1, Readers DEF Versioned, Numbers
    <3>3. QED
      BY <2>2, <3>2 DEF SnpDebug
  <2>4. key # "min_guest_svn"
    <3>1. SUFFICES ASSUME key = "min_guest_svn" PROVE FALSE
      OBVIOUS
    <3>2. AsNumber(input.base.min_guest_svn) = Junk
      BY <1>4, <3>1, Readers DEF Versioned, Numbers
    <3>3. QED
      BY <2>2, <3>2 DEF SnpTcb
  <2>5. key # "min_policy_abi"
    <3>1. SUFFICES ASSUME key = "min_policy_abi" PROVE FALSE
      OBVIOUS
    <3>2. \/ x \in Mistyped
          \/ x \notin Mistyped \cup {Absent} /\ x.version \in Mistyped \ DOMAIN NumberIn
      BY <1>2 DEF Misread
    <3>3. PolicyAbi(input.base) = Junk
      BY <3>1, <3>2, Readers DEF PolicyAbi, VersionIn
    <3>4. QED
      BY <2>2, <3>3 DEF SnpDebug
  <2>6. key # "min_tcb"
    <3>1. SUFFICES ASSUME key = "min_tcb" PROVE FALSE
      OBVIOUS
    <3>2. \/ x \in Mistyped \ Falsy
          \/ x \notin Mistyped \cup {Absent} /\ x.version \in Mistyped \ DOMAIN NumberIn
      BY <1>2, <3>1 DEF Misread, OrEmpty
    <3>3. CASE x \in Mistyped \ Falsy
      <4>1. AsObject(input.base.min_tcb) = Junk
        BY <3>1, <3>3, Readers
      <4>2. QED
        BY <2>2, <4>1 DEF SnpTcb
    <3>4. CASE x \notin Mistyped \cup {Absent} /\ x.version \in Mistyped \ DOMAIN NumberIn
      <4>1. AsObject(input.base.min_tcb) = x /\ x \notin {Absent, Junk}
        BY <3>1, <3>4, Readers DEF AsObject, Mistyped
      <4>2. VersionIn(x) = Junk
        BY <3>4, Readers DEF VersionIn
      <4>3. QED
        BY <2>2, <4>1, <4>2 DEF SnpTcb
    <3>5. QED
      BY <3>2, <3>3, <3>4
  <2>7. key # "measurements"
    <3>1. SUFFICES ASSUME key = "measurements" PROVE FALSE
      OBVIOUS
    <3>2. x \in Mistyped \ DOMAIN MembersOf /\ x \notin Falsy
      BY <1>2, <1>4, <3>1 DEF Versioned, Lists, OrEmpty
    <3>3. AsList(input.base.measurements) = Junk
      BY <3>1, <3>2, Readers
    <3>4. QED
      BY <2>2, <3>3 DEF SnpMeasurement
  <2>8. key # "host_data"
    <3>1. SUFFICES ASSUME key = "host_data" PROVE FALSE
      OBVIOUS
    <3>2. input.base.host_data \in Mistyped
      BY <1>4, <3>1 DEF Versioned
    <3>3. QED
      BY <2>2, <3>2 DEF SnpMeasurement
  <2>9. QED
    BY <2>1, <2>3, <2>4, <2>5, <2>6, <2>7, <2>8
<1>8. CASE input.kind = "tpm2"
  <2>1. key \in {"min_firmware_version", "pcrs"}
    BY <1>1, <1>2, <1>5, <1>6, <1>8, Sections, InputsAssumption DEF Switches
  <2>2. /\ TpmTcb(input.body, input.base) # "raise"
        /\ TpmMeasurement(input.body, input.supplied, input.log, input.base) # "raise"
    BY <1>1, <1>3, <1>8 DEF Evaluate, TpmControl
  <2>3. key # "min_firmware_version"
    <3>1. SUFFICES ASSUME key = "min_firmware_version" PROVE FALSE
      OBVIOUS
    <3>2. AsNumber(input.base.min_firmware_version) = Junk
      BY <1>4, <3>1, Readers DEF Versioned, Numbers
    <3>3. QED
      BY <2>2, <3>2 DEF TpmTcb
  <2>4. key # "pcrs"
    <3>1. SUFFICES ASSUME key = "pcrs" PROVE FALSE
      OBVIOUS
    <3>2. x \in Mistyped \ Falsy
      BY <1>2, <1>4, <3>1 DEF Versioned, OrEmpty
    <3>3. AsObject(input.base.pcrs) = Junk
      BY <3>1, <3>2, Readers
    <3>4. QED
      BY <2>2, <3>3 DEF TpmMeasurement
  <2>5. QED
    BY <2>1, <2>3, <2>4
<1>9. QED
  BY <1>1, <1>7, <1>8, InputsAssumption

\* Who is let in was judged on a baseline none of whose values was misread: a false
\* one that counts as none leaves a control without its pin, and that fails.
LEMMA AllowedIsWellTyped ==
  ASSUME IInv, VerdictAllows
  PROVE  ~Malformed(input)
<1>1. /\ input \in Inputs /\ ~Unreadable(input) /\ input.section = "object"
      /\ Policy(input) = input.base /\ Chain(input) = "pass"
      /\ \A c \in {"tcb", "measurement"} : Evaluate(input, c) = "pass"
  BY AllowedIsJudged, JudgedIsReadable, AllowedHasSection
<1>2. SUFFICES ASSUME NEW key \in DOMAIN input.base, Misread(key, input.base[key])
               PROVE  FALSE
  BY <1>1 DEF Malformed
<1>3. key \in OrEmpty /\ input.base[key] \in Falsy
  BY <1>1, <1>2 DEF Unreadable
<1>4. input.base[key] \in Mistyped /\ (key \in Lists => input.base[key] \notin DOMAIN MembersOf)
  BY <1>2, <1>3 DEF Misread, Mistyped
<1>5. key # "trusted_roots_sha256"
  <2>1. SUFFICES ASSUME key = "trusted_roots_sha256" PROVE FALSE
    OBVIOUS
  <2>2. AsList(input.base.trusted_roots_sha256) = Absent
    BY <1>3, <2>1 DEF AsList
  <2>3. QED
    BY <1>1, <2>2, Readers DEF Chain, VerifyChain, PassIf
<1>6. CASE input.kind = "sev-snp"
  <2>1. /\ SnpTcb(input.body, input.certs[1], input.base) = "pass"
        /\ SnpMeasurement(input.body, input.base) = "pass"
    BY <1>1, <1>6 DEF Evaluate, SnpControl
  <2>2. key # "min_tcb"
    <3>1. SUFFICES ASSUME key = "min_tcb" PROVE FALSE
      OBVIOUS
    <3>2. AsObject(input.base.min_tcb) = Absent
      BY <1>3, <3>1 DEF AsObject
    <3>3. QED
      BY <2>1, <3>2 DEF SnpTcb, PassIf, Given
  <2>3. key # "measurements"
    <3>1. SUFFICES ASSUME key = "measurements" PROVE FALSE
      OBVIOUS
    <3>2. AsList(input.base.measurements) = Absent
      BY <1>3, <3>1 DEF AsList
    <3>3. QED
      BY <2>1, <3>2 DEF SnpMeasurement, PassIf, Given
  <2>4. key # "pcrs"
    BY <1>1, <1>6, Sections, InputsAssumption
  <2>5. QED
    BY <1>3, <1>5, <2>2, <2>3, <2>4 DEF OrEmpty, Lists
<1>7. CASE input.kind = "tpm2"
  <2>1. TpmMeasurement(input.body, input.supplied, input.log, input.base) = "pass"
    BY <1>1, <1>7 DEF Evaluate, TpmControl
  <2>2. key \notin {"min_tcb", "measurements"}
    BY <1>1, <1>7, Sections, InputsAssumption
  <2>3. key # "pcrs"
    <3>1. SUFFICES ASSUME key = "pcrs" PROVE FALSE
      OBVIOUS
    <3>2. AsObject(input.base.pcrs) = Absent
      BY <1>3, <3>1 DEF AsObject
    <3>3. QED
      BY <2>1, <3>2 DEF TpmMeasurement, PassIf, Given
  <2>4. QED
    BY <1>3, <1>5, <2>2, <2>3 DEF OrEmpty, Lists
<1>8. QED
  BY <1>1, <1>6, <1>7, InputsAssumption

\* No baseline lets a host in by a value that is misread: not by a switch of the
\* wrong type, nor by a pin that is no number, list or object and is not taken for one.
THEOREM MalformedDenies == Spec => []MalformedBaselineDenies
<1>1. IInv => MalformedBaselineDenies
  BY AllowedIsWellTyped DEF MalformedBaselineDenies
<1>2. QED
  BY <1>1, Invariance, PTL

\* When the evidence did not parse or the baseline could not be read, no control of
\* the verdict passes, those evaluated before the failure included.
THEOREM NoHalfVerdict == Spec => []HalfAVerdictPassesNothing
<1>1. IInv => HalfAVerdictPassesNothing
  <2>1. SUFFICES ASSUME IInv, pc = "done", ~input.parses \/ Unreadable(input)
                 PROVE  \A c \in ControlNames : results[c] # "pass"
    BY DEF HalfAVerdictPassesNothing
  <2>2. ~Judged
    BY <2>1, JudgedIsReadable DEF Judged
  <2>3. results = Failed
    BY <2>1, <2>2 DEF IInv
  <2>4. QED
    BY <2>3 DEF Failed
<1>2. QED
  BY <1>1, Invariance, PTL

-------------------------------------------------------------------------------
\* Who is let in sent the caller's nonce back.
LEMMA AllowedIsFresh ==
  ASSUME IInv, VerdictAllows
  PROVE  Fresh(input)
<1>1. input.kind \in {"sev-snp", "tpm2"}
  BY AllowedIsJudged, InputsAssumption
<1>2. NonceControl(input.body.nonce, input.nonce) = "pass"
  BY <1>1, AllowedIsJudged DEF Evaluate, SnpControl, TpmControl
<1>3. QED
  BY <1>2 DEF NonceControl, PassIf, Fresh

\* The body is signed by the key of the leaf, and on a TPM that key is one for
\* attestations unless the baseline does not ask.
LEMMA AllowedIsSigned ==
  ASSUME IInv, VerdictAllows
  PROVE  /\ input.body.by = input.certs[1].key
         /\ input.kind = "tpm2" /\ Flag(Policy(input), "require_ak_eku") => input.certs[1].eku
<1>1. input.kind \in {"sev-snp", "tpm2"}
  BY AllowedIsJudged, InputsAssumption
<1>2. CASE input.kind = "sev-snp"
  <2>1. SnpSignature(input.body, input.certs[1]) = "pass"
    BY <1>2, AllowedIsJudged DEF Evaluate, SnpControl
  <2>2. QED
    BY <1>2, <2>1 DEF SnpSignature, PassIf
<1>3. CASE input.kind = "tpm2"
  <2>1. TpmSignature(input.body, input.certs[1], Policy(input)) = "pass"
    BY <1>3, AllowedIsJudged DEF Evaluate, TpmControl
  <2>2. QED
    BY <1>3, <2>1 DEF TpmSignature, PassIf
<1>4. QED
  BY <1>1, <1>2, <1>3

\* An SNP guest that is let in is as the operator pinned it.
LEMMA AllowedGuest ==
  ASSUME IInv, VerdictAllows, input.kind = "sev-snp"
  PROVE  GoodGuest(input)
<1> DEFINE base == input.base
           r == input.body
<1>1. input \in Inputs /\ Policy(input) = base
  BY AllowedIsJudged, AllowedHasSection
<1>2. /\ base.allow_debug \in BOOLEAN \cup {Absent} \cup Mistyped
      /\ base.allow_migration_agent \in BOOLEAN \cup {Absent} \cup Mistyped
      /\ base.min_tcb \in {Absent} \cup Mistyped \cup [version : Nat \cup {Absent} \cup Mistyped]
      /\ r.tcb \in Nat
  BY <1>1, InputsAssumption DEF Switches, Floor, Version
<1>3. ~Malformed(input)
  BY AllowedIsWellTyped
<1>4. base.allow_debug \notin Mistyped /\ base.allow_migration_agent \notin Mistyped
  BY <1>1, AllowedIsJudged DEF Readable, SwitchesRaise, Switches
<1>5. SnpDebug(r, base) = "pass" /\ SnpTcb(r, input.certs[1], base) = "pass"
      /\ SnpMeasurement(r, base) = "pass"
  BY <1>1, AllowedIsJudged DEF Evaluate, SnpControl
<1>6. (r.debug => base.allow_debug = TRUE) /\ (r.migrate => base.allow_migration_agent = TRUE)
  <2>1. /\ r.debug => Flag(base, "allow_debug")
        /\ r.migrate => Flag(base, "allow_migration_agent")
    BY <1>5 DEF SnpDebug, PassIf
  <2>2. Flag(base, "allow_debug") = IF base.allow_debug = Absent THEN FALSE ELSE base.allow_debug
    BY DEF Flag, Defaults
  <2>3. Flag(base, "allow_migration_agent") =
          IF base.allow_migration_agent = Absent THEN FALSE ELSE base.allow_migration_agent
    BY DEF Flag, Defaults
  <2>4. QED
    BY <1>2, <1>4, <2>1, <2>2, <2>3
<1>7. /\ base.min_tcb # Absent
      /\ base.min_tcb.version # Absent => r.tcb >= AsNumber(base.min_tcb.version)
  <2>1. ~Misread("min_tcb", base.min_tcb)
    BY <1>1, <1>3, AllowedHasSection, InputsAssumption, Sections DEF Malformed
  <2>2. base.min_tcb \notin Mistyped
    BY <2>1 DEF Misread, Numbers, Lists
  <2>3. AsObject(base.min_tcb) = base.min_tcb
    BY <2>2 DEF AsObject, Mistyped
  <2>4. base.min_tcb # Absent
    BY <1>5, <2>3 DEF SnpTcb, PassIf, Given
  <2>5. /\ base.min_tcb.version \in Nat \cup {Absent} \cup Mistyped
        /\ base.min_tcb.version \notin Mistyped \ DOMAIN NumberIn
    BY <1>2, <2>1, <2>2, <2>4 DEF Misread, Versioned
  <2>6. ~Below(r.tcb, AsNumber(base.min_tcb.version))
    BY <1>5, <2>2, <2>3, <2>4 DEF SnpTcb, PassIf, VersionIn, Mistyped
  <2>7. ASSUME base.min_tcb.version # Absent PROVE r.tcb >= AsNumber(base.min_tcb.version)
    <3>1. AsNumber(base.min_tcb.version) \in Nat
      BY <2>5, <2>7, Readers
    <3>2. ~(r.tcb < AsNumber(base.min_tcb.version))
      BY <2>6, <3>1, AbsentAssumption DEF Below, Given
    <3>3. QED
      BY <1>2, <3>1, <3>2
  <2>8. QED
    BY <2>4, <2>7
<1>8. base.measurements # Absent /\ r.measurement \in AsList(base.measurements)
  BY <1>5, Readers DEF SnpMeasurement, PassIf, Given
<1>9. QED
  BY <1>1, <1>6, <1>7, <1>8 DEF GoodGuest

\* What the registers of a TPM that is let in held is what the operator pinned,
\* and the log agrees with PCR 7.
LEMMA AllowedBoot ==
  ASSUME IInv, VerdictAllows, input.kind = "tpm2"
  PROVE  GoodBoot(input)
<1> DEFINE base == input.base
           q == input.body
<1>1. input \in Inputs /\ Policy(input) = base
  BY AllowedIsJudged, AllowedHasSection
<1>2. /\ base.require_secure_boot \in BOOLEAN \cup {Absent} \cup Mistyped
      /\ base.min_firmware_version \in {Absent} \cup Mistyped \cup Nat
      /\ q.firmware \in Nat
  BY <1>1, InputsAssumption DEF Switches, Floor, Version
<1>3. ~Malformed(input)
  BY AllowedIsWellTyped
<1>4. base.require_secure_boot \notin Mistyped
  BY <1>1, AllowedIsJudged DEF Readable, SwitchesRaise, Switches
<1>5. /\ TpmTcb(q, base) = "pass"
      /\ SecureBoot(q, input.supplied, input.log, base) = "pass"
      /\ TpmMeasurement(q, input.supplied, input.log, base) = "pass"
  BY <1>1, AllowedIsJudged DEF Evaluate, TpmControl
<1>6. base.min_firmware_version # Absent /\ q.firmware >= AsNumber(base.min_firmware_version)
  <2>1. ~Misread("min_firmware_version", base.min_firmware_version)
    BY <1>1, <1>3, AllowedHasSection, InputsAssumption, Sections DEF Malformed
  <2>2. /\ Given(AsNumber(base.min_firmware_version))
        /\ ~Below(q.firmware, AsNumber(base.min_firmware_version))
    BY <1>5 DEF TpmTcb, PassIf
  <2>3. base.min_firmware_version # Absent
    BY <2>2, Readers DEF Given
  <2>4. AsNumber(base.min_firmware_version) \in Nat
    BY <1>2, <2>1, <2>3, Readers DEF Misread, Lists
  <2>5. QED
    BY <1>2, <2>2, <2>3, <2>4 DEF Below
<1>7. /\ Binds(q, input.supplied) /\ base.pcrs # Absent
      /\ \A p \in DOMAIN base.pcrs : p \in q.covers /\ input.supplied[p] = base.pcrs[p]
  <2>1. ~Misread("pcrs", base.pcrs)
    BY <1>1, <1>3, AllowedHasSection, InputsAssumption, Sections DEF Malformed
  <2>2. base.pcrs \notin Mistyped
    BY <2>1 DEF Misread, Numbers, Lists
  <2>3. AsObject(base.pcrs) = base.pcrs
    BY <2>2 DEF AsObject, Mistyped
  <2>4. QED
    BY <1>5, <2>3 DEF TpmMeasurement, PassIf, Given
<1>8. \A p \in q.covers : input.supplied[p] = q.values[p]
  BY <1>7 DEF Binds
<1>9. /\ input.log # Absent /\ 7 \in q.covers
      /\ 7 \in DOMAIN input.log.replayed /\ input.log.replayed[7] = input.supplied[7]
      /\ Flag(base, "require_secure_boot") => input.log.secureBoot = "on"
  BY <1>5 DEF SecureBoot, PassIf
<1>10. base.require_secure_boot # FALSE => Flag(base, "require_secure_boot")
  <2>1. Flag(base, "require_secure_boot") =
          IF base.require_secure_boot = Absent THEN TRUE ELSE base.require_secure_boot
    BY DEF Flag, Defaults
  <2>2. QED
    BY <1>2, <1>4, <2>1
<1>11. QED
  BY <1>1, <1>6, <1>7, <1>8, <1>9, <1>10 DEF GoodBoot

\* If pinned roots vouch for what is under them, who is let in is trustworthy.
LEMMA AllowedIsTrustworthy ==
  ASSUME RootsVouch, IInv, VerdictAllows
  PROVE  Trustworthy(input)
<1>1. input.section = "object" /\ ~Malformed(input)
  BY AllowedHasSection, AllowedIsWellTyped
<1>2. /\ input \in Inputs /\ input.kind \in {"sev-snp", "tpm2"}
      /\ VerifyChain(input.certs, Policy(input).trusted_roots_sha256, input.kind = "tpm2") = "pass"
  BY AllowedIsJudged, InputsAssumption DEF Chain
<1>3. /\ input.body.by = input.certs[1].key
      /\ input.kind = "tpm2" /\ Flag(Policy(input), "require_ak_eku") => input.certs[1].eku
  BY AllowedIsSigned
<1>4. /\ input.body.by \in Certified
      /\ input.kind = "sev-snp" \/ input.certs[1].eku => input.body.by \in Attesting
  <2>1. UpToPinnedRoot(input)
    BY <1>2 DEF VerifyChain, PassIf, UpToPinnedRoot, Chain
  <2>2. QED
    BY <1>2, <1>3, <2>1 DEF RootsVouch
<1>5. GenuineSigner(input)
  BY <1>2, <1>3, <1>4 DEF GenuineSigner
<1>6. IF input.kind = "sev-snp" THEN GoodGuest(input) ELSE GoodBoot(input)
  BY <1>2, AllowedGuest, AllowedBoot
<1>7. QED
  BY <1>1, <1>5, <1>6, AllowedIsFresh DEF Trustworthy

\* verify() is pending until its last step, which is a decision of the gate.
LEMMA StepSimulation ==
  ASSUME RootsVouch, IInv, IInv', [Next]_vars
  PROVE  [Gate!Next]_(Gate!vars)
<1>1. input' = input /\ (Next => pc # "done")
  BY DEF Next, ReadPolicy, CheckChain, ParseEvidence, EvaluateControl, vars
<1>2. CASE UNCHANGED vars
  BY <1>2 DEF vars, Gate!vars, VerdictAllows
<1>3. CASE Next /\ pc' # "done"
  BY <1>1, <1>3 DEF Gate!vars
<1>4. CASE Next /\ pc' = "done" /\ ~VerdictAllows'
  BY <1>1, <1>4 DEF Gate!Next, Gate!Deny
<1>5. CASE Next /\ pc' = "done" /\ VerdictAllows'
  <2>1. Trustworthy(input)'
    BY <1>5, AllowedIsTrustworthy, PTL
  <2>2. QED
    BY <1>1, <1>5, <2>1 DEF Gate!Next, Gate!Allow
<1>6. QED
  BY <1>2, <1>3, <1>4, <1>5

\* The safety half of ImplementsGate: whatever chain, evidence, log and baseline
\* are supplied, verify() lets a host in only if its evidence is trustworthy.
THEOREM FailsClosed ==
  ASSUME RootsVouch
  PROVE  Spec => Gate!Init /\ [][Gate!Next]_(Gate!vars)
<1>1. Init => Gate!Init
  <2>1. Trustworthy(input) \in BOOLEAN
    BY DEF Trustworthy
  <2>2. QED
    BY <2>1 DEF Init, Gate!Init
<1>2. IInv /\ IInv' /\ [Next]_vars => [Gate!Next]_(Gate!vars)
  BY StepSimulation
<1>3. QED
  BY <1>1, <1>2, Invariance, PTL DEF Spec

-------------------------------------------------------------------------------
\* Good hosts

\* Nothing denies a good input on the way.
NotDenied == pc = "done" /\ Good(input) => results # Failed

LEMMA InitNotDenied == Init => NotDenied
  BY DEF Init, NotDenied

LEMMA NextNotDenied == IInv /\ NotDenied /\ [Next]_vars => NotDenied'
<1> SUFFICES ASSUME IInv, NotDenied, [Next]_vars, pc' = "done", Good(input)'
             PROVE  results' # Failed
  BY DEF NotDenied
<1>1. Good(input) /\ input' = input
  BY DEF Next, ReadPolicy, CheckChain, ParseEvidence, EvaluateControl, vars
<1>2. Policy(input) = input.base
  BY <1>1 DEF Policy, Good
<1>3. CASE ReadPolicy
  BY <1>1, <1>2, <1>3 DEF ReadPolicy, Good
<1>4. CASE CheckChain
  BY <1>1, <1>2, <1>4 DEF CheckChain, Good
<1>5. CASE ParseEvidence
  BY <1>1, <1>5 DEF ParseEvidence, Good
<1>6. CASE EvaluateControl
  <2>1. PICK k \in 1..5 : Assessed(Stages[k])
    BY <1>6 DEF EvaluateControl, IInv
  <2>2. PICK name : name = Controls[Cardinality(DOMAIN results) + 1]
    OBVIOUS
  <2>3. DOMAIN results = Stages[k] /\ results["chain"] = Chain(input)
    BY <2>1 DEF Assessed
  <2>4. /\ name \notin Stages[k] /\ "chain" \in Stages[k]
        /\ Stages[k] \cup {name} = IF k = 5 THEN ControlNames ELSE Stages[k + 1]
    BY <2>2, <2>3, NextStage
  <2>5. Stages[k] \cup {name} \subseteq ControlNames
    BY <2>4, AllControls DEF Stages
  <2>6. name \in ControlNames \ {"chain"}
    BY <2>4, <2>5
  <2>7. Evaluate(input, name) = "pass"
    BY <1>1, <2>6 DEF Good
  <2>8. results'["chain"] = Chain(input)
    BY <1>6, <2>2, <2>3, <2>4, <2>7 DEF EvaluateControl
  <2>9. Chain(input) = "pass"
    BY <1>1, <1>2 DEF Good, Chain
  <2>10. Failed["chain"] = "fail"
    BY AllControls DEF Failed
  <2>11. QED
    BY <2>8, <2>9, <2>10
<1>7. CASE UNCHANGED vars
  BY <1>1, <1>7 DEF vars, NotDenied
<1>8. QED
  BY <1>3, <1>4, <1>5, <1>6, <1>7 DEF Next

\* A good input is allowed: the converse of AllowedIsJudged.
LEMMA GoodIsAllowed ==
  ASSUME IInv, NotDenied, pc = "done", Good(input)
  PROVE  VerdictAllows
<1>1. Judged
  BY DEF IInv, NotDenied
<1>2. Policy(input) = input.base
  BY DEF Policy, Good
<1>3. results["chain"] = "pass"
  BY <1>1, <1>2 DEF Judged, Assessed, Good, Chain
<1>4. \A c \in ControlNames \ {"chain"} : results[c] = "pass"
  BY <1>1 DEF Judged, Assessed, Good
<1>5. QED
  BY <1>3, <1>4 DEF VerdictAllows

\* Left out, a switch is no stricter than it was.
LEMMA LooseFlags ==
  ASSUME NEW in, NEW good, LeavesOut(in, good)
  PROVE  /\ good.kind = "sev-snp" =>
              /\ Flag(in.base, "allow_debug") = Flag(good.base, "allow_debug")
              /\ Flag(in.base, "allow_migration_agent") = Flag(good.base, "allow_migration_agent")
              /\ Flag(good.base, "allow_smt") => Flag(in.base, "allow_smt")
              /\ Flag(in.base, "require_single_socket") => Flag(good.base, "require_single_socket")
         /\ good.kind = "tpm2" =>
              /\ Flag(in.base, "require_ak_eku") = Flag(good.base, "require_ak_eku")
              /\ Flag(in.base, "require_clock_safe") => Flag(good.base, "require_clock_safe")
              /\ Flag(in.base, "require_secure_boot") = Flag(good.base, "require_secure_boot")
<1>1. \A key \in SectionKeys(good.kind) :
        \/ in.base[key] = good.base[key]
        \/ in.base[key] = Absent /\ (key \in StrictByDefault => good.base[key] = Defaults[key])
  BY DEF LeavesOut
<1>2. ASSUME NEW key \in SectionKeys(good.kind) \cap StrictByDefault
      PROVE  Flag(in.base, key) = Flag(good.base, key)
  BY <1>1 DEF Flag
<1>3. ASSUME NEW key \in SectionKeys(good.kind)
      PROVE  Flag(in.base, key) = Flag(good.base, key) \/ Flag(in.base, key) = Defaults[key]
  BY <1>1 DEF Flag
<1>4. /\ Defaults["allow_smt"] = TRUE /\ Defaults["require_single_socket"] = FALSE
      /\ Defaults["require_clock_safe"] = FALSE
  BY DEF Defaults
<1>5. ASSUME good.kind = "sev-snp"
      PROVE  /\ Flag(in.base, "allow_debug") = Flag(good.base, "allow_debug")
             /\ Flag(in.base, "allow_migration_agent") = Flag(good.base, "allow_migration_agent")
             /\ Flag(good.base, "allow_smt") => Flag(in.base, "allow_smt")
             /\ Flag(in.base, "require_single_socket") => Flag(good.base, "require_single_socket")
  <2>1. /\ {"allow_debug", "allow_migration_agent"} \subseteq SectionKeys(good.kind) \cap StrictByDefault
        /\ {"allow_smt", "require_single_socket"} \subseteq SectionKeys(good.kind)
    BY <1>5, Sections DEF StrictByDefault
  <2>2. /\ Flag(in.base, "allow_debug") = Flag(good.base, "allow_debug")
        /\ Flag(in.base, "allow_migration_agent") = Flag(good.base, "allow_migration_agent")
    BY <1>2, <2>1
  <2>3. /\ Flag(in.base, "allow_smt") = Flag(good.base, "allow_smt") \/ Flag(in.base, "allow_smt") = TRUE
        /\ \/ Flag(in.base, "require_single_socket") = Flag(good.base, "require_single_socket")
           \/ Flag(in.base, "require_single_socket") = FALSE
    BY <1>3, <1>4, <2>1
  <2>4. QED
    BY <2>2, <2>3
<1>6. ASSUME good.kind = "tpm2"
      PROVE  /\ Flag(in.base, "require_ak_eku") = Flag(good.base, "require_ak_eku")
             /\ Flag(in.base, "require_clock_safe") => Flag(good.base, "require_clock_safe")
             /\ Flag(in.base, "require_secure_boot") = Flag(good.base, "require_secure_boot")
  <2>1. /\ {"require_ak_eku", "require_secure_boot"} \subseteq SectionKeys(good.kind) \cap StrictByDefault
        /\ "require_clock_safe" \in SectionKeys(good.kind)
    BY <1>6, Sections DEF StrictByDefault
  <2>2. /\ Flag(in.base, "require_ak_eku") = Flag(good.base, "require_ak_eku")
        /\ Flag(in.base, "require_secure_boot") = Flag(good.base, "require_secure_boot")
    BY <1>2, <2>1
  <2>3. \/ Flag(in.base, "require_clock_safe") = Flag(good.base, "require_clock_safe")
        \/ Flag(in.base, "require_clock_safe") = FALSE
    BY <1>3, <1>4, <2>1
  <2>4. QED
    BY <2>2, <2>3
<1>7. QED
  BY <1>5, <1>6

\* Leaving out what may be left out keeps every control passing: of a report ...
LEMMA LooseReport ==
  ASSUME NEW in, NEW good, LeavesOut(in, good), good.kind = "sev-snp",
         NEW c \in {"signature", "nonce", "debug", "tcb", "measurement"},
         SnpControl(c, good.body, good.certs[1], good.base, good.nonce) = "pass"
  PROVE  SnpControl(c, in.body, in.certs[1], in.base, in.nonce) = "pass"
<1> DEFINE r == good.body
           base == good.base
           left == in.base
<1>1. in.body = r /\ in.certs = good.certs /\ in.nonce = good.nonce
  BY DEF LeavesOut
<1>2. \A key \in SectionKeys("sev-snp") :
        left[key] = base[key] \/ (left[key] = Absent /\ key \notin Required)
  BY DEF LeavesOut
<1>3. /\ left.min_tcb = base.min_tcb /\ left.measurements = base.measurements
      /\ left.max_vmpl = base.max_vmpl \/ left.max_vmpl = Absent
      /\ left.min_policy_abi = base.min_policy_abi \/ left.min_policy_abi = Absent
      /\ left.min_guest_svn = base.min_guest_svn \/ left.min_guest_svn = Absent
      /\ left.host_data = base.host_data \/ left.host_data = Absent
  BY <1>2, Sections DEF Required
<1>4. /\ Absent # Junk /\ Absent \notin Mistyped /\ AsNumber(Absent) = Absent
      /\ PolicyAbi(left) = PolicyAbi(base) \/ PolicyAbi(left) = Absent
  BY <1>3, Readers DEF PolicyAbi
<1>5. CASE c \in {"signature", "nonce"}
  BY <1>1, <1>5 DEF SnpControl
<1>6. CASE c = "debug"
  <2>1. SnpDebug(r, base) = "pass"
    BY <1>6 DEF SnpControl
  <2>2. /\ Junk \notin {AsNumber(base.max_vmpl), PolicyAbi(base)}
        /\ r.debug => Flag(base, "allow_debug")
        /\ r.migrate => Flag(base, "allow_migration_agent")
        /\ ~Above(r.vmpl, AsNumber(base.max_vmpl)) /\ ~Below(r.abi, PolicyAbi(base))
        /\ r.smt => Flag(base, "allow_smt")
        /\ Flag(base, "require_single_socket") => r.single
    BY <2>1 DEF SnpDebug, PassIf
  <2>3. /\ Junk \notin {AsNumber(left.max_vmpl), PolicyAbi(left)}
        /\ ~Above(r.vmpl, AsNumber(left.max_vmpl)) /\ ~Below(r.abi, PolicyAbi(left))
    BY <1>3, <1>4, <2>2 DEF Above, Below, Given
  <2>4. /\ r.debug => Flag(left, "allow_debug")
        /\ r.migrate => Flag(left, "allow_migration_agent")
        /\ r.smt => Flag(left, "allow_smt")
        /\ Flag(left, "require_single_socket") => r.single
    BY <2>2, LooseFlags
  <2>5. SnpDebug(r, left) = "pass"
    BY <2>3, <2>4 DEF SnpDebug, PassIf
  <2>6. QED
    BY <1>1, <1>6, <2>5 DEF SnpControl
<1>7. CASE c = "tcb"
  <2>1. SnpTcb(r, good.certs[1], base) = "pass"
    BY <1>7 DEF SnpControl
  <2>2. SnpTcb(r, good.certs[1], left) = "pass"
    BY <1>3, <1>4, <2>1 DEF SnpTcb, PassIf, Below, Given
  <2>3. QED
    BY <1>1, <1>7, <2>2 DEF SnpControl
<1>8. CASE c = "measurement"
  <2>1. SnpMeasurement(r, base) = "pass"
    BY <1>8 DEF SnpControl
  <2>2. SnpMeasurement(r, left) = "pass"
    BY <1>3, <1>4, <2>1 DEF SnpMeasurement, PassIf, Given
  <2>3. QED
    BY <1>1, <1>8, <2>2 DEF SnpControl
<1>9. QED
  BY <1>5, <1>6, <1>7, <1>8

\* ... and of a quote.
LEMMA LooseQuote ==
  ASSUME NEW in, NEW good, LeavesOut(in, good), good.kind = "tpm2",
         NEW c \in {"signature", "nonce", "debug", "tcb", "measurement"},
         TpmControl(c, good.body, good.supplied, good.log, good.certs[1], good.base, good.nonce)
           = "pass"
  PROVE  TpmControl(c, in.body, in.supplied, in.log, in.certs[1], in.base, in.nonce) = "pass"
<1> DEFINE q == good.body
           base == good.base
           left == in.base
<1>1. /\ in.body = q /\ in.certs = good.certs /\ in.nonce = good.nonce
      /\ in.supplied = good.supplied /\ in.log = good.log
  BY DEF LeavesOut
<1>2. \A key \in SectionKeys("tpm2") :
        left[key] = base[key] \/ (left[key] = Absent /\ key \notin Required)
  BY DEF LeavesOut
<1>3. left.min_firmware_version = base.min_firmware_version /\ left.pcrs = base.pcrs
  BY <1>2, Sections DEF Required
<1>4. /\ Flag(left, "require_ak_eku") = Flag(base, "require_ak_eku")
      /\ Flag(left, "require_clock_safe") => Flag(base, "require_clock_safe")
      /\ Flag(left, "require_secure_boot") = Flag(base, "require_secure_boot")
  BY LooseFlags
<1>5. CASE c = "signature"
  BY <1>1, <1>4, <1>5 DEF TpmControl, TpmSignature
<1>6. CASE c = "nonce"
  BY <1>1, <1>6 DEF TpmControl
<1>7. CASE c = "debug"
  BY <1>1, <1>4, <1>7 DEF TpmControl, SecureBoot
<1>8. CASE c = "tcb"
  <2>1. TpmTcb(q, base) = "pass"
    BY <1>8 DEF TpmControl
  <2>2. TpmTcb(q, left) = "pass"
    BY <1>3, <1>4, <2>1 DEF TpmTcb, PassIf
  <2>3. QED
    BY <1>1, <1>8, <2>2 DEF TpmControl
<1>9. CASE c = "measurement"
  BY <1>1, <1>3, <1>9 DEF TpmControl, TpmMeasurement
<1>10. QED
  BY <1>5, <1>6, <1>7, <1>8, <1>9

LEMMA GoodWithoutKeys ==
  ASSUME NEW in \in Inputs, NEW good \in Inputs, Good(good), LeavesOut(in, good)
  PROVE  Good(in)
<1>1. /\ in.kind = good.kind /\ in.section = "object" /\ in.certs = good.certs
      /\ in.certs # <<>> /\ in.parses /\ good.kind \in {"sev-snp", "tpm2"}
  BY InputsAssumption DEF LeavesOut, Good
<1>2. Policy(in) = in.base /\ Policy(good) = good.base
  BY <1>1 DEF Policy, Good
<1>3. \A key \in SectionKeys(good.kind) :
        in.base[key] = good.base[key] \/ (in.base[key] = Absent /\ key \notin Required)
  BY DEF LeavesOut
<1>4. ~SwitchesRaise(in.base, in.kind)
  <2>1. \A key \in Switches(good.kind) :
          key \in SectionKeys(good.kind) /\ good.base[key] \notin Mistyped
    BY DEF SectionKeys, Good, SwitchesRaise
  <2>2. QED
    BY <1>1, <1>3, <2>1, AbsentAssumption DEF SwitchesRaise
<1>5. in.base.trusted_roots_sha256 = good.base.trusted_roots_sha256
  BY <1>3 DEF SectionKeys, Required
<1>6. VerifyChain(in.certs, in.base.trusted_roots_sha256, in.kind = "tpm2") = "pass"
  BY <1>1, <1>5 DEF Good
<1>7. ASSUME NEW c \in ControlNames \ {"chain"} PROVE Evaluate(in, c) = "pass"
  <2>1. Evaluate(good, c) = "pass" /\ c \in {"signature", "nonce", "debug", "tcb", "measurement"}
    BY AllControls DEF Good
  <2>2. CASE good.kind = "sev-snp"
    <3>1. SnpControl(c, good.body, good.certs[1], good.base, good.nonce) = "pass"
      BY <1>2, <2>1, <2>2 DEF Evaluate
    <3>2. SnpControl(c, in.body, in.certs[1], in.base, in.nonce) = "pass"
      BY <2>1, <2>2, <3>1, LooseReport
    <3>3. QED
      BY <1>1, <1>2, <2>2, <3>2 DEF Evaluate
  <2>3. CASE good.kind = "tpm2"
    <3>1. TpmControl(c, good.body, good.supplied, good.log, good.certs[1], good.base, good.nonce)
            = "pass"
      BY <1>2, <2>1, <2>3 DEF Evaluate
    <3>2. TpmControl(c, in.body, in.supplied, in.log, in.certs[1], in.base, in.nonce) = "pass"
      BY <2>1, <2>3, <3>1, LooseQuote
    <3>3. QED
      BY <1>1, <1>2, <2>3, <3>2 DEF Evaluate
  <2>4. QED
    BY <1>1, <2>2, <2>3
<1>8. QED
  BY <1>1, <1>4, <1>6, <1>7 DEF Good

\* A host on which every control passes is let in, whatever optional pins and
\* default switches the operator leaves out of its baseline.
THEOREM GoodHostsAreAllowed ==
  ASSUME GoodHostsPass
  PROVE  Spec => []GoodHostIsAllowed
<1>1. ASSUME IInv, NotDenied PROVE GoodHostIsAllowed
  <2> SUFFICES ASSUME pc = "done", NEW good \in GoodHosts, LeavesOut(input, good)
               PROVE  VerdictAllows
    BY DEF GoodHostIsAllowed
  <2>1. good \in Inputs /\ Good(good) /\ input \in Inputs
    BY <1>1 DEF GoodHostsPass, IInv
  <2>2. Good(input)
    BY <2>1, GoodWithoutKeys
  <2>3. QED
    BY <1>1, <2>2, GoodIsAllowed
<1>2. QED
  BY <1>1, InitNotDenied, NextNotDenied, Invariance, PTL DEF Spec

===============================================================================
