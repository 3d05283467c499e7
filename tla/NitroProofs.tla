----------------------------- MODULE NitroProofs -----------------------------
(***************************************************************************)
(* Theorems about the Nitro checks that act on the audited system: the SSM *)
(* shell checks of SsmSession, for any sequence of checks, however SSM     *)
(* answers and whatever changes on the host, and the canaries of           *)
(* S3CanaryProbe, for any number of keys and whatever S3 answers.  Each    *)
(* part rests on one inductive invariant.                                  *)
(***************************************************************************)
EXTENDS SsmSession, S3CanaryProbe, TLAPS

-------------------------------------------------------------------------------
\* SsmSession: what an output says of the host.

\* A check of a complete output, ENV-01 apart: PASS and FAIL say what the command
\* saw, but for what is Overlooked and Overstated.
LEMMA CompleteIsExact ==
  ASSUME NEW c \in ShellIds \ {"ENV-01"}, NEW F \in HostFacts[c], NEW out \in Prints(c, 1, F),
         NEW modes
  PROVE  /\ Judge(c, out, modes) = "PASS" /\ Bad(c, 1, F) => Overlooked(c, 1, F)
         /\ Judge(c, out, modes) = "FAIL" => Bad(c, 1, F) \/ Overstated(c, F)
<1>1. CASE c = "NAT-01"
  <2>1. F \in SUBSET {"imds dropped", "imds mentioned"}
    BY <1>1 DEF HostFacts, Facts, ShellIds, JsonIds
  <2>2. out \in PrintsNat(F)
    BY <1>1 DEF Prints, JsonIds
  <2>3. Judge(c, out, modes) = NatEgress(out)
    BY <1>1 DEF Judge
  <2>4. Bad(c, 1, F) <=> "imds dropped" \notin F
    BY <1>1 DEF Bad, Unwanted
  <2>5. "imds mentioned" \in F => Overlooked(c, 1, F)
    BY <1>1 DEF Overlooked, Unwanted, Unseen
  <2>6. QED
    BY <2>1, <2>2, <2>3, <2>4, <2>5 DEF PrintsNat, NatEgress, FailIf
<1>2. CASE c = "CORE-01"
  <2>1. F \in SUBSET {"core pattern", "hard limit"}
    BY <1>2 DEF HostFacts, Facts, ShellIds, JsonIds
  <2>2. out \in PrintsCore(F)
    BY <1>2 DEF Prints, JsonIds
  <2>3. Judge(c, out, modes) = CoreDump(out)
    BY <1>2 DEF Judge
  <2>4. Bad(c, 1, F) <=> F \cap {"core pattern", "hard limit"} # {}
    BY <1>2 DEF Bad, Unwanted
  <2>5. QED
    BY <2>1, <2>2, <2>3, <2>4 DEF PrintsCore, CoreDump, FailIf
<1>3. CASE c = "SSH-01"
  <2>1. F \in SUBSET {"sshd active", "ec2ic"}
    BY <1>3 DEF HostFacts, Facts, ShellIds, JsonIds
  <2>2. out \in PrintsSsh(F)
    BY <1>3 DEF Prints, JsonIds
  <2>3. Judge(c, out, modes) = SshHardening(out)
    BY <1>3 DEF Judge
  <2>4. Bad(c, 1, F) <=> F \cap {"sshd active", "ec2ic"} # {}
    BY <1>3 DEF Bad, Unwanted
  <2>5. QED
    BY <2>1, <2>2, <2>3, <2>4 DEF PrintsSsh, SshHardening, FailIf
<1>4. CASE c = "LOG-01"
  <2>1. F \in SUBSET {"journal 755", "group member", "adm member"}
    BY <1>4 DEF HostFacts, Facts, ShellIds, JsonIds
  <2>2. out \in PrintsLog(F)
    BY <1>4 DEF Prints, JsonIds
  <2>3. Judge(c, out, modes) = LogExposure(out)
    BY <1>4 DEF Judge
  <2>4. Bad(c, 1, F) <=> F \cap {"journal 755", "group member", "adm member"} # {}
    BY <1>4 DEF Bad, Unwanted
  <2>5. F \cap {"journal 755", "group member", "adm member"} \subseteq {"adm member"} => Overlooked(c, 1, F)
    BY <1>4 DEF Overlooked, Unwanted, Unseen
  <2>6. QED
    BY <2>1, <2>2, <2>3, <2>4, <2>5 DEF PrintsLog, LogExposure, FailIf
<1>5. CASE c = "ENCLAVE-01"
  <2>1. F \in Facts.ENCLAVES
    BY <1>5 DEF HostFacts, Facts, ShellIds, JsonIds
  <2>2. out \in PrintsEnclaves(F)
    BY <1>5 DEF Prints, JsonIds
  <2>3. Judge(c, out, modes) = EnclaveDebug(out)
    BY <1>5 DEF Judge
  <2>4. Bad(c, 1, F) <=> F \cap {"debug zeroed"} # {}
    BY <1>5 DEF Bad, Unwanted
  <2>5. QED
    BY <2>1, <2>2, <2>3, <2>4 DEF PrintsEnclaves, EnclaveDebug, FailIf, Facts, Enclaves
<1>6. CASE c = "ENCLAVE-02"
  <2>1. F \in Facts.ENCLAVES
    BY <1>6 DEF HostFacts, Facts, ShellIds, JsonIds
  <2>2. out \in PrintsEnclaves(F)
    BY <1>6 DEF Prints, JsonIds
  <2>3. Judge(c, out, modes) = EnclavePcr(out)
    BY <1>6 DEF Judge
  <2>4. Bad(c, 1, F) <=> F \cap {"debug zeroed"} # {}
    BY <1>6 DEF Bad, Unwanted
  <2>5. QED
    BY <2>1, <2>2, <2>3, <2>4 DEF PrintsEnclaves, EnclavePcr, FailIf, Facts, Enclaves
<1>7. CASE c = "ENCLAVE-03"
  <2>1. F \in Facts.ENCLAVES
    BY <1>7 DEF HostFacts, Facts, ShellIds, JsonIds
  <2>2. out \in PrintsEnclaves(F)
    BY <1>7 DEF Prints, JsonIds
  <2>3. Judge(c, out, modes) = EnclaveCotenant(out)
    BY <1>7 DEF Judge
  <2>4. Bad(c, 1, F) <=> Cardinality(F \ {"nitro-cli"}) > 1
    BY <1>7 DEF Bad, Unwanted
  <2>5. QED
    BY <2>1, <2>2, <2>3, <2>4 DEF PrintsEnclaves, EnclaveCotenant, FailIf, Facts, Enclaves
<1>8. CASE c = "ENCLAVE-04"
  <2>1. F \in Facts.EIF
    BY <1>8 DEF HostFacts, Facts, ShellIds, JsonIds
  <2>2. out \in PrintsEif(F)
    BY <1>8 DEF Prints, JsonIds
  <2>3. Judge(c, out, modes) = EnclaveSigned(out)
    BY <1>8 DEF Judge
  <2>4. Bad(c, 1, F) <=> F \cap {"unsigned", "signed, does not verify", "running unsigned"} # {} /\ "running signed" \notin F
    BY <1>8 DEF Bad, Unwanted
  <2>5. F \cap {"unsigned", "signed, does not verify", "running unsigned"} \subseteq {"running unsigned"} => Overlooked(c, 1, F)
    BY <1>8 DEF Overlooked, Unwanted, Unseen
  <2>6. "running signed" \in F => Overstated(c, F)
    BY <1>8 DEF Overstated
  <2>7. QED
    BY <2>1, <2>2, <2>3, <2>4, <2>5, <2>6 DEF PrintsEif, EnclaveSigned, FailIf, Facts
<1>9. CASE c = "HOST-01"
  <2>1. F \in SUBSET {"key 644", "key 604", "eif 600"}
    BY <1>9 DEF HostFacts, Facts, ShellIds, JsonIds
  <2>2. out \in OrNothing(F, "NOT_FOUND or NONE")
    BY <1>9 DEF Prints, JsonIds
  <2>3. Judge(c, out, modes) = HostPermissions(out)
    BY <1>9 DEF Judge
  <2>4. Bad(c, 1, F) <=> F \cap {"key 644", "key 604"} # {}
    BY <1>9 DEF Bad, Unwanted
  <2>5. F \cap {"key 644", "key 604"} \subseteq {"key 604"} => Overlooked(c, 1, F)
    BY <1>9 DEF Overlooked, Unwanted, Unseen
  <2>6. QED
    BY <2>1, <2>2, <2>3, <2>4, <2>5 DEF OrNothing, HostPermissions, FailIf
<1>10. CASE c = "HOST-02"
  <2>1. F \in SUBSET {"svc:root", "svc:enclave"}
    BY <1>10 DEF HostFacts, Facts, ShellIds, JsonIds
  <2>2. out \in OrNothing(F, "NOT_FOUND or NONE")
    BY <1>10 DEF Prints, JsonIds
  <2>3. Judge(c, out, modes) = HostServices(out)
    BY <1>10 DEF Judge
  <2>4. Bad(c, 1, F) <=> F \cap {"svc:root"} # {}
    BY <1>10 DEF Bad, Unwanted
  <2>5. QED
    BY <2>1, <2>2, <2>3, <2>4 DEF OrNothing, HostServices, FailIf
<1>11. CASE c = "PORT-01"
  <2>1. F \in SUBSET {"22", "443"}
    BY <1>11 DEF HostFacts, Facts, ShellIds, JsonIds
  <2>2. out \in {F}
    BY <1>11 DEF Prints, JsonIds
  <2>3. Judge(c, out, modes) = OpenPorts(out)
    BY <1>11 DEF Judge
  <2>4. Bad(c, 1, F) <=> F \cap {"22", "443"} # {}
    BY <1>11 DEF Bad, Unwanted
  <2>5. QED
    BY <2>1, <2>2, <2>3, <2>4 DEF OpenPorts, FailIf
<1>12. CASE c = "EXEC-01"
  <2>1. F \in SUBSET {"entry", "other name"}
    BY <1>12 DEF HostFacts, Facts, ShellIds, JsonIds
  <2>2. out \in OrNothing(F \cap {"entry"}, "NOT_FOUND or NONE")
    BY <1>12 DEF Prints, JsonIds
  <2>3. Judge(c, out, modes) = ExecPermissions(out)
    BY <1>12 DEF Judge
  <2>4. Bad(c, 1, F) <=> F \cap {"entry", "other name"} # {}
    BY <1>12 DEF Bad, Unwanted
  <2>5. F \cap {"entry", "other name"} \subseteq {"other name"} => Overlooked(c, 1, F)
    BY <1>12 DEF Overlooked, Unwanted, Unseen
  <2>6. QED
    BY <2>1, <2>2, <2>3, <2>4, <2>5 DEF OrNothing, ExecPermissions, FailIf, Listed, Sentinel
<1>13. CASE c = "VSOCK-01"
  <2>1. F \in SUBSET {"entry"}
    BY <1>13 DEF HostFacts, Facts, ShellIds, JsonIds
  <2>2. out \in OrWord(F, "NONE")
    BY <1>13 DEF Prints, JsonIds
  <2>3. Judge(c, out, modes) = VsockExposure(out)
    BY <1>13 DEF Judge
  <2>4. Bad(c, 1, F) <=> F \cap {"entry"} # {}
    BY <1>13 DEF Bad, Unwanted
  <2>5. QED
    BY <2>1, <2>2, <2>3, <2>4 DEF OrWord, VsockExposure, FailIf, Listed, Sentinel
<1>14. CASE c = "DNS-01"
  <2>1. F \in SUBSET {"entry"}
    BY <1>14 DEF HostFacts, Facts, ShellIds, JsonIds
  <2>2. out \in OrWord(F, "NONE")
    BY <1>14 DEF Prints, JsonIds
  <2>3. Judge(c, out, modes) = DnsDnat(out)
    BY <1>14 DEF Judge
  <2>4. Bad(c, 1, F) <=> F \cap {"entry"} # {}
    BY <1>14 DEF Bad, Unwanted
  <2>5. QED
    BY <2>1, <2>2, <2>3, <2>4 DEF OrWord, DnsDnat, FailIf, Listed, Sentinel
<1>15. CASE c = "SWAP-01"
  <2>1. F \in SUBSET {"entry"}
    BY <1>15 DEF HostFacts, Facts, ShellIds, JsonIds
  <2>2. out \in OrNothing(F, "NOT_FOUND or NONE")
    BY <1>15 DEF Prints, JsonIds
  <2>3. Judge(c, out, modes) = SwapExposure(out)
    BY <1>15 DEF Judge
  <2>4. Bad(c, 1, F) <=> F \cap {"entry"} # {}
    BY <1>15 DEF Bad, Unwanted
  <2>5. QED
    BY <2>1, <2>2, <2>3, <2>4 DEF OrNothing, SwapExposure, FailIf, Listed, Sentinel
<1>16. CASE c = "RESTART-01"
  <2>1. F \in SUBSET {"always", "always+download", "no"}
    BY <1>16 DEF HostFacts, Facts, ShellIds, JsonIds
  <2>2. out \in OrNothing(F, "NONE")
    BY <1>16 DEF Prints, JsonIds
  <2>3. Judge(c, out, modes) = RestartPersistence(out)
    BY <1>16 DEF Judge
  <2>4. Bad(c, 1, F) <=> F \cap {"always+download"} # {}
    BY <1>16 DEF Bad, Unwanted
  <2>5. "always" \in F => Overstated(c, F)
    BY <1>16 DEF Overstated
  <2>6. QED
    BY <2>1, <2>2, <2>3, <2>4, <2>5 DEF OrNothing, RestartPersistence, FailIf
<1>17. QED
  BY <1>1, <1>2, <1>3, <1>4, <1>5, <1>6, <1>7, <1>8, <1>9, <1>10, <1>11, <1>12, <1>13, <1>14, <1>15, <1>16 DEF ShellIds, JsonIds

\* The lines that are left of an output are lines it may have had.
LEMMA PartialLines ==
  ASSUME NEW c, NEW F, NEW Lines,
         {"json", "svc:enclave", "harmless"} \cap Lines = {},
         \A out \in Prints(c, 1, F) \cup Masked(c, 1, F) : out \subseteq Lines,
         NEW part \in Partial(c, 1, F)
  PROVE  part \subseteq Lines
<1>1. CASE part \in Masked(c, 1, F)
  BY <1>1
<1>2. ASSUME NEW out \in Prints(c, 1, F) \cup Masked(c, 1, F), part \in Cut(out)
      PROVE  part \subseteq Lines
  <2>1. out \subseteq Lines /\ "json" \notin out /\ "svc:enclave" \notin out /\ "harmless" \notin out
    OBVIOUS
  <2>2. Halves(out) = {}
    BY <2>1 DEF Halves
  <2>3. QED
    BY <1>2, <2>1, <2>2 DEF Cut
<1>3. QED
  BY <1>1, <1>2 DEF Partial

\* A failing tool and a cut or lost line only hide: they make no FAIL, but of the
\* checks that take remains for a fault, and no PASS of a check that passes on
\* evidence.
LEMMA PartialHidesOnly ==
  ASSUME NEW c \in ShellIds \ {"ENV-01"}, NEW F \in HostFacts[c], NEW part \in Partial(c, 1, F),
         NEW modes
  PROVE  /\ Judge(c, part, modes) = "PASS" /\ c \in PassesOnlyOnEvidence /\ Bad(c, 1, F)
              => Overlooked(c, 1, F)
         /\ Judge(c, part, modes) = "FAIL" /\ c \notin FailsOnRemains
              => Bad(c, 1, F) \/ Overstated(c, F)
<1>1. CASE c = "SSH-01"
  <2> DEFINE Lines == {"SSH_STATUS=inactive", "EC2IC_INSTALLED=not_installed"}
                  \cup (IF "sshd active" \in F THEN {"SSH_STATUS=active"} ELSE {})
                  \cup (IF "ec2ic" \in F THEN {"EC2IC_INSTALLED=1.1"} ELSE {})
  <2>1. F \in SUBSET {"sshd active", "ec2ic"}
    BY <1>1 DEF HostFacts, Facts, ShellIds, JsonIds
  <2>2. Prints(c, 1, F) = PrintsSsh(F)
    BY <1>1 DEF Prints, JsonIds
  <2>3. Masked(c, 1, F) = UNION {PrintsSsh(seen) : seen \in SUBSET F}
    <3>1. \A seen : Prints(c, 1, seen) = PrintsSsh(seen)
      BY <1>1 DEF Prints, JsonIds
    <3>2. Masked(c, 1, F) = UNION {Prints(c, 1, seen) : seen \in SUBSET F}
      BY <1>1 DEF Masked, JsonIds
    <3>3. QED
      BY <3>1, <3>2
  <2>4. \A out \in Prints(c, 1, F) \cup Masked(c, 1, F) : out \subseteq Lines
    <3>1. ASSUME NEW seen \in SUBSET F, NEW out \in PrintsSsh(seen)
          PROVE  out \subseteq Lines
      BY <3>1 DEF PrintsSsh
    <3>2. F \in SUBSET F
      OBVIOUS
    <3> HIDE DEF Lines
    <3>3. QED
      BY <2>2, <2>3, <3>1, <3>2
  <2>5. part \subseteq Lines
    <3>1. {"json", "svc:enclave", "harmless"} \cap Lines = {}
      BY <2>1
    <3> HIDE DEF Lines
    <3>2. QED
      BY <2>4, <3>1, PartialLines
  <2>6. Judge(c, part, modes) = SshHardening(part)
    BY <1>1 DEF Judge
  <2>7. Bad(c, 1, F) <=> F \cap {"sshd active", "ec2ic"} # {}
    BY <1>1 DEF Bad, Unwanted
  <2>8. SshHardening(part) = "FAIL" => Bad(c, 1, F)
    BY <2>1, <2>5, <2>7 DEF SshHardening, FailIf, Listed, Sentinel
  <2>9. c \notin PassesOnlyOnEvidence
    BY <1>1 DEF PassesOnlyOnEvidence
  <2>10. QED
    BY <2>6, <2>8, <2>9
<1>2. CASE c = "CORE-01"
  <2> DEFINE Lines == {"CORE_PATTERN=|/bin/false", "CORE_PATTERN=", "ULIMIT_CORE=0", "ULIMIT_CORE="}
                  \cup (IF "core pattern" \in F THEN {"CORE_PATTERN=core"} ELSE {})
                  \cup (IF "hard limit" \in F THEN {"ULIMIT_CORE=unlimited"} ELSE {})
  <2>1. F \in SUBSET {"core pattern", "hard limit"}
    BY <1>2 DEF HostFacts, Facts, ShellIds, JsonIds
  <2>2. Prints(c, 1, F) = PrintsCore(F)
    BY <1>2 DEF Prints, JsonIds
  <2>3. Masked(c, 1, F) = {{"CORE_PATTERN=", "ULIMIT_CORE=0"}, {"CORE_PATTERN=", "ULIMIT_CORE="}}
    BY <1>2 DEF Masked, JsonIds
  <2>4. \A out \in Prints(c, 1, F) \cup Masked(c, 1, F) : out \subseteq Lines
    BY <2>1, <2>2, <2>3 DEF PrintsCore
  <2>5. part \subseteq Lines
    <3>1. {"json", "svc:enclave", "harmless"} \cap Lines = {}
      BY <2>1
    <3> HIDE DEF Lines
    <3>2. QED
      BY <2>4, <3>1, PartialLines
  <2>6. Judge(c, part, modes) = CoreDump(part)
    BY <1>2 DEF Judge
  <2>7. Bad(c, 1, F) <=> F \cap {"core pattern", "hard limit"} # {}
    BY <1>2 DEF Bad, Unwanted
  <2>8. CoreDump(part) = "FAIL" => Bad(c, 1, F)
    BY <2>1, <2>5, <2>7 DEF CoreDump, FailIf, Listed, Sentinel
  <2>9. c \notin PassesOnlyOnEvidence
    BY <1>2 DEF PassesOnlyOnEvidence
  <2>10. QED
    BY <2>6, <2>8, <2>9
<1>3. CASE c = "LOG-01"
  <2> DEFINE Lines == {"JOURNAL_PERMS=750", "JOURNAL_PERMS=none", "JOURNAL_USERS="}
                  \cup (IF "journal 755" \in F THEN {"JOURNAL_PERMS=755"} ELSE {})
                  \cup (IF "group member" \in F THEN {"JOURNAL_USERS=bob"} ELSE {})
  <2>1. F \in SUBSET {"journal 755", "group member", "adm member"}
    BY <1>3 DEF HostFacts, Facts, ShellIds, JsonIds
  <2>2. Prints(c, 1, F) = PrintsLog(F)
    BY <1>3 DEF Prints, JsonIds
  <2>3. Masked(c, 1, F) = {{"JOURNAL_PERMS=none", "JOURNAL_USERS="}}
    BY <1>3 DEF Masked, JsonIds
  <2>4. \A out \in Prints(c, 1, F) \cup Masked(c, 1, F) : out \subseteq Lines
    BY <2>1, <2>2, <2>3 DEF PrintsLog
  <2>5. part \subseteq Lines
    <3>1. {"json", "svc:enclave", "harmless"} \cap Lines = {}
      BY <2>1
    <3> HIDE DEF Lines
    <3>2. QED
      BY <2>4, <3>1, PartialLines
  <2>6. Judge(c, part, modes) = LogExposure(part)
    BY <1>3 DEF Judge
  <2>7. Bad(c, 1, F) <=> F \cap {"journal 755", "group member", "adm member"} # {}
    BY <1>3 DEF Bad, Unwanted
  <2>8. LogExposure(part) = "FAIL" => Bad(c, 1, F)
    BY <2>1, <2>5, <2>7 DEF LogExposure, FailIf, Listed, Sentinel
  <2>9. c \notin PassesOnlyOnEvidence
    BY <1>3 DEF PassesOnlyOnEvidence
  <2>10. QED
    BY <2>6, <2>8, <2>9
<1>4. CASE c = "HOST-01"
  <2> DEFINE Lines == F \cup {"NOT_FOUND or NONE"}
  <2>1. F \in SUBSET {"key 644", "key 604", "eif 600"}
    BY <1>4 DEF HostFacts, Facts, ShellIds, JsonIds
  <2>2. Prints(c, 1, F) = OrNothing(F, "NOT_FOUND or NONE")
    BY <1>4 DEF Prints, JsonIds
  <2>3. Masked(c, 1, F) = UNION {OrNothing(seen, "NOT_FOUND or NONE") : seen \in SUBSET F}
    <3>1. \A seen : Prints(c, 1, seen) = OrNothing(seen, "NOT_FOUND or NONE")
      BY <1>4 DEF Prints, JsonIds
    <3>2. Masked(c, 1, F) = UNION {Prints(c, 1, seen) : seen \in SUBSET F}
      BY <1>4 DEF Masked, JsonIds
    <3>3. QED
      BY <3>1, <3>2
  <2>4. \A out \in Prints(c, 1, F) \cup Masked(c, 1, F) : out \subseteq Lines
    BY <2>1, <2>2, <2>3 DEF OrNothing
  <2>5. part \subseteq Lines
    <3>1. {"json", "svc:enclave", "harmless"} \cap Lines = {}
      BY <2>1
    <3> HIDE DEF Lines
    <3>2. QED
      BY <2>4, <3>1, PartialLines
  <2>6. Judge(c, part, modes) = HostPermissions(part)
    BY <1>4 DEF Judge
  <2>7. Bad(c, 1, F) <=> F \cap {"key 644", "key 604"} # {}
    BY <1>4 DEF Bad, Unwanted
  <2>8. HostPermissions(part) = "FAIL" => Bad(c, 1, F)
    BY <2>1, <2>5, <2>7 DEF HostPermissions, FailIf, Listed, Sentinel
  <2>9. c \notin PassesOnlyOnEvidence
    BY <1>4 DEF PassesOnlyOnEvidence
  <2>10. QED
    BY <2>6, <2>8, <2>9
<1>5. CASE c = "PORT-01"
  <2> DEFINE Lines == F
  <2>1. F \in SUBSET {"22", "443"}
    BY <1>5 DEF HostFacts, Facts, ShellIds, JsonIds
  <2>2. Prints(c, 1, F) = {F}
    BY <1>5 DEF Prints, JsonIds
  <2>3. Masked(c, 1, F) = UNION {{seen} : seen \in SUBSET F}
    <3>1. \A seen : Prints(c, 1, seen) = {seen}
      BY <1>5 DEF Prints, JsonIds
    <3>2. Masked(c, 1, F) = UNION {Prints(c, 1, seen) : seen \in SUBSET F}
      BY <1>5 DEF Masked, JsonIds
    <3>3. QED
      BY <3>1, <3>2
  <2>4. \A out \in Prints(c, 1, F) \cup Masked(c, 1, F) : out \subseteq Lines
    BY <2>1, <2>2, <2>3
  <2>5. part \subseteq Lines
    <3>1. {"json", "svc:enclave", "harmless"} \cap Lines = {}
      BY <2>1
    <3> HIDE DEF Lines
    <3>2. QED
      BY <2>4, <3>1, PartialLines
  <2>6. Judge(c, part, modes) = OpenPorts(part)
    BY <1>5 DEF Judge
  <2>7. Bad(c, 1, F) <=> F \cap {"22", "443"} # {}
    BY <1>5 DEF Bad, Unwanted
  <2>8. OpenPorts(part) = "FAIL" => Bad(c, 1, F)
    BY <2>1, <2>5, <2>7 DEF OpenPorts, FailIf, Listed, Sentinel
  <2>9. c \notin PassesOnlyOnEvidence
    BY <1>5 DEF PassesOnlyOnEvidence
  <2>10. QED
    BY <2>6, <2>8, <2>9
<1>6. CASE c = "EXEC-01"
  <2> DEFINE Lines == (F \cap {"entry"}) \cup {"NOT_FOUND or NONE"}
  <2>1. F \in SUBSET {"entry", "other name"}
    BY <1>6 DEF HostFacts, Facts, ShellIds, JsonIds
  <2>2. Prints(c, 1, F) = OrNothing(F \cap {"entry"}, "NOT_FOUND or NONE")
    BY <1>6 DEF Prints, JsonIds
  <2>3. Masked(c, 1, F) = UNION {OrNothing(seen \cap {"entry"}, "NOT_FOUND or NONE") : seen \in SUBSET F}
    <3>1. \A seen : Prints(c, 1, seen) = OrNothing(seen \cap {"entry"}, "NOT_FOUND or NONE")
      BY <1>6 DEF Prints, JsonIds
    <3>2. Masked(c, 1, F) = UNION {Prints(c, 1, seen) : seen \in SUBSET F}
      BY <1>6 DEF Masked, JsonIds
    <3>3. QED
      BY <3>1, <3>2
  <2>4. \A out \in Prints(c, 1, F) \cup Masked(c, 1, F) : out \subseteq Lines
    <3>1. ASSUME NEW seen \in SUBSET F, NEW out \in OrNothing(seen \cap {"entry"}, "NOT_FOUND or NONE")
          PROVE  out \subseteq Lines
      BY <3>1 DEF OrNothing
    <3>2. F \in SUBSET F
      OBVIOUS
    <3> HIDE DEF Lines
    <3>3. QED
      BY <2>2, <2>3, <3>1, <3>2
  <2>5. part \subseteq Lines
    <3>1. {"json", "svc:enclave", "harmless"} \cap Lines = {}
      BY <2>1
    <3> HIDE DEF Lines
    <3>2. QED
      BY <2>4, <3>1, PartialLines
  <2>6. Judge(c, part, modes) = ExecPermissions(part)
    BY <1>6 DEF Judge
  <2>7. Bad(c, 1, F) <=> F \cap {"entry", "other name"} # {}
    BY <1>6 DEF Bad, Unwanted
  <2>8. ExecPermissions(part) = "FAIL" => Bad(c, 1, F)
    BY <2>1, <2>5, <2>7 DEF ExecPermissions, FailIf, Listed, Sentinel
  <2>9. c \notin PassesOnlyOnEvidence
    BY <1>6 DEF PassesOnlyOnEvidence
  <2>10. QED
    BY <2>6, <2>8, <2>9
<1>7. CASE c = "VSOCK-01"
  <2> DEFINE Lines == F \cup {"NONE"}
  <2>1. F \in SUBSET {"entry"}
    BY <1>7 DEF HostFacts, Facts, ShellIds, JsonIds
  <2>2. Prints(c, 1, F) = OrWord(F, "NONE")
    BY <1>7 DEF Prints, JsonIds
  <2>3. Masked(c, 1, F) = UNION {OrWord(seen, "NONE") : seen \in SUBSET F}
    <3>1. \A seen : Prints(c, 1, seen) = OrWord(seen, "NONE")
      BY <1>7 DEF Prints, JsonIds
    <3>2. Masked(c, 1, F) = UNION {Prints(c, 1, seen) : seen \in SUBSET F}
      BY <1>7 DEF Masked, JsonIds
    <3>3. QED
      BY <3>1, <3>2
  <2>4. \A out \in Prints(c, 1, F) \cup Masked(c, 1, F) : out \subseteq Lines
    BY <2>1, <2>2, <2>3 DEF OrWord
  <2>5. part \subseteq Lines
    <3>1. {"json", "svc:enclave", "harmless"} \cap Lines = {}
      BY <2>1
    <3> HIDE DEF Lines
    <3>2. QED
      BY <2>4, <3>1, PartialLines
  <2>6. Judge(c, part, modes) = VsockExposure(part)
    BY <1>7 DEF Judge
  <2>7. Bad(c, 1, F) <=> F \cap {"entry"} # {}
    BY <1>7 DEF Bad, Unwanted
  <2>8. VsockExposure(part) = "FAIL" => Bad(c, 1, F)
    BY <2>1, <2>5, <2>7 DEF VsockExposure, FailIf, Listed, Sentinel
  <2>9. c \notin PassesOnlyOnEvidence
    BY <1>7 DEF PassesOnlyOnEvidence
  <2>10. QED
    BY <2>6, <2>8, <2>9
<1>8. CASE c = "DNS-01"
  <2> DEFINE Lines == F \cup {"NONE"}
  <2>1. F \in SUBSET {"entry"}
    BY <1>8 DEF HostFacts, Facts, ShellIds, JsonIds
  <2>2. Prints(c, 1, F) = OrWord(F, "NONE")
    BY <1>8 DEF Prints, JsonIds
  <2>3. Masked(c, 1, F) = UNION {OrWord(seen, "NONE") : seen \in SUBSET F}
    <3>1. \A seen : Prints(c, 1, seen) = OrWord(seen, "NONE")
      BY <1>8 DEF Prints, JsonIds
    <3>2. Masked(c, 1, F) = UNION {Prints(c, 1, seen) : seen \in SUBSET F}
      BY <1>8 DEF Masked, JsonIds
    <3>3. QED
      BY <3>1, <3>2
  <2>4. \A out \in Prints(c, 1, F) \cup Masked(c, 1, F) : out \subseteq Lines
    BY <2>1, <2>2, <2>3 DEF OrWord
  <2>5. part \subseteq Lines
    <3>1. {"json", "svc:enclave", "harmless"} \cap Lines = {}
      BY <2>1
    <3> HIDE DEF Lines
    <3>2. QED
      BY <2>4, <3>1, PartialLines
  <2>6. Judge(c, part, modes) = DnsDnat(part)
    BY <1>8 DEF Judge
  <2>7. Bad(c, 1, F) <=> F \cap {"entry"} # {}
    BY <1>8 DEF Bad, Unwanted
  <2>8. DnsDnat(part) = "FAIL" => Bad(c, 1, F)
    BY <2>1, <2>5, <2>7 DEF DnsDnat, FailIf, Listed, Sentinel
  <2>9. c \notin PassesOnlyOnEvidence
    BY <1>8 DEF PassesOnlyOnEvidence
  <2>10. QED
    BY <2>6, <2>8, <2>9
<1>9. CASE c = "SWAP-01"
  <2> DEFINE Lines == F \cup {"NOT_FOUND or NONE"}
  <2>1. F \in SUBSET {"entry"}
    BY <1>9 DEF HostFacts, Facts, ShellIds, JsonIds
  <2>2. Prints(c, 1, F) = OrNothing(F, "NOT_FOUND or NONE")
    BY <1>9 DEF Prints, JsonIds
  <2>3. Masked(c, 1, F) = UNION {OrNothing(seen, "NOT_FOUND or NONE") : seen \in SUBSET F}
    <3>1. \A seen : Prints(c, 1, seen) = OrNothing(seen, "NOT_FOUND or NONE")
      BY <1>9 DEF Prints, JsonIds
    <3>2. Masked(c, 1, F) = UNION {Prints(c, 1, seen) : seen \in SUBSET F}
      BY <1>9 DEF Masked, JsonIds
    <3>3. QED
      BY <3>1, <3>2
  <2>4. \A out \in Prints(c, 1, F) \cup Masked(c, 1, F) : out \subseteq Lines
    BY <2>1, <2>2, <2>3 DEF OrNothing
  <2>5. part \subseteq Lines
    <3>1. {"json", "svc:enclave", "harmless"} \cap Lines = {}
      BY <2>1
    <3> HIDE DEF Lines
    <3>2. QED
      BY <2>4, <3>1, PartialLines
  <2>6. Judge(c, part, modes) = SwapExposure(part)
    BY <1>9 DEF Judge
  <2>7. Bad(c, 1, F) <=> F \cap {"entry"} # {}
    BY <1>9 DEF Bad, Unwanted
  <2>8. SwapExposure(part) = "FAIL" => Bad(c, 1, F)
    BY <2>1, <2>5, <2>7 DEF SwapExposure, FailIf, Listed, Sentinel
  <2>9. c \notin PassesOnlyOnEvidence
    BY <1>9 DEF PassesOnlyOnEvidence
  <2>10. QED
    BY <2>6, <2>8, <2>9
<1>10. CASE c = "RESTART-01"
  <2> DEFINE Lines == F \cup {"NONE", "svc::none"}
  <2>1. F \in SUBSET {"always", "always+download", "no"}
    BY <1>10 DEF HostFacts, Facts, ShellIds, JsonIds
  <2>2. Prints(c, 1, F) = OrNothing(F, "NONE")
    BY <1>10 DEF Prints, JsonIds
  <2>3. Masked(c, 1, F) = {{}, {"svc::none"}}
    BY <1>10 DEF Masked, JsonIds
  <2>4. \A out \in Prints(c, 1, F) \cup Masked(c, 1, F) : out \subseteq Lines
    BY <2>1, <2>2, <2>3 DEF OrNothing
  <2>5. part \subseteq Lines
    <3>1. {"json", "svc:enclave", "harmless"} \cap Lines = {}
      BY <2>1
    <3> HIDE DEF Lines
    <3>2. QED
      BY <2>4, <3>1, PartialLines
  <2>6. Judge(c, part, modes) = RestartPersistence(part)
    BY <1>10 DEF Judge
  <2>7. Bad(c, 1, F) <=> F \cap {"always+download"} # {}
    BY <1>10 DEF Bad, Unwanted
  <2>8. "always" \in F => Overstated(c, F)
    BY <1>10 DEF Overstated
  <2>9. RestartPersistence(part) = "FAIL" => Bad(c, 1, F) \/ Overstated(c, F)
    BY <2>1, <2>5, <2>7, <2>8 DEF RestartPersistence, FailIf, Listed, Sentinel
  <2>10. c \notin PassesOnlyOnEvidence
    BY <1>10 DEF PassesOnlyOnEvidence
  <2>11. QED
    BY <2>6, <2>9, <2>10
<1>11. CASE c \in {"ENCLAVE-01", "ENCLAVE-02", "ENCLAVE-03"}
  <2>1. F \in Facts.ENCLAVES
    BY <1>11 DEF HostFacts, ShellIds, JsonIds
  <2>2. Prints(c, 1, F) = PrintsEnclaves(F)
    BY <1>11 DEF Prints, JsonIds
  <2>3. Masked(c, 1, F) = {{"NOT_AVAILABLE"}, {"truncated"}}
    BY <1>11 DEF Masked, JsonIds
  <2>4. \A out \in Prints(c, 1, F) : out = {"NOT_AVAILABLE"} \/ "json" \in out
    BY <2>2 DEF PrintsEnclaves
  <2>5. "json" \notin part
    <3>1. CASE part \in Masked(c, 1, F)
      BY <2>3, <3>1
    <3>2. ASSUME NEW out \in Prints(c, 1, F) \cup Masked(c, 1, F), part \in Cut(out)
          PROVE  "json" \notin part
      BY <2>3, <2>4, <3>2 DEF Cut, Halves
    <3>3. QED
      BY <3>1, <3>2 DEF Partial
  <2>6. Judge(c, part, modes) = "ERROR"
    BY <1>11, <2>5 DEF Judge, EnclaveDebug, EnclavePcr, EnclaveCotenant
  <2>7. QED
    BY <2>6
<1>12. CASE c = "NAT-01"
  <2>1. F \in SUBSET {"imds dropped", "imds mentioned"}
    BY <1>12 DEF HostFacts, Facts, ShellIds, JsonIds
  <2>2. Prints(c, 1, F) = PrintsNat(F) /\ Masked(c, 1, F) = {{"0"}}
    BY <1>12 DEF Prints, Masked, JsonIds
  <2>3. "1" \in part => F # {}
    <3>1. CASE F = {}
      <4>1. \A out \in Prints(c, 1, F) \cup Masked(c, 1, F) : out \subseteq {"0"}
        BY <2>2, <3>1 DEF PrintsNat
      <4>2. part \subseteq {"0"}
        BY <4>1, PartialLines
      <4>3. QED
        BY <4>2
    <3>2. QED
      BY <3>1
  <2>4. Judge(c, part, modes) = "PASS" => "1" \in part
    BY <1>12 DEF Judge, NatEgress, FailIf
  <2>5. Bad(c, 1, F) /\ F # {} => Overlooked(c, 1, F)
    BY <1>12, <2>1 DEF Bad, Overlooked
  <2>6. QED
    BY <1>12, <2>3, <2>4, <2>5 DEF FailsOnRemains
<1>13. QED
  BY <1>1, <1>2, <1>3, <1>4, <1>5, <1>6, <1>7, <1>8, <1>9, <1>10, <1>11, <1>12 DEF ShellIds, JsonIds, PassesOnlyOnEvidence, FailsOnRemains

\* ENV-01 by its two commands with whole outputs, or the second without an answer:
\* a FAIL is what one of them saw, a PASS true of both but for what is Overlooked.
LEMMA EnvironmentIsExact ==
  ASSUME NEW F \in HostFacts["ENV-01"], NEW out \in Prints("ENV-01", 1, F),
         NEW G \in HostFacts["ENV-01"], NEW modes \in Prints("ENV-01", 2, G),
         NEW shown, shown = modes \/ shown = {} \/ shown = {"UNKNOWN"}
  PROVE  /\ Judge("ENV-01", out, shown) = "FAIL" =>
              Bad("ENV-01", 1, F) \/ (Bad("ENV-01", 2, G) /\ shown # {} /\ shown # {"UNKNOWN"})
         /\ Judge("ENV-01", out, shown) = "PASS" =>
              /\ ~Bad("ENV-01", 1, F)
              /\ shown = modes /\ Bad("ENV-01", 2, G) => Overlooked("ENV-01", 2, G)
<1>1. Bad("ENV-01", 1, F) <=> F \cap {"HTTPS_PROXY", "other bucket"} # {}
  BY DEF Bad, Unwanted
<1>2. Unwanted("ENV-01", 2) = {".env 644", ".env 664", "environment 644"}
  BY DEF Unwanted
<1>3. Bad("ENV-01", 2, G) <=> G \cap {".env 644", ".env 664", "environment 644"} # {}
  BY <1>2 DEF Bad
<1>4. ".env 644" \notin G => Overlooked("ENV-01", 2, G)
  BY <1>2 DEF Overlooked, Unseen
<1>5. F \cap {"HTTPS_PROXY", "other bucket"} = out \cap {"HTTPS_PROXY", "other bucket"}
  <2>1. out \in PrintsEnv(F)
    BY DEF Prints, JsonIds
  <2>2. QED
    BY <2>1 DEF PrintsEnv, OrNothing, Modes
<1>6. ".env 644" \in G <=> ".env 644" \in modes
  <2>1. modes \in PrintsModes(G)
    BY DEF Prints, JsonIds
  <2> DEFINE shownModes == G \cap {".env 600", ".env 644", ".env 664"}
  <2>2. modes = IF shownModes = {} THEN {"UNKNOWN"} ELSE shownModes
    BY <2>1 DEF PrintsModes, OrWord
  <2>3. ".env 644" \in G <=> ".env 644" \in shownModes
    OBVIOUS
  <2>4. ".env 644" \notin {"UNKNOWN"}
    OBVIOUS
  <2> HIDE DEF shownModes
  <2>5. QED
    BY <2>2, <2>3, <2>4, Zenon
<1> DEFINE bad == {"HTTPS_PROXY", "other bucket"} \cap out # {} \/ ".env 644" \in shown
<1>7. Judge("ENV-01", out, shown) = FailIf(bad)
  <2>1. Judge("ENV-01", out, shown) = EnvVarSemantic(out, shown)
    BY DEF Judge
  <2>2. QED
    BY <2>1, Zenon DEF EnvVarSemantic
<1>8. /\ Judge("ENV-01", out, shown) = "FAIL" => bad
      /\ Judge("ENV-01", out, shown) = "PASS" => ~bad
  <2>1. CASE bad
    BY <1>7, <2>1 DEF FailIf
  <2>2. CASE ~bad
    BY <1>7, <2>2 DEF FailIf
  <2>3. QED
    BY <2>1, <2>2
<1>9. ".env 644" \in shown => shown = modes /\ shown # {} /\ shown # {"UNKNOWN"}
  <2>1. ".env 644" \notin {} /\ ".env 644" \notin {"UNKNOWN"}
    OBVIOUS
  <2>2. QED
    BY <2>1, Zenon
<1>10. QED
  BY <1>1, <1>3, <1>4, <1>5, <1>6, <1>8, <1>9

-------------------------------------------------------------------------------
(***************************************************************************)
(* The inductive invariant of SsmSession.  VerdictWasTrue speaks of what   *)
(* the commands saw; the steps in between carry outputs.  The invariant    *)
(* ties each to the next: a finished command's output to what it saw, the  *)
(* result at hand to the current command, a finding to the outputs heard.  *)
(***************************************************************************)
\* The host's facts are facts its check can find.
HostInv ==
  /\ plan \in Seq(ShellIds)
  /\ host = [i \in Positions |-> host[i]]
  /\ \A i \in Positions : host[i] \in HostFacts[plan[i]]

\* A command that ended printed what it saw, whole or in part.
Printed(k) ==
  commands[k].status \in Terminal =>
    /\ commands[k].saw \in HostFacts[plan[k[1]]]
    /\ commands[k].out \in
         IF commands[k].whole THEN Prints(plan[k[1]], k[2], commands[k].saw)
         ELSE Partial(plan[k[1]], k[2], commands[k].saw)

CommandsInv ==
  /\ commands = [k \in CommandIds |-> commands[k]]
  /\ \A k \in CommandIds :
       commands[k] = [status |-> commands[k].status, out |-> commands[k].out,
                      saw |-> commands[k].saw, whole |-> commands[k].whole]
  /\ \A k \in CommandIds : Printed(k)

\* The answers heard are final and of commands the checks were polling.
HeardInv ==
  /\ heard \subseteq CommandIds
  /\ \A k \in heard :
       /\ commands[k].status \in Terminal
       /\ k[1] < at \/ (k[1] = at /\ (k[2] = 1 \/ second))
       /\ k[2] = 2 => <<k[1], 1>> \in heard /\ plan[k[1]] = "ENV-01"
  /\ pc = "send" => Current \notin heard

\* The result at hand is the current command's own, and ENV-01's `output` its
\* first command's.
SessionInv ==
  /\ at \in Nat \ {0}
  /\ second \in BOOLEAN
  /\ pc \in {"send", "poll"}
  /\ pc = "send" => result.status \notin Terminal
  /\ result.status \in Terminal <=> Current \in heard
  /\ Current \in heard => result.out = commands[Current].out
  /\ second => /\ plan[at] = "ENV-01"
               /\ <<at, 1>> \in heard
               /\ output = commands[<<at, 1>>].out

\* The modes a check of ENV-01 went by: its second command's, or none.
ModesHeard(i) ==
  IF <<i, 2>> \in heard THEN {commands[<<i, 2>>].out} ELSE {{}, {"UNKNOWN"}}

\* A verdict is what the check makes of its own commands' final answers.
FindingsInv ==
  /\ findings = [i \in Positions |-> findings[i]]
  /\ \A i \in Positions : i >= at => findings[i] = "none"
  /\ \A i \in Positions :
       findings[i] \in {"PASS", "FAIL"} =>
         /\ <<i, 1>> \in heard
         /\ \E m \in ModesHeard(i) : findings[i] = Judge(plan[i], commands[<<i, 1>>].out, m)

SsmInv == HostInv /\ CommandsInv /\ HeardInv /\ SessionInv /\ FindingsInv

-------------------------------------------------------------------------------
LEMMA PositionsFacts ==
  ASSUME plan \in Seq(ShellIds)
  PROVE  /\ Positions \subseteq Nat \ {0}
         /\ \A i \in Positions : plan[i] \in ShellIds
BY DEF Positions

\* What a check heard of a command does not change any more.
LEMMA HeardIsStable ==
  ASSUME HeardInv, CommandsInv, SessionInv, [Next]_vars, NEW k \in heard
  PROVE  commands'[k] = commands[k]
<1> USE DEF HeardInv, CommandsInv, SetStatus, Terminal
<1>1. CASE Send
  BY <1>1 DEF Send
<1>2. CASE SendRaises
  BY <1>2 DEF SendRaises
<1>3. CASE Poll \/ PollRefused \/ PollRaises \/ GiveUp \/ AskModes \/ Evaluate \/ UNCHANGED vars
  BY <1>3 DEF Poll, PollRefused, PollRaises, GiveUp, AskModes, Evaluate, vars
<1>4. ASSUME NEW j \in CommandIds, Deliver(j) \/ Expire(j)
      PROVE  commands'[k] = commands[k]
  BY <1>4 DEF Deliver, Expire
<1>5. ASSUME NEW j \in CommandIds, Execute(j)
      PROVE  commands'[k] = commands[k]
  <2>1. k # j
    BY <1>5 DEF Execute
  <2>2. \E new : commands' = [commands EXCEPT ![j] = new]
    BY <1>5 DEF Execute, EndsWith
  <2>3. QED
    BY <2>1, <2>2
<1>6. ASSUME NEW i \in Positions, ChangeHost(i)
      PROVE  commands'[k] = commands[k]
  BY <1>6 DEF ChangeHost
<1>7. QED
  BY <1>1, <1>2, <1>3, <1>4, <1>5, <1>6 DEF Next, Auditor, Service

\* The service changes nothing a check holds.
LEMMA ServiceLeavesChecksAlone ==
  ASSUME Service \/ UNCHANGED vars
  PROVE  UNCHANGED <<plan, at, pc, second, polls, result, output, findings, heard>>
BY DEF Service, Deliver, Execute, Expire, ChangeHost, auditor, vars

\* The host changes to facts its check can find only.
LEMMA HostStep ==
  ASSUME HostInv, [Next]_vars
  PROVE  HostInv'
<1> USE DEF HostInv, Positions
<1>1. CASE UNCHANGED <<plan, host>>
  BY <1>1
<1>2. ASSUME NEW i \in Positions, ChangeHost(i)
      PROVE  HostInv'
  BY <1>2 DEF ChangeHost
<1>3. UNCHANGED <<plan, host>> \/ \E i \in Positions : ChangeHost(i)
  BY DEF Next, Auditor, Service, Send, SendRaises, Poll, PollRefused, PollRaises, GiveUp,
     AskModes, Evaluate, Deliver, Execute, Expire, vars, service
<1>4. QED
  BY <1>1, <1>2, <1>3

\* A command that is not over yet has printed nothing to account for.
LEMMA StatusStep ==
  ASSUME HostInv, CommandsInv, NEW k \in CommandIds, NEW status, status \notin Terminal,
         SetStatus(k, status), UNCHANGED plan
  PROVE  CommandsInv'
<1> DEFINE now == [status |-> status, out |-> commands[k].out, saw |-> commands[k].saw,
                   whole |-> commands[k].whole]
<1>1. CommandIds' = CommandIds
  BY DEF CommandIds, Positions
<1>2. commands' = [commands EXCEPT ![k] = now]
  <2>1. commands[k] = [status |-> commands[k].status, out |-> commands[k].out,
                       saw |-> commands[k].saw, whole |-> commands[k].whole]
    BY DEF CommandsInv
  <2>2. [commands[k] EXCEPT !.status = status] = now
    BY <2>1
  <2>3. commands' = [commands EXCEPT ![k] = [commands[k] EXCEPT !.status = status]]
    BY DEF SetStatus
  <2>4. QED
    BY <2>2, <2>3
<1>3. \A j \in CommandIds : commands'[j] = IF j = k THEN now ELSE commands[j]
  BY <1>2 DEF CommandsInv
<1>4. commands' = [j \in CommandIds |-> commands'[j]]
  BY <1>2 DEF CommandsInv
<1>5. ASSUME NEW j \in CommandIds
      PROVE  /\ commands'[j] = [status |-> commands'[j].status, out |-> commands'[j].out,
                                saw |-> commands'[j].saw, whole |-> commands'[j].whole]
             /\ Printed(j)'
  <2>1. CASE j = k
    BY <1>3, <2>1 DEF Terminal, Printed
  <2>2. CASE j # k
    BY <1>3, <2>2 DEF CommandsInv, Printed
  <2>3. QED
    BY <2>1, <2>2
<1>6. QED
  BY <1>1, <1>4, <1>5 DEF CommandsInv

\* A command that ends printed what it saw; the others are left alone.
LEMMA CommandsStep ==
  ASSUME HostInv, CommandsInv, SessionInv, [Next]_vars
  PROVE  CommandsInv'
<1>1. CASE UNCHANGED <<plan, commands>>
  BY <1>1 DEF CommandsInv, CommandIds, Positions, Printed
<1>2. ASSUME Running PROVE Current \in CommandIds
  BY <1>2 DEF Running, Current, CommandIds
<1>3. CASE Send
  BY <1>2, <1>3, StatusStep DEF Send, Terminal
<1>4. CASE SendRaises
  BY <1>1, <1>2, <1>4, StatusStep DEF SendRaises, Terminal
<1>5. ASSUME NEW k \in CommandIds, Deliver(k)
      PROVE  CommandsInv'
  BY <1>5, StatusStep DEF Deliver, Terminal
<1>6. ASSUME NEW k \in CommandIds, Expire(k)
      PROVE  CommandsInv'
  BY <1>6, StatusStep DEF Expire, Terminal
<1>7. ASSUME NEW k \in CommandIds, Execute(k)
      PROVE  CommandsInv'
  <2>1. CommandIds' = CommandIds /\ plan' = plan
    BY <1>7 DEF CommandIds, Positions, Execute
  <2>2. k[1] \in Positions
    BY DEF CommandIds
  <2>3. host[k[1]] \in HostFacts[plan[k[1]]]
    BY <2>2 DEF HostInv
  <2>4. PICK out, status, whole :
          /\ commands' = [commands EXCEPT ![k] =
               [status |-> status, out |-> out, saw |-> host[k[1]], whole |-> whole]]
          /\ out \in IF whole THEN Prints(plan[k[1]], k[2], host[k[1]])
                    ELSE Partial(plan[k[1]], k[2], host[k[1]])
    BY <1>7 DEF Execute, EndsWith
  <2> DEFINE new == [status |-> status, out |-> out, saw |-> host[k[1]], whole |-> whole]
  <2>5. commands' = [j \in CommandIds |-> commands'[j]]
    BY <2>4 DEF CommandsInv
  <2>6. \A j \in CommandIds : commands'[j] = IF j = k THEN new ELSE commands[j]
    BY <2>4 DEF CommandsInv
  <2>7. ASSUME NEW j \in CommandIds
        PROVE  /\ commands'[j] = [status |-> commands'[j].status, out |-> commands'[j].out,
                                  saw |-> commands'[j].saw, whole |-> commands'[j].whole]
               /\ Printed(j)'
    <3>1. CASE j # k
      BY <2>1, <2>6, <3>1 DEF CommandsInv, Printed
    <3>2. CASE j = k
      <4>1. commands'[j] = new
        BY <2>6, <3>2
      <4>2. QED
        BY <2>1, <2>3, <2>4, <3>2, <4>1 DEF Printed
    <3>3. QED
      BY <3>1, <3>2
  <2>8. QED
    BY <2>1, <2>5, <2>7 DEF CommandsInv
<1>8. QED
  BY <1>1, <1>3, <1>4, <1>5, <1>6, <1>7 DEF Next, Auditor, Service, Poll, PollRefused, PollRaises,
     GiveUp, AskModes, Evaluate, ChangeHost, vars, auditor

\* Of the steps of a check, those that end it leave nothing for the next one.
LEMMA ReturnStep ==
  ASSUME HostInv, HeardInv, SessionInv, NEW status, Running, Return(status), UNCHANGED plan,
         \A k \in heard : commands'[k] = commands[k]
  PROVE  HeardInv' /\ SessionInv'
<1>1. /\ at' = at + 1 /\ pc' = "send" /\ second' = FALSE
      /\ result' = None /\ heard' = heard /\ plan' = plan
  BY DEF Return
<1>2. Current' = <<at + 1, 1>>
  BY <1>1 DEF Current
<1>3. CommandIds' = CommandIds
  BY <1>1 DEF CommandIds, Positions
<1>4. \A k \in heard : k[1] \in Nat /\ k[1] < at + 1
  <2>1. ASSUME NEW k \in heard
        PROVE  k[1] \in Nat /\ k[1] < at + 1
    <3>1. k[1] \in Positions /\ (k[1] < at \/ k[1] = at)
      BY DEF HeardInv, CommandIds
    <3>2. k[1] \in Nat /\ at \in Nat
      BY <3>1, PositionsFacts DEF HostInv, SessionInv
    <3>3. QED
      BY <3>1, <3>2
  <2>2. QED
    BY <2>1
<1>5. Current' \notin heard
  BY <1>2, <1>4 DEF SessionInv
<1>6. HeardInv'
  BY <1>1, <1>3, <1>4, <1>5 DEF HeardInv
<1>7. result'.status \notin Terminal
  BY <1>1 DEF None, Terminal
<1>8. SessionInv'
  <2>1. at' \in Nat \ {0} /\ pc' \in {"send", "poll"}
    BY <1>1 DEF SessionInv
  <2>2. result'.status \notin Terminal /\ Current' \notin heard'
    BY <1>1, <1>5, <1>7
  <2>3. Terminal' = Terminal
    BY DEF Terminal
  <2>4. second' \in BOOLEAN /\ ~second'
    BY <1>1, Zenon
  <2>5. QED
    BY <2>1, <2>2, <2>3, <2>4 DEF SessionInv
<1>9. QED
  BY <1>6, <1>8

\* The result at hand is never of another command, whatever SSM does meanwhile.
LEMMA SessionStep ==
  ASSUME HostInv, CommandsInv, HeardInv, SessionInv, [Next]_vars
  PROVE  HeardInv' /\ SessionInv'
<1>0. \A k \in heard : commands'[k] = commands[k]
  BY HeardIsStable
<1>1. CASE Service \/ UNCHANGED vars
  <2>1. UNCHANGED <<plan, at, pc, second, polls, result, output, findings, heard>>
    BY <1>1, ServiceLeavesChecksAlone
  <2>2. Current' = Current /\ CommandIds' = CommandIds
    BY <2>1 DEF Current, CommandIds, Positions
  <2>3. HeardInv'
    BY <1>0, <2>1, <2>2 DEF HeardInv
  <2>4. SessionInv'
    BY <1>0, <2>1, <2>2 DEF SessionInv
  <2>5. QED
    BY <2>3, <2>4
<1>2. CASE Send
  <2>1. /\ pc' = "poll" /\ pc = "send"
        /\ UNCHANGED <<plan, at, second, polls, result, output, findings, heard>>
    BY <1>2 DEF Send
  <2>2. Current' = Current /\ CommandIds' = CommandIds
    BY <2>1 DEF Current, CommandIds, Positions
  <2>3. HeardInv'
    BY <1>0, <2>1, <2>2 DEF HeardInv
  <2>4. SessionInv'
    BY <1>0, <2>1, <2>2 DEF SessionInv
  <2>5. QED
    BY <2>3, <2>4
<1>3. CASE SendRaises
  BY <1>0, <1>3, ReturnStep DEF SendRaises, WithoutModes
<1>4. CASE PollRaises
  BY <1>0, <1>4, ReturnStep DEF PollRaises, WithoutModes, Polling
<1>5. CASE GiveUp
  BY <1>0, <1>5, ReturnStep DEF GiveUp, WithoutModes
<1>6. CASE Evaluate
  BY <1>0, <1>6, ReturnStep DEF Evaluate
<1>7. CASE PollRefused
  <2>1. UNCHANGED <<plan, commands, at, pc, second, result, output, heard>>
    BY <1>7 DEF PollRefused
  <2>2. Current' = Current /\ CommandIds' = CommandIds
    BY <2>1 DEF Current, CommandIds, Positions
  <2>3. HeardInv'
    BY <2>1, <2>2 DEF HeardInv
  <2>4. SessionInv'
    BY <2>1, <2>2 DEF SessionInv
  <2>5. QED
    BY <2>3, <2>4
<1>8. CASE Poll
  <2>1. /\ UNCHANGED <<plan, commands, at, pc, second, output>>
        /\ result' = [status |-> commands[Current].status, out |-> commands[Current].out]
        /\ heard' = IF commands[Current].status \in Terminal THEN heard \cup {Current} ELSE heard
        /\ pc = "poll" /\ Running /\ result.status \notin Terminal
    BY <1>8 DEF Poll, Polling, LoopOver
  <2>2. Current' = Current /\ CommandIds' = CommandIds
    BY <2>1 DEF Current, CommandIds, Positions
  <2>3. /\ Current \in CommandIds /\ Current \notin heard /\ Current[1] = at
        /\ Current[2] = IF second THEN 2 ELSE 1
    BY <2>1 DEF SessionInv, Current, CommandIds, Running
  <2>4. CASE commands[Current].status \in Terminal
    <3>1. heard' = heard \cup {Current}
      BY <2>1, <2>4
    <3>2. second => plan[at] = "ENV-01" /\ <<at, 1>> \in heard
      BY DEF SessionInv
    <3>3. HeardInv'
      <4>1. ASSUME NEW k \in heard'
            PROVE  /\ commands[k].status \in Terminal
                   /\ k[1] < at \/ (k[1] = at /\ (k[2] = 1 \/ second))
                   /\ k[2] = 2 => <<k[1], 1>> \in heard /\ plan[k[1]] = "ENV-01"
        <5>1. CASE k = Current
          BY <2>3, <2>4, <3>2, <5>1
        <5>2. CASE k \in heard
          BY <5>2 DEF HeardInv
        <5>3. QED
          BY <3>1, <5>1, <5>2
      <4>2. heard' \subseteq CommandIds
        BY <2>3, <3>1 DEF HeardInv
      <4>3. QED
        BY <2>1, <2>2, <3>1, <4>1, <4>2 DEF HeardInv
    <3>4. SessionInv'
      BY <2>1, <2>2, <2>4, <3>1 DEF SessionInv
    <3>5. QED
      BY <3>3, <3>4
  <2>5. CASE commands[Current].status \notin Terminal
    <3>1. heard' = heard
      BY <2>1, <2>5
    <3>2. HeardInv'
      BY <2>1, <2>2, <3>1 DEF HeardInv
    <3>3. SessionInv'
      BY <2>1, <2>2, <2>3, <2>5, <3>1 DEF SessionInv
    <3>4. QED
      BY <3>2, <3>3
  <2>6. QED
    BY <2>4, <2>5
<1>9. CASE AskModes
  <2>1. /\ UNCHANGED <<plan, commands, at, heard>>
        /\ output' = result.out /\ second' = TRUE /\ pc' = "send" /\ result' = None
        /\ ~second /\ result.status \in Terminal /\ plan[at] = "ENV-01" /\ Running
    BY <1>9 DEF AskModes, Answered, SendsSecond
  <2>2. CommandIds' = CommandIds /\ Current = <<at, 1>> /\ Current' = <<at, 2>>
    BY <2>1 DEF Current, CommandIds, Positions
  <2>3. <<at, 1>> \in heard /\ result.out = commands[<<at, 1>>].out
    BY <2>1, <2>2 DEF SessionInv
  <2>4. <<at, 2>> \notin heard
    BY <2>1 DEF HeardInv, SessionInv
  <2>5. HeardInv'
    BY <2>1, <2>2, <2>4 DEF HeardInv
  <2>6. SessionInv'
    BY <2>1, <2>2, <2>3, <2>4 DEF SessionInv, None, Terminal
  <2>7. QED
    BY <2>5, <2>6
<1>10. QED
  BY <1>1, <1>2, <1>3, <1>4, <1>5, <1>6, <1>7, <1>8, <1>9 DEF Next, Auditor

\* A verdict stays one on the answers it was made of.
LEMMA FindingsStep ==
  ASSUME HostInv, CommandsInv, HeardInv, SessionInv, FindingsInv, [Next]_vars
  PROVE  FindingsInv'
<1> DEFINE Judged(i) ==
      findings[i] \in {"PASS", "FAIL"} =>
        /\ <<i, 1>> \in heard
        /\ \E m \in ModesHeard(i) : findings[i] = Judge(plan[i], commands[<<i, 1>>].out, m)
<1>0. \A k \in heard : commands'[k] = commands[k]
  BY HeardIsStable
<1>1. Positions \subseteq Nat \ {0} /\ at \in Nat
  BY PositionsFacts DEF HostInv, SessionInv
<1>2. plan' = plan /\ Positions' = Positions
  BY DEF Positions, Next, Auditor, Service, Send, SendRaises, Poll, PollRefused, PollRaises,
     GiveUp, AskModes, Evaluate, Deliver, Execute, Expire, ChangeHost, vars
<1>3. ASSUME NEW i \in Positions, findings'[i] = findings[i],
             <<i, 1>> \in heard => <<i, 1>> \in heard',
             <<i, 2>> \in heard <=> <<i, 2>> \in heard'
      PROVE  Judged(i)'
  <2>1. SUFFICES ASSUME findings[i] \in {"PASS", "FAIL"}
                 PROVE  /\ <<i, 1>> \in heard'
                        /\ \E m \in ModesHeard(i)' :
                             findings'[i] = Judge(plan'[i], commands'[<<i, 1>>].out, m)
    BY <1>3
  <2>2. /\ <<i, 1>> \in heard
        /\ \E m \in ModesHeard(i) : findings[i] = Judge(plan[i], commands[<<i, 1>>].out, m)
    BY <2>1 DEF FindingsInv
  <2>3. commands'[<<i, 1>>] = commands[<<i, 1>>]
    BY <1>0, <2>2
  <2>4. ModesHeard(i)' = ModesHeard(i)
    BY <1>0, <1>3 DEF ModesHeard
  <2>5. QED
    BY <1>2, <1>3, <2>2, <2>3, <2>4
<1>4. ASSUME UNCHANGED <<at, findings>>, heard' = heard \/ (heard' = heard \cup {Current} /\ Running)
      PROVE  FindingsInv'
  <2>1. ASSUME NEW i \in Positions
        PROVE  Judged(i)'
    <3>1. CASE i = at
      <4>1. findings'[i] = "none"
        BY <1>1, <1>4, <3>1 DEF FindingsInv
      <4>2. QED
        BY <4>1
    <3>2. CASE i # at
      <4>1. \A n \in {1, 2} : <<i, n>> # Current
        BY <3>2 DEF Current
      <4>2. \A n \in {1, 2} : <<i, n>> \in heard <=> <<i, n>> \in heard'
        BY <1>4, <4>1
      <4>3. QED
        BY <1>3, <1>4, <4>2
    <3>3. QED
      BY <3>1, <3>2
  <2>2. QED
    BY <1>2, <1>4, <2>1 DEF FindingsInv
<1>5. ASSUME NEW status, Return(status), Running,
             status \in {"PASS", "FAIL"} =>
               /\ <<at, 1>> \in heard
               /\ \E m \in ModesHeard(at) : status = Judge(plan[at], commands[<<at, 1>>].out, m)
      PROVE  FindingsInv'
  <2>1. findings' = [findings EXCEPT ![at] = status] /\ at' = at + 1 /\ heard' = heard
    BY <1>5 DEF Return
  <2>2. \A i \in Positions : findings'[i] = IF i = at THEN status ELSE findings[i]
    BY <2>1 DEF FindingsInv
  <2>3. findings' = [i \in Positions' |-> findings'[i]]
    BY <1>2, <2>1 DEF FindingsInv
  <2>4. \A i \in Positions : i >= at + 1 => findings'[i] = "none"
    BY <1>1, <2>2 DEF FindingsInv
  <2>5. ASSUME NEW i \in Positions
        PROVE  Judged(i)'
    <3>1. CASE i # at
      BY <1>3, <2>1, <2>2, <3>1
    <3>2. CASE i = at
      <4>1. SUFFICES ASSUME status \in {"PASS", "FAIL"}
                     PROVE  /\ <<i, 1>> \in heard'
                            /\ \E m \in ModesHeard(i)' :
                                 findings'[i] = Judge(plan'[i], commands'[<<i, 1>>].out, m)
        BY <2>2, <3>2
      <4>2. ModesHeard(i)' = ModesHeard(i)
        BY <1>0, <2>1 DEF ModesHeard
      <4>3. commands'[<<i, 1>>] = commands[<<i, 1>>]
        BY <1>0, <1>5, <3>2, <4>1
      <4>4. QED
        BY <1>2, <1>5, <2>1, <2>2, <3>2, <4>1, <4>2, <4>3
    <3>3. QED
      BY <3>1, <3>2
  <2>6. QED
    BY <1>2, <2>1, <2>3, <2>4, <2>5 DEF FindingsInv
<1>6. ASSUME second, Current \notin heard, Running, WithoutModes
      PROVE  FindingsInv'
  <2>1. /\ <<at, 1>> \in heard /\ output = commands[<<at, 1>>].out /\ <<at, 2>> \notin heard
    BY <1>6 DEF SessionInv, Current
  <2>2. {"UNKNOWN"} \in ModesHeard(at)
    BY <2>1 DEF ModesHeard
  <2>3. QED
    BY <1>5, <1>6, <2>1, <2>2 DEF WithoutModes
<1>7. ASSUME Running, Return("ERROR")
      PROVE  FindingsInv'
  BY <1>5, <1>7
<1>8. CASE Service \/ UNCHANGED vars
  BY <1>4, <1>8, ServiceLeavesChecksAlone
<1>9. CASE Send \/ PollRefused \/ AskModes
  BY <1>4, <1>9 DEF Send, PollRefused, AskModes
<1>10. CASE Poll
  BY <1>4, <1>10 DEF Poll, Polling
<1>11. CASE SendRaises
  BY <1>6, <1>7, <1>11 DEF SendRaises, HeardInv
<1>12. CASE PollRaises
  BY <1>6, <1>7, <1>12 DEF PollRaises, Polling, LoopOver, SessionInv
<1>13. CASE GiveUp
  BY <1>6, <1>7, <1>13 DEF GiveUp, Answered, SessionInv
<1>14. CASE Evaluate
  <2>1. Running /\ Current \in heard /\ result.out = commands[Current].out
    BY <1>14 DEF Evaluate, Answered, SessionInv
  <2>2. CASE second /\ Return(Judge(plan[at], output, result.out))
    <3>1. Current = <<at, 2>> /\ <<at, 1>> \in heard /\ output = commands[<<at, 1>>].out
      BY <2>2 DEF Current, SessionInv
    <3>2. result.out \in ModesHeard(at)
      BY <2>1, <3>1 DEF ModesHeard
    <3>3. QED
      BY <1>5, <2>1, <2>2, <3>1, <3>2
  <2>3. CASE ~second /\ Return(Judge(plan[at], result.out, {}))
    <3>1. Current = <<at, 1>>
      BY <2>3 DEF Current
    <3>2. <<at, 2>> \notin heard
      <4>1. SUFFICES ASSUME <<at, 2>> \in heard PROVE FALSE
        OBVIOUS
      <4>2. at < at \/ (at = at /\ (2 = 1 \/ second))
        BY <4>1 DEF HeardInv
      <4>3. QED
        BY <1>1, <2>3, <4>2
    <3>3. {} \in ModesHeard(at)
      BY <3>2 DEF ModesHeard
    <3>4. QED
      BY <1>5, <2>1, <2>3, <3>1, <3>3
  <2>4. QED
    BY <1>14, <2>2, <2>3 DEF Evaluate
<1>15. QED
  BY <1>8, <1>9, <1>10, <1>11, <1>12, <1>13, <1>14 DEF Next, Auditor

\* For any plans, polls and changes of the host: SsmSession keeps SsmInv.
THEOREM SsmInvariance == Spec => []SsmInv
<1>1. Init => SsmInv
  <2>1. SUFFICES ASSUME Init PROVE SsmInv
    OBVIOUS
  <2>2. plan \in Seq(ShellIds)
    BY <2>1, PlansAssumption DEF Init
  <2>3. Positions \subseteq Nat \ {0}
    BY <2>2, PositionsFacts
  <2>4. HostInv
    BY <2>1, <2>2 DEF Init, HostInv
  <2>5. CommandsInv
    BY <2>1 DEF Init, CommandsInv, Printed, Unsent, Terminal
  <2>6. HeardInv
    BY <2>1 DEF Init, HeardInv
  <2>7. SessionInv
    <3>1. at = 1 /\ pc = "send" /\ ~second /\ result = None /\ heard = {}
      BY <2>1 DEF Init
    <3>2. second \in BOOLEAN
      BY <2>1, Zenon DEF Init
    <3>3. result.status \notin Terminal
      BY <3>1 DEF None, Terminal
    <3>4. QED
      BY <3>1, <3>2, <3>3 DEF SessionInv
  <2>8. FindingsInv
    BY <2>1 DEF Init, FindingsInv
  <2>9. QED
    BY <2>4, <2>5, <2>6, <2>7, <2>8 DEF SsmInv
<1>2. SsmInv /\ [Next]_vars => SsmInv'
  BY HostStep, CommandsStep, SessionStep, FindingsStep DEF SsmInv
<1>3. QED
  BY <1>1, <1>2, PTL DEF Spec

\* The second command of ENV-01 always prints something.
LEMMA ModesPrinted ==
  ASSUME NEW G
  PROVE  \E modes : modes \in Prints("ENV-01", 2, G)
<1>1. Prints("ENV-01", 2, G) = PrintsModes(G)
  BY DEF Prints, JsonIds
<1>2. QED
  BY <1>1 DEF PrintsModes, OrWord

\* So a verdict, made of outputs, says what the commands saw.
LEMMA SsmInvImpliesVerdicts == SsmInv => VerdictWasTrue
<1>1. SUFFICES ASSUME SsmInv PROVE VerdictWasTrue
  OBVIOUS
<1> USE DEF Heard, HeardWhole
<1>2. ASSUME NEW i \in Positions, findings[i] \in {"PASS", "FAIL"}
      PROVE  /\ findings[i] = "PASS" /\ (plan[i] \in PassesOnlyOnEvidence \/ HeardWhole(i)) =>
                  /\ <<i, 1>> \in heard
                  /\ \A k \in Heard(i) :
                       Bad(plan[i], k[2], commands[k].saw) => Overlooked(plan[i], k[2], commands[k].saw)
             /\ findings[i] = "FAIL" /\ (plan[i] \notin FailsOnRemains \/ HeardWhole(i)) =>
                  \E k \in Heard(i) :
                    \/ Bad(plan[i], k[2], commands[k].saw)
                    \/ Overstated(plan[i], commands[k].saw)
  <2> DEFINE c == plan[i]
             answer == commands[<<i, 1>>]
             modesAnswer == commands[<<i, 2>>]
  <2>1. c \in ShellIds
    BY <1>1, PositionsFacts DEF SsmInv, HostInv
  <2>2. <<i, 1>> \in heard
    BY <1>1, <1>2 DEF SsmInv, FindingsInv
  <2>3. PICK m \in ModesHeard(i) : findings[i] = Judge(c, answer.out, m)
    BY <1>1, <1>2 DEF SsmInv, FindingsInv
  <2>4. \A k \in Heard(i) :
          /\ commands[k].saw \in HostFacts[c]
          /\ commands[k].out \in IF commands[k].whole THEN Prints(c, k[2], commands[k].saw)
                               ELSE Partial(c, k[2], commands[k].saw)
    <3>1. ASSUME NEW k \in Heard(i)
          PROVE  k \in CommandIds /\ commands[k].status \in Terminal /\ k[1] = i
      BY <1>1, <3>1 DEF SsmInv, HeardInv
    <3>2. QED
      BY <1>1, <3>1 DEF SsmInv, CommandsInv, Printed
  <2>5. \A k \in Heard(i) : k = <<i, 1>> \/ (k = <<i, 2>> /\ c = "ENV-01")
    <3>1. ASSUME NEW k \in Heard(i)
          PROVE  /\ k \in Positions \X {1, 2} /\ k[1] = i
                 /\ k[2] = 2 => plan[k[1]] = "ENV-01"
      BY <1>1, <3>1 DEF SsmInv, HeardInv, CommandIds
    <3>2. QED
      BY <3>1
  <2>6. <<i, 1>> \in Heard(i)
    BY <2>2
  <2>7. CASE c # "ENV-01"
    <3>1. \A k \in Heard(i) : k = <<i, 1>>
      BY <2>5, <2>7
    <3>2. c \in ShellIds \ {"ENV-01"}
      BY <2>1, <2>7
    <3>3. /\ answer.saw \in HostFacts[c]
          /\ answer.out \in IF answer.whole THEN Prints(c, 1, answer.saw) ELSE Partial(c, 1, answer.saw)
      BY <2>4, <2>6
    <3>4. HeardWhole(i) <=> answer.whole
      BY <2>6, <3>1
    <3>5. CASE answer.whole
      <4>1. /\ findings[i] = "PASS" /\ Bad(c, 1, answer.saw) => Overlooked(c, 1, answer.saw)
            /\ findings[i] = "FAIL" => Bad(c, 1, answer.saw) \/ Overstated(c, answer.saw)
        BY <2>3, <3>2, <3>3, <3>5, CompleteIsExact
      <4>2. QED
        BY <2>2, <2>6, <3>1, <4>1
    <3>6. CASE ~answer.whole
      <4>1. /\ findings[i] = "PASS" /\ c \in PassesOnlyOnEvidence /\ Bad(c, 1, answer.saw)
                 => Overlooked(c, 1, answer.saw)
            /\ findings[i] = "FAIL" /\ c \notin FailsOnRemains
                 => Bad(c, 1, answer.saw) \/ Overstated(c, answer.saw)
        BY <2>3, <3>2, <3>3, <3>6, PartialHidesOnly
      <4>2. QED
        BY <2>2, <2>6, <3>1, <3>4, <3>6, <4>1
    <3>7. QED
      BY <3>5, <3>6
  <2>8. CASE c = "ENV-01"
    <3>1. SUFFICES ASSUME HeardWhole(i)
                   PROVE  /\ findings[i] = "PASS" =>
                               \A k \in Heard(i) :
                                 Bad(c, k[2], commands[k].saw) => Overlooked(c, k[2], commands[k].saw)
                          /\ findings[i] = "FAIL" => \E k \in Heard(i) : Bad(c, k[2], commands[k].saw)
      BY <2>2, <2>8, <3>1 DEF PassesOnlyOnEvidence, FailsOnRemains
    <3>2. answer.saw \in HostFacts["ENV-01"] /\ answer.out \in Prints("ENV-01", 1, answer.saw)
      BY <2>4, <2>6, <2>8, <3>1
    <3>3. CASE <<i, 2>> \in heard
      <4>1. /\ modesAnswer.saw \in HostFacts["ENV-01"]
            /\ modesAnswer.out \in Prints("ENV-01", 2, modesAnswer.saw)
        BY <2>4, <2>8, <3>1, <3>3
      <4>2. m = modesAnswer.out
        BY <2>3, <3>3 DEF ModesHeard
      <4>3. /\ findings[i] = "FAIL" => Bad(c, 1, answer.saw) \/ Bad(c, 2, modesAnswer.saw)
            /\ findings[i] = "PASS" =>
                 /\ ~Bad(c, 1, answer.saw)
                 /\ Bad(c, 2, modesAnswer.saw) => Overlooked(c, 2, modesAnswer.saw)
        BY <2>3, <2>8, <3>2, <4>1, <4>2, EnvironmentIsExact
      <4>4. <<i, 2>> \in Heard(i)
        BY <3>3
      <4>5. QED
        BY <2>5, <2>6, <4>3, <4>4
    <3>4. CASE <<i, 2>> \notin heard
      <4>1. m = {} \/ m = {"UNKNOWN"}
        BY <2>3, <3>4 DEF ModesHeard
      <4>2. PICK modes : modes \in Prints("ENV-01", 2, answer.saw)
        BY ModesPrinted
      <4>3. /\ findings[i] = "FAIL" => Bad(c, 1, answer.saw)
            /\ findings[i] = "PASS" => ~Bad(c, 1, answer.saw)
        BY <2>3, <2>8, <3>2, <4>1, <4>2, EnvironmentIsExact
      <4>4. \A k \in Heard(i) : k = <<i, 1>>
        BY <2>5, <3>4
      <4>5. QED
        BY <2>6, <4>3, <4>4
    <3>5. QED
      BY <3>3, <3>4
  <2>9. QED
    BY <2>7, <2>8
<1>3. QED
  BY <1>2 DEF VerdictWasTrue, PassWasTrue, FailWasTrue

\* VerdictWasTrue for any sequence of checks, any number of polls and any changes
\* of the host: a PASS or FAIL of an SSM check is true of what its own commands
\* saw, however late, cut off or unanswered its commands and the others' are.
THEOREM SsmVerdictWasTrue == Spec => []VerdictWasTrue
BY SsmInvariance, SsmInvImpliesVerdicts, PTL

-------------------------------------------------------------------------------
(***************************************************************************)
(* S3CanaryProbe: an inductive invariant, which says what the check knows  *)
(* of the bucket at each point of its run.                                 *)
(***************************************************************************)

(***************************************************************************)
(* The strengthening.  While it puts, the check knows the bucket exactly:  *)
(* the keys it has been through are the accepted and the blocked ones, and *)
(* the accepted ones are there.  While it deletes, only what is still to   *)
(* be deleted or could not be is there.                                    *)
(***************************************************************************)
NotOver == phase # "done" <=> verdict = "none"
PutsAreKnown ==
  phase \in {"start", "put"} =>
    /\ accepted \cup blocked = 1..(next - 1)
    /\ stored = accepted
DeletesAreKnown ==
  phase = "delete" =>
    /\ accepted \cup blocked = Keys
    /\ stored \subseteq {k \in accepted : k >= next} \cup undeleted
AnswersAreKnown ==
  phase # "done" => accepted = landed /\ accepted \cap blocked = {}
VerdictIsTrue ==
  verdict \in {"PASS", "FAIL"} => verdict = IF landed = {} THEN "PASS" ELSE "FAIL"

CanaryInv ==
  /\ TypeOK
  /\ NotOver
  /\ phase = "start" => next = 1
  /\ PutsAreKnown
  /\ DeletesAreKnown
  /\ AnswersAreKnown
  /\ VerdictIsTrue
  /\ EvidenceIsExact
  /\ VerdictCleansUp

USE NumKeysAssumption

LEMMA CanaryInit == ProbeInit => CanaryInv
<1> SUFFICES ASSUME ProbeInit PROVE CanaryInv
  OBVIOUS
<1>1. ambiguous \in BOOLEAN
  BY DEF ProbeInit
<1>2. next \in 1..NumKeys + 1
  BY DEF ProbeInit
<1>3. TypeOK /\ NotOver
  BY <1>1, <1>2 DEF ProbeInit, TypeOK, NotOver
<1>4. PutsAreKnown
  BY DEF ProbeInit, PutsAreKnown
<1>5. DeletesAreKnown /\ AnswersAreKnown /\ VerdictIsTrue
  BY DEF ProbeInit, DeletesAreKnown, AnswersAreKnown, VerdictIsTrue
<1>6. EvidenceIsExact /\ VerdictCleansUp
  BY DEF ProbeInit, EvidenceIsExact, VerdictCleansUp
<1>7. QED
  BY <1>3, <1>4, <1>5, <1>6 DEF ProbeInit, CanaryInv

\* A step of the put loop keeps the check's knowledge of the bucket exact.
LEMMA PuttingStep ==
  ASSUME CanaryInv, PutAccepted \/ PutRejected \/ PutFails \/ PutsDone
  PROVE  CanaryInv'
<1> USE DEF CanaryInv, TypeOK, Keys, NotOver, PutsAreKnown, DeletesAreKnown, AnswersAreKnown,
            VerdictIsTrue, EvidenceIsExact, VerdictCleansUp, bucket
<1>1. CASE PutAccepted
  BY <1>1 DEF PutAccepted, Putting, Land
<1>2. CASE PutRejected
  BY <1>2 DEF PutRejected, Putting
<1>3. CASE PutFails
  BY <1>3 DEF PutFails, Putting, PutMayLand, Land, End
<1>4. CASE PutsDone
  BY <1>4 DEF PutsDone
<1>5. QED
  BY <1>1, <1>2, <1>3, <1>4

\* So does a step of the delete loop, whatever became of the delete.
LEMMA DeletingStep ==
  ASSUME CanaryInv, NEW k \in Keys, Delete(k) \/ DeleteSuppressed(k) \/ DeleteFails(k)
  PROVE  CanaryInv'
<1> USE DEF CanaryInv, TypeOK, Keys, NotOver, PutsAreKnown, DeletesAreKnown, AnswersAreKnown,
            VerdictIsTrue, EvidenceIsExact, VerdictCleansUp, bucket
<1>1. CASE Delete(k)
  BY <1>1 DEF Delete, Deleting
<1>2. CASE DeleteSuppressed(k)
  BY <1>2 DEF DeleteSuppressed, Deleting, DeleteMayHold
<1>3. CASE DeleteFails(k)
  BY <1>3 DEF DeleteFails, Deleting, DeleteMayHold, End
<1>4. QED
  BY <1>1, <1>2, <1>3

LEMMA CanaryStep == CanaryInv /\ [ProbeNext]_probeVars => CanaryInv'
<1> SUFFICES ASSUME CanaryInv, [ProbeNext]_probeVars PROVE CanaryInv'
  OBVIOUS
<1>1. ASSUME NEW given \in BOOLEAN, Start(given) PROVE CanaryInv'
  BY <1>1 DEF Start, End, CanaryInv, TypeOK, Keys, NotOver, PutsAreKnown, DeletesAreKnown,
     AnswersAreKnown, VerdictIsTrue, EvidenceIsExact, VerdictCleansUp, bucket
<1>2. CASE Finish
  BY <1>2 DEF Finish, DeletesDone, End, CanaryInv, TypeOK, Keys, NotOver, PutsAreKnown,
     DeletesAreKnown, AnswersAreKnown, VerdictIsTrue, EvidenceIsExact, VerdictCleansUp, bucket
<1>3. CASE UNCHANGED probeVars
  BY <1>3 DEF probeVars, CanaryInv, TypeOK, NotOver, PutsAreKnown, DeletesAreKnown, AnswersAreKnown,
     VerdictIsTrue, EvidenceIsExact, VerdictCleansUp
<1>4. QED
  BY <1>1, <1>2, <1>3, PuttingStep, DeletingStep DEF ProbeNext

LEMMA CanaryInvariance == ProbeSpec => []CanaryInv
BY CanaryInit, CanaryStep, PTL DEF ProbeSpec

-------------------------------------------------------------------------------
\* The types of S3CanaryProbe's variables (TypeOK).
THEOREM CanaryTypeCorrect == ProbeSpec => []TypeOK
<1>1. CanaryInv => TypeOK
  BY DEF CanaryInv
<1>2. QED
  BY <1>1, CanaryInvariance, PTL

\* A verdict's evidence accounts for every key: accepted are the keys that landed,
\* blocked all others (EvidenceIsExact), however many keys there are.
THEOREM ExactEvidence == ProbeSpec => []EvidenceIsExact
<1>1. CanaryInv => EvidenceIsExact
  BY DEF CanaryInv
<1>2. QED
  BY <1>1, CanaryInvariance, PTL

\* With a verdict, a canary is left only where deleting it raised
\* (VerdictCleansUp).
THEOREM CleanVerdict == ProbeSpec => []VerdictCleansUp
<1>1. CanaryInv => VerdictCleansUp
  BY DEF CanaryInv
<1>2. QED
  BY <1>1, CanaryInvariance, PTL

-------------------------------------------------------------------------------
\* Every step of the probe is a step the abstract canary audit allows, or none.
LEMMA CanarySimulation == CanaryInv /\ [ProbeNext]_probeVars => [Audit!Next]_(Audit!vars)
<1> SUFFICES ASSUME CanaryInv, [ProbeNext]_probeVars PROVE [Audit!Next]_(Audit!vars)
  OBVIOUS
<1> USE DEF Audit!Next, Audit!vars, bucket
<1>1. ASSUME NEW given \in BOOLEAN, Start(given) PROVE [Audit!Next]_(Audit!vars)
  <2>1. CASE given
    BY <1>1, <2>1 DEF Start
  <2>2. CASE ~given
    <3>1. {} \in SUBSET Keys /\ stored \in SUBSET (stored \cup {}) /\ landed = landed \cup {}
      OBVIOUS
    <3>2. Audit!GiveUp
      BY <1>1, <2>2, <3>1 DEF Start, End, Audit!GiveUp, CanaryInv, NotOver
    <3>3. QED
      BY <3>2
  <2>3. QED
    BY <2>1, <2>2
<1>2. CASE PutAccepted
  <2>1. Audit!Write(next)
    BY <1>2 DEF PutAccepted, Putting, Land, Audit!Write, CanaryInv, NotOver
  <2>2. QED
    BY <1>2, <2>1 DEF PutAccepted, Putting
<1>3. CASE PutRejected \/ PutsDone
  BY <1>3 DEF PutRejected, PutsDone
<1>4. CASE PutFails
  <2>1. {next} \in SUBSET Keys /\ {} \in SUBSET Keys
    BY <1>4 DEF PutFails, Putting
  <2>2. Audit!GiveUp
    BY <1>4, <2>1 DEF PutFails, Putting, PutMayLand, Land, End, Audit!GiveUp, CanaryInv, NotOver
  <2>3. QED
    BY <2>2
<1>5. ASSUME NEW k \in Keys, Delete(k) PROVE [Audit!Next]_(Audit!vars)
  <2>1. Audit!Remove(k)
    BY <1>5 DEF Delete, Deleting, Audit!Remove, CanaryInv, NotOver
  <2>2. QED
    BY <2>1
<1>6. ASSUME NEW k \in Keys, DeleteSuppressed(k) PROVE [Audit!Next]_(Audit!vars)
  <2>1. Audit!Remove(k) \/ UNCHANGED Audit!vars
    BY <1>6 DEF DeleteSuppressed, Deleting, DeleteMayHold, Audit!Remove, CanaryInv, NotOver
  <2>2. QED
    BY <2>1
<1>7. ASSUME NEW k \in Keys, DeleteFails(k) PROVE [Audit!Next]_(Audit!vars)
  <2>1. {} \in SUBSET Keys /\ stored' \in SUBSET (stored \cup {})
    BY <1>7 DEF DeleteFails, DeleteMayHold
  <2>2. Audit!GiveUp
    BY <1>7, <2>1 DEF DeleteFails, Deleting, DeleteMayHold, End, Audit!GiveUp, CanaryInv, NotOver
  <2>3. QED
    BY <2>2
<1>8. CASE Finish
  <2>1. Audit!Decide
    BY <1>8 DEF Finish, DeletesDone, End, Audit!Decide, CanaryInv, NotOver, AnswersAreKnown
  <2>2. QED
    BY <2>1
<1>9. CASE UNCHANGED probeVars
  BY <1>9 DEF probeVars
<1>10. QED
  BY <1>1, <1>2, <1>3, <1>4, <1>5, <1>6, <1>7, <1>8, <1>9 DEF ProbeNext

\* The safety half of ImplementsAudit: what the check reports is what CanaryAudit
\* allows, a PASS only if no canary ever landed and a FAIL only if one did.
THEOREM CanaryVerdictsAreTrue == ProbeSpec => Audit!Init /\ [][Audit!Next]_(Audit!vars)
<1>1. ProbeInit => Audit!Init
  BY DEF ProbeInit, Audit!Init
<1>2. QED
  BY <1>1, CanarySimulation, CanaryInvariance, PTL DEF ProbeSpec
===============================================================================
