----------------------------- MODULE ShellChecks -----------------------------
(***************************************************************************)
(* The Nitro checks that run a shell command on the parent instance        *)
(* through SSM: what each command prints on a host when its tools work,    *)
(* what is left of that when they do not, and what each check makes of an  *)
(* output.                                                                 *)
(*                                                                         *)
(* A host is, for one check, the set of facts its command can see.  An     *)
(* output is the set of its lines; the empty set is no output.  A line is  *)
(* abstracted to the token the check tells apart.  A JSON document holds   *)
(* the line "json" when it is complete; without it it does not parse.      *)
(***************************************************************************)
EXTENDS Naturals, FiniteSets

ShellIds ==
  {"SSH-01", "NAT-01", "PORT-01", "HOST-01", "HOST-02", "EXEC-01", "ENV-01",
   "VSOCK-01", "DNS-01", "CORE-01", "SWAP-01", "LOG-01", "RESTART-01",
   "ENCLAVE-01", "ENCLAVE-02", "ENCLAVE-03", "ENCLAVE-04"}

JsonIds == {"ENCLAVE-01", "ENCLAVE-02", "ENCLAVE-03", "ENCLAVE-04"}

\* The facts a command of the check may find, as sets that go together.
Facts ==
  [SSH       |-> SUBSET {"sshd active", "ec2ic"},
   NAT       |-> SUBSET {"imds dropped", "imds mentioned"},
   PORT      |-> SUBSET {"22", "443"},
   HOST1     |-> SUBSET {"key 644", "key 604", "eif 600"},
   HOST2     |-> SUBSET {"svc:root", "svc:enclave"},
   EXEC      |-> SUBSET {"entry", "other name"},
   LIST      |-> SUBSET {"entry"},
   CORE      |-> SUBSET {"core pattern", "hard limit"},
   LOG       |-> SUBSET {"journal 755", "group member", "adm member"},
   RESTART   |-> SUBSET {"always", "always+download", "no"},
   ENCLAVES  |-> {{}, {"nitro-cli"}} \cup
                 {{"nitro-cli"} \cup S : S \in SUBSET {"debug zeroed", "measured"} \ {{}}},
   EIF       |-> {{}, {"unsigned"}, {"signed"}, {"signed, does not verify"}, {"undescribed"},
                  {"signed", "running unsigned"}, {"unsigned", "running signed"}},
   ENV       |-> {{}, {"HTTPS_PROXY", "other bucket", ".env 600"}, {"harmless", ".env 600"},
                  {"harmless", ".env 644"}, {"harmless", ".env 664", "environment 644"}}]

HostFacts ==
  [c \in ShellIds |->
     CASE c = "SSH-01"     -> Facts.SSH
       [] c = "NAT-01"     -> Facts.NAT
       [] c = "PORT-01"    -> Facts.PORT
       [] c = "HOST-01"    -> Facts.HOST1
       [] c = "HOST-02"    -> Facts.HOST2
       [] c = "EXEC-01"    -> Facts.EXEC
       [] c = "CORE-01"    -> Facts.CORE
       [] c = "LOG-01"     -> Facts.LOG
       [] c = "RESTART-01" -> Facts.RESTART
       [] c = "ENV-01"     -> Facts.ENV
       [] c = "ENCLAVE-04" -> Facts.EIF
       [] c \in JsonIds \ {"ENCLAVE-04"} -> Facts.ENCLAVES
       [] OTHER            -> Facts.LIST]

-------------------------------------------------------------------------------
(***************************************************************************)
(* What a command prints on a host with facts F when its tools work and    *)
(* all of its output arrives.  `... || echo NONE` prints the word when the *)
(* pipeline fails; find, head, sort and swapon succeed with nothing to     *)
(* print.                                                                  *)
(***************************************************************************)
OrWord(F, word) == IF F = {} THEN {{word}} ELSE {F}
OrNothing(F, word) == IF F = {} THEN {{}, {word}} ELSE {F}

PrintsNat(F) == {IF F = {} THEN {"0"} ELSE {"1"}}
PrintsCore(F) ==
  {{IF "core pattern" \in F THEN "CORE_PATTERN=core" ELSE "CORE_PATTERN=|/bin/false",
    IF "hard limit" \in F THEN "ULIMIT_CORE=unlimited" ELSE "ULIMIT_CORE=0"}}
PrintsSsh(F) ==
  {{IF "sshd active" \in F THEN "SSH_STATUS=active" ELSE "SSH_STATUS=inactive",
    IF "ec2ic" \in F THEN "EC2IC_INSTALLED=1.1" ELSE "EC2IC_INSTALLED=not_installed"}}
PrintsLog(F) ==
  {{IF "journal 755" \in F THEN "JOURNAL_PERMS=755" ELSE "JOURNAL_PERMS=750",
    IF "group member" \in F THEN "JOURNAL_USERS=bob" ELSE "JOURNAL_USERS="}}
PrintsEnclaves(F) ==
  IF F = {} THEN {{"NOT_AVAILABLE"}} ELSE {(F \ {"nitro-cli"}) \cup {"json"}}
\* The image named by a process, else the first on disk: not always the one
\* that runs.
PrintsEif(F) ==
  CASE F = {} -> {{"NO_EIF"}}
    [] F = {"undescribed"} -> {{"DESCRIBE_FAILED"}}
    [] OTHER -> {(F \ {"running unsigned", "running signed"}) \cup {"json"}}

\* ENV-01's two commands: the contents of the files, then the modes of those
\* named environment.conf or *.env (but not of one named environment).
Modes == {".env 600", ".env 644", ".env 664", "environment 644"}
PrintsEnv(F) == OrNothing(F \ Modes, "NOT_FOUND")
PrintsModes(F) == OrWord(F \cap {".env 600", ".env 644", ".env 664"}, "UNKNOWN")

Prints(c, command, F) ==
  CASE c = "ENV-01"     -> IF command = 1 THEN PrintsEnv(F) ELSE PrintsModes(F)
    [] c = "NAT-01"     -> PrintsNat(F)
    [] c = "CORE-01"    -> PrintsCore(F)
    [] c = "SSH-01"     -> PrintsSsh(F)
    [] c = "LOG-01"     -> PrintsLog(F)
    [] c = "ENCLAVE-04" -> PrintsEif(F)
    [] c \in JsonIds \ {"ENCLAVE-04"} -> PrintsEnclaves(F)
    [] c = "PORT-01"    -> {F}
    [] c = "EXEC-01"    -> OrNothing(F \cap {"entry"}, "NOT_FOUND or NONE")
    [] c \in {"HOST-01", "HOST-02", "SWAP-01"} -> OrNothing(F, "NOT_FOUND or NONE")
    [] c = "RESTART-01" -> OrNothing(F, "NONE")
    [] OTHER            -> OrWord(F, "NONE")

(***************************************************************************)
(* What it prints when a tool of it is missing or fails, or `head` drops a *)
(* line.  The commands mask both (`2>/dev/null`, `|| echo NONE`, pipelines *)
(* that end in sort, awk, head or an echo) and end as if all had gone      *)
(* well: what the tool would have shown is missing, or stands for the      *)
(* empty word.                                                             *)
(***************************************************************************)
Masked(c, command, F) ==
  CASE c = "CORE-01"    -> {{"CORE_PATTERN=", "ULIMIT_CORE=0"}, {"CORE_PATTERN=", "ULIMIT_CORE="}}
    [] c = "LOG-01"     -> {{"JOURNAL_PERMS=none", "JOURNAL_USERS="}}
    [] c = "NAT-01"     -> {{"0"}}
    [] c = "HOST-02"    -> {{}, {"svc:root"}}
    [] c = "RESTART-01" -> {{}, {"svc::none"}}
    [] c = "ENCLAVE-04" -> {{"NO_EIF"}, {"DESCRIBE_FAILED"}, {"signed", "json"}, {"unsigned", "json"}}
    [] c \in JsonIds \ {"ENCLAVE-04"} -> {{"NOT_AVAILABLE"}, {"truncated"}}
    [] OTHER            -> UNION {Prints(c, command, seen) : seen \in SUBSET F}

\* A line cut in the middle may say something else than it did: a service
\* without its user, a bucket name without its end.
Halves(out) ==
  {half \in {"svc:root", "other bucket"} :
     (IF half = "svc:root" THEN "svc:enclave" ELSE "harmless") \in out}

\* What is left of an output whose command was killed while it printed, or
\* which SSM truncated (it returns the first 24000 characters).
Cut(out) == IF "json" \in out THEN {{}, {"truncated"}} ELSE SUBSET (out \cup Halves(out))

Partial(c, command, F) ==
  Masked(c, command, F) \cup
  UNION {Cut(out) : out \in Prints(c, command, F) \cup Masked(c, command, F)}

-------------------------------------------------------------------------------
(***************************************************************************)
(* What each check makes of the output of a finished command.              *)
(***************************************************************************)
FailIf(condition) == IF condition THEN "FAIL" ELSE "PASS"
Sentinel == {"NONE", "NOT_FOUND", "NOT_FOUND or NONE"}
Listed(out) == out \ Sentinel

SshHardening(out) == FailIf({"SSH_STATUS=active", "EC2IC_INSTALLED=1.1"} \cap out # {})
\* No count, or one that does not parse, is no rule.
NatEgress(out) == FailIf("1" \notin out)
OpenPorts(out) == FailIf(out # {})
HostPermissions(out) == FailIf("key 644" \in out)
HostServices(out) == FailIf("svc:root" \in out)
ExecPermissions(out) == FailIf(Listed(out) # {})
VsockExposure(out) == FailIf(Listed(out) # {})
DnsDnat(out) == FailIf(Listed(out) # {})
CoreDump(out) == FailIf({"CORE_PATTERN=core", "ULIMIT_CORE=unlimited"} \cap out # {})
SwapExposure(out) == FailIf(Listed(out) # {})
LogExposure(out) == FailIf({"JOURNAL_PERMS=755", "JOURNAL_USERS=bob"} \cap out # {})
\* The download hint is collected but not looked at.
RestartPersistence(out) == FailIf({"always", "always+download"} \cap out # {})

Enclaves(out) == out \ {"json"}
EnclaveDebug(out) ==
  IF "json" \notin out \/ Enclaves(out) = {} THEN "ERROR"
  ELSE FailIf("debug zeroed" \in out)
EnclavePcr(out) ==
  IF "json" \notin out \/ Enclaves(out) = {} THEN "ERROR"
  ELSE FailIf("debug zeroed" \in out)
\* No enclave running is no co-tenant.
EnclaveCotenant(out) ==
  IF "json" \notin out THEN "ERROR" ELSE FailIf(Cardinality(Enclaves(out)) > 1)
EnclaveSigned(out) ==
  IF "json" \notin out THEN "ERROR"
  ELSE FailIf({"unsigned", "signed, does not verify"} \cap out # {})

\* ENV-01 judges the contents and the modes together.
EnvVarSemantic(out, modes) ==
  FailIf({"HTTPS_PROXY", "other bucket"} \cap out # {} \/ ".env 644" \in modes)

\* The finding of check c; `modes` is the second output, of ENV-01 only.
Judge(c, out, modes) ==
  CASE c = "SSH-01"     -> SshHardening(out)
    [] c = "NAT-01"     -> NatEgress(out)
    [] c = "PORT-01"    -> OpenPorts(out)
    [] c = "HOST-01"    -> HostPermissions(out)
    [] c = "HOST-02"    -> HostServices(out)
    [] c = "EXEC-01"    -> ExecPermissions(out)
    [] c = "VSOCK-01"   -> VsockExposure(out)
    [] c = "DNS-01"     -> DnsDnat(out)
    [] c = "CORE-01"    -> CoreDump(out)
    [] c = "SWAP-01"    -> SwapExposure(out)
    [] c = "LOG-01"     -> LogExposure(out)
    [] c = "RESTART-01" -> RestartPersistence(out)
    [] c = "ENCLAVE-01" -> EnclaveDebug(out)
    [] c = "ENCLAVE-02" -> EnclavePcr(out)
    [] c = "ENCLAVE-03" -> EnclaveCotenant(out)
    [] c = "ENCLAVE-04" -> EnclaveSigned(out)
    [] c = "ENV-01"     -> EnvVarSemantic(out, modes)

\* ENV-01 sends its second command unless there was nothing to read.
SendsSecond(c, out) == c = "ENV-01" /\ out # {"NOT_FOUND"}
===============================================================================
