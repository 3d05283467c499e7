----------------------------- MODULE HostVerifier -----------------------------
(***************************************************************************)
(* verify(evidence, baseline, nonce): the library call behind the host     *)
(* platform and behind an attest-then-enroll gate.  It reads the baseline  *)
(* section and its switches, checks the chain, parses the evidence and     *)
(* evaluates the other controls in turn; anything that goes wrong on the   *)
(* way becomes a verdict in which every control failed.                    *)
(*                                                                         *)
(* An input is [kind, section, base, certs, parses, body, supplied, log,   *)
(* nonce]: section is what the baseline has for the kind ("object",        *)
(* "missing" or "malformed"), body the report or quote (HostControls).     *)
(***************************************************************************)
EXTENDS HostControls

CONSTANTS
  Inputs,        \* the inputs considered
  Empty,         \* kind -> the section with no key at all
  Attesting,     \* keys that hardware holds and uses for nothing but attestation
  Certified,     \* keys the owner of the pinned root certified, Attesting or not
  GoodHosts      \* inputs with a baseline that fits the host

\* The keys the code looks up in a section, and the pins that are numbers.
SectionKeys(kind) ==
  Switches(kind) \cup {"trusted_roots_sha256"} \cup
    IF kind = "sev-snp"
    THEN {"max_vmpl", "min_policy_abi", "min_tcb", "min_guest_svn", "measurements", "host_data"}
    ELSE {"min_firmware_version", "pcrs"}
Floor(kind) == IF kind = "sev-snp" THEN "min_tcb" ELSE "min_firmware_version"
Version(in) == IF in.kind = "sev-snp" THEN in.body.tcb ELSE in.body.firmware

ASSUME InputsAssumption ==
  \A in \in Inputs :
    /\ in.kind \in {"sev-snp", "tpm2"}
    /\ in.section \in {"object", "missing", "malformed"}
    /\ in.parses \in BOOLEAN
    /\ DOMAIN in.base = SectionKeys(in.kind)
    /\ \A key \in Switches(in.kind) : in.base[key] \in BOOLEAN \cup {Absent} \cup Mistyped
    /\ in.base[Floor(in.kind)] \in
         IF in.kind = "sev-snp"
         THEN {Absent} \cup Mistyped \cup [version : Nat \cup {Absent} \cup Mistyped]
         ELSE {Absent} \cup Mistyped \cup Nat
    /\ Version(in) \in Nat
ASSUME EmptyAssumption ==
  \A kind \in {"sev-snp", "tpm2"} : Empty[kind] = [key \in SectionKeys(kind) |-> Absent]
ASSUME AbsentAssumption == Absent \notin Nat \cup BOOLEAN \cup Mistyped
ASSUME MistypedAssumption ==
  /\ \A x \in Mistyped : x \notin Nat \cup BOOLEAN
  /\ Junk \notin Falsy \cup DOMAIN NumberIn \cup DOMAIN MembersOf
  /\ \A x \in DOMAIN NumberIn : NumberIn[x] \in Nat
  /\ \A x \in DOMAIN MembersOf : MembersOf[x] \notin {Absent, Junk}

VARIABLES input, pc, results

vars == <<input, pc, results>>

\* CONTROLS; the chain is evaluated before the others.
Controls == <<"chain", "signature", "nonce", "debug", "tcb", "measurement">>
ControlNames == {Controls[i] : i \in DOMAIN Controls}

\* policy.section: a baseline without the section is an empty one.
Policy(in) == IF in.section = "missing" THEN Empty[in.kind] ELSE in.base

\* One control of evaluate().
Evaluate(in, name) ==
  IF in.kind = "sev-snp"
  THEN SnpControl(name, in.body, in.certs[1], Policy(in), in.nonce)
  ELSE TpmControl(name, in.body, in.supplied, in.log, in.certs[1], Policy(in), in.nonce)

\* _failed: every control failed, whatever was evaluated before.
Failed == [c \in ControlNames |-> "fail"]

\* Mutant: what was evaluated is kept, the rest failed.
DenyTheRest ==
  /\ pc' = "done"
  /\ results' = [c \in ControlNames |-> IF c \in DOMAIN results THEN results[c] ELSE "fail"]

Deny == pc' = "done" /\ results' = Failed

\* HostVerdict.allowed
VerdictAllows == pc = "done" /\ \A c \in ControlNames : results[c] = "pass"

-------------------------------------------------------------------------------
Init ==
  /\ input \in Inputs
  /\ pc = "policy"
  /\ results = <<>>

\* section() and check_switches(); an error of theirs reaches verify()'s handler.
ReadPolicy ==
  /\ pc = "policy"
  /\ IF \/ input.section = "malformed"
        \/ SwitchesRaise(Policy(input), input.kind)
     THEN Deny
     ELSE pc' = "chain" /\ UNCHANGED results
  /\ UNCHANGED input

\* No certificates is a verdict of its own; otherwise verify_chain's is kept.
CheckChain ==
  /\ pc = "chain"
  /\ LET chain == VerifyChain(input.certs, Policy(input).trusted_roots_sha256,
                              input.kind = "tpm2")
     IN  IF input.certs = <<>> \/ chain = "raise"
         THEN Deny
         ELSE pc' = "parse" /\ results' = [c \in {"chain"} |-> chain]
  /\ UNCHANGED input

\* parse_report, or parse_quote, parse_signature and replay_event_log.
ParseEvidence ==
  /\ pc = "parse"
  /\ IF input.parses
     THEN pc' = "evaluate" /\ UNCHANGED results
     ELSE Deny
  /\ UNCHANGED input

\* The controls in order; one that raises denies with the results so far lost.
EvaluateControl ==
  /\ pc = "evaluate"
  /\ LET name    == Controls[Cardinality(DOMAIN results) + 1]
         outcome == Evaluate(input, name)
     IN  IF outcome = "raise"
         THEN Deny
         ELSE /\ results' = [c \in DOMAIN results \cup {name} |->
                               IF c = name THEN outcome ELSE results[c]]
              /\ pc' = IF DOMAIN results' = ControlNames THEN "done" ELSE "evaluate"
  /\ UNCHANGED input

Next == ReadPolicy \/ CheckChain \/ ParseEvidence \/ EvaluateControl

\* verify() is a call that runs on its own.
Spec == Init /\ [][Next]_vars /\ WF_vars(Next)

-------------------------------------------------------------------------------
\* Properties

\* Keys whose value is a number, an object with versions, a list; and those for
\* which a false value of any type is the same as none (`or {}`, `or []`).
Numbers == {"max_vmpl", "min_guest_svn", "min_firmware_version"}
Versioned == {"min_tcb", "min_policy_abi"}
Lists == {"trusted_roots_sha256", "measurements"}
OrEmpty == Lists \cup {"min_tcb", "pcrs"}

\* A value of the wrong type is taken for one of the right type where int() makes a
\* number of it, or where its members are asked for; else it is misread.
Misread(key, x) ==
  \/ /\ x \in Mistyped
     /\ ~(key \in Numbers /\ x \in DOMAIN NumberIn)
     /\ ~(key \in Lists /\ x \in DOMAIN MembersOf)
  \/ /\ key \in Versioned /\ x \notin Mistyped \cup {Absent}
     /\ x.version \in Mistyped \ DOMAIN NumberIn

\* The section is no object, or some key of it has a value that is misread.
Malformed(in) ==
  \/ in.section = "malformed"
  \/ in.section = "object" /\ \E key \in DOMAIN in.base : Misread(key, in.base[key])

\* What is malformed and is not merely a false value that is the same as none.
Unreadable(in) ==
  \/ in.section = "malformed"
  \/ /\ in.section = "object"
     /\ \E key \in DOMAIN in.base :
          Misread(key, in.base[key]) /\ ~(key \in OrEmpty /\ in.base[key] \in Falsy)

\* The key behind the evidence is one the pinned root's owner vouched for; for
\* a TPM, one that signs nothing but attestations unless the baseline says
\* that does not matter.  Nothing here looks at the chain that was supplied.
GenuineSigner(in) ==
  in.body.by \in IF in.kind = "tpm2" /\ ~Flag(Policy(in), "require_ak_eku")
                 THEN Certified ELSE Attesting

Fresh(in) == in.nonce # Absent /\ in.nonce.long /\ in.body.nonce = in.nonce.value

\* What the operator pinned, said of the host: of the guest the chip reports,
\* and of the values the TPM's registers held, not of those handed over.  A number
\* or list of the wrong type pins what int() and iteration make of it, and a
\* min_tcb that names no known version pins none.
GoodGuest(in) ==
  LET r == in.body  base == Policy(in) IN
  /\ base.min_tcb # Absent
  /\ base.min_tcb.version # Absent => r.tcb >= AsNumber(base.min_tcb.version)
  /\ base.measurements # Absent /\ r.measurement \in AsList(base.measurements)
  /\ r.debug => base.allow_debug = TRUE
  /\ r.migrate => base.allow_migration_agent = TRUE

GoodBoot(in) ==
  LET q == in.body  base == Policy(in) IN
  /\ base.min_firmware_version # Absent
  /\ q.firmware >= AsNumber(base.min_firmware_version)
  /\ base.pcrs # Absent /\ \A p \in DOMAIN base.pcrs : q.values[p] = base.pcrs[p]
  /\ in.log # Absent
  /\ 7 \in DOMAIN in.log.replayed /\ in.log.replayed[7] = q.values[7]
  /\ base.require_secure_boot # FALSE => in.log.secureBoot = "on"

Trustworthy(in) ==
  /\ in.section = "object" /\ ~Malformed(in)
  /\ GenuineSigner(in)
  /\ Fresh(in)
  /\ IF in.kind = "sev-snp" THEN GoodGuest(in) ELSE GoodBoot(in)

\* The certificates lead from the leaf up to a pinned root, each issued by the next
\* and, on a TPM, by a CA.
UpToPinnedRoot(in) ==
  LET certs == in.certs  n == Len(in.certs)
      roots == AsList(Policy(in).trusted_roots_sha256)
  IN
  /\ n > 0 /\ roots \notin {Absent, Junk} /\ certs[n] \in roots
  /\ \A i \in 1..n : certs[i].valid
  /\ \A i \in 1..n - 1 : IssuedBy(certs[i], certs[i + 1])
  /\ in.kind = "tpm2" => \A i \in 2..n : certs[i].ca

\* What a pinned root stands for: whoever signed under the leaf of a chain up to
\* it holds a key its owner certified, and one that does nothing but attest if it
\* is a chip's or its certificate says so.
RootsVouch ==
  \A in \in Inputs :
    UpToPinnedRoot(in) /\ in.body.by = in.certs[1].key
    => /\ in.body.by \in Certified
       /\ in.kind = "sev-snp" \/ in.certs[1].eku => in.body.by \in Attesting

\* The gate sees of the evidence only whether it is trustworthy.
Gate == INSTANCE HostGate WITH
  Evidence <- BOOLEAN, Allowed <- {TRUE}, evidence <- Trustworthy(input),
  decision <- IF pc # "done" THEN "pending" ELSE IF VerdictAllows THEN "allow" ELSE "deny"

\* verify() decides, and it lets a host in only on evidence that a genuine key
\* signed for this nonce and that says what the operator pinned.
ImplementsGate == Gate!Spec

\* A switch of the wrong type denies, and so does a pin of the wrong type unless
\* Python takes it for one of the right type (int() of a boolean, a numeric string
\* or a fraction; an object's keys or a string's characters for a list), wherever
\* it is and whatever the evidence (policy.py:21-22, verify.py:195): no control may
\* overlook it, and an empty string or a false for an object or list pins nothing.
MalformedBaselineDenies == Malformed(input) => ~VerdictAllows

\* A verdict of which one part could not be evaluated has no passing part: no
\* caller can read a pass out of a call that failed half-way.
HalfAVerdictPassesNothing ==
  pc = "done" /\ (~input.parses \/ Unreadable(input)) =>
    \A c \in ControlNames : results[c] # "pass"

\* A host on which every control passes, on a baseline that is there.
Good(in) ==
  /\ in.section = "object" /\ ~SwitchesRaise(in.base, in.kind)
  /\ in.certs # <<>> /\ in.parses
  /\ VerifyChain(in.certs, in.base.trusted_roots_sha256, in.kind = "tpm2") = "pass"
  /\ \A c \in ControlNames \ {"chain"} : Evaluate(in, c) = "pass"
GoodHostsPass == GoodHosts \subseteq Inputs /\ \A good \in GoodHosts : Good(good)

\* The keys that have to be there, and the switches whose default turns hosts
\* away: they may be left out where they are set to it.
Required == {"trusted_roots_sha256", "min_tcb", "measurements", "min_firmware_version", "pcrs"}
StrictByDefault ==
  {"allow_debug", "allow_migration_agent", "require_ak_eku", "require_secure_boot"}

\* The same host, with keys left out of the baseline that may be.
LeavesOut(in, good) ==
  /\ \A f \in {"kind", "section", "certs", "parses", "body", "supplied", "log", "nonce"} :
       in[f] = good[f]
  /\ \A key \in SectionKeys(good.kind) : in.base[key] # good.base[key] =>
       /\ in.base[key] = Absent /\ key \notin Required
       /\ key \in StrictByDefault => good.base[key] = Defaults[key]

\* A good host is allowed, and stays so when the operator leaves out a switch or an
\* optional pin: their defaults (policy.py:9-15) never turn it away.
GoodHostIsAllowed ==
  pc = "done" => \A good \in GoodHosts : LeavesOut(input, good) => VerdictAllows
===============================================================================
