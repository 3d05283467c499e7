----------------------------- MODULE HostControls -----------------------------
(***************************************************************************)
(* The controls of the host verifier: certificate chain, SEV-SNP report    *)
(* and TPM2 quote, read against one section of the baseline.               *)
(*                                                                         *)
(* Signatures are symbolic.  A key is a model value; a certificate, report *)
(* or quote names the key that signed it (`by`), and the signature         *)
(* verifies under that key and no other; a key of the wrong kind is one    *)
(* under which it does not verify.  A name that does not match its issuer  *)
(* counts as a wrong `by`.  Numbers stand for versions.                    *)
(*                                                                         *)
(* Every control returns "pass", "fail", "none" (not assessed) or "raise". *)
(***************************************************************************)
EXTENDS Naturals, Sequences, FiniteSets

CONSTANTS
  Absent,     \* a baseline key not there or null, a nonce not given, no extension
  \* A baseline value of the wrong type:
  Junk,       \* one that every reader raises on
  Falsy,      \* those that count as false: false, or an empty string
  NumberIn,   \* those int() takes |-> the number it makes of them: false 0, true 1, "2" 2
  MembersOf   \* those one can iterate over |-> what that yields: a string's characters,
              \* none of them a digest, or an object's keys

Mistyped == {Junk} \cup Falsy \cup DOMAIN NumberIn \cup DOMAIN MembersOf

Given(x) == x # Absent
PassIf(condition) == IF condition THEN "pass" ELSE "fail"

\* Mutant: a value int() does not take counts as none.
AsNumberLenient(x) ==
  IF x \in DOMAIN NumberIn THEN NumberIn[x] ELSE IF x \in Mistyped THEN Absent ELSE x

\* int(x) where a number is asked for, `x or []` iterated over where a list is, and
\* `x or {}` looked into where an object is.
AsNumber(x) ==
  IF x \in DOMAIN NumberIn THEN NumberIn[x] ELSE IF x \in Mistyped THEN Junk ELSE x
AsList(x) ==
  IF x \in Falsy THEN Absent
  ELSE IF x \in DOMAIN MembersOf THEN MembersOf[x]
  ELSE IF x \in Mistyped THEN Junk ELSE x
AsObject(x) == IF x \in Falsy THEN Absent ELSE IF x \in Mistyped THEN Junk ELSE x

\* policy.flag and policy.SWITCHES: a boolean switch with its default.
Defaults ==
  [allow_debug |-> FALSE, allow_migration_agent |-> FALSE, allow_smt |-> TRUE,
   require_single_socket |-> FALSE, require_ak_eku |-> TRUE,
   require_clock_safe |-> FALSE, require_secure_boot |-> TRUE]
Switches(kind) ==
  IF kind = "sev-snp"
  THEN {"allow_debug", "allow_migration_agent", "allow_smt", "require_single_socket"}
  ELSE {"require_ak_eku", "require_clock_safe", "require_secure_boot"}
\* Mutant: a switch that is not there is off.
FlagOff(base, key) == IF base[key] = Absent THEN FALSE ELSE base[key]

Flag(base, key) == IF base[key] = Absent THEN Defaults[key] ELSE base[key]

\* check_switches raises if any switch of the kind is not a boolean.
SwitchesRaise(base, kind) == \E key \in Switches(kind) : base[key] \in Mistyped

-------------------------------------------------------------------------------
\* chain.verify_chain: leaf first, root last.  A cert is [key, by, valid, ca,
\* eku, tcb, hwid]; `valid` says whether now is in its validity window, and
\* the pinned fingerprints stand for the certificates they are taken of.

IssuedBy(cert, issuer) == cert.by = issuer.key

\* Mutant: the leaf's own issuer need not be a CA.
VerifyChainLoose(certs, pins, requireCa) ==
  LET n == Len(certs)  roots == AsList(pins) IN
  IF roots = Junk THEN "raise"
  ELSE PassIf(/\ n > 0
              /\ \A i \in 1..n : certs[i].valid
              /\ \A i \in 1..n - 1 : IssuedBy(certs[i], certs[i + 1])
              /\ IssuedBy(certs[n], certs[n])
              /\ requireCa => \A i \in 3..n : certs[i].ca
              /\ roots # Absent
              /\ certs[n] \in roots)

VerifyChain(certs, pins, requireCa) ==
  LET n == Len(certs)  roots == AsList(pins) IN
  IF roots = Junk THEN "raise"
  ELSE PassIf(/\ n > 0
              /\ \A i \in 1..n : certs[i].valid
              /\ \A i \in 1..n - 1 : IssuedBy(certs[i], certs[i + 1])
              /\ IssuedBy(certs[n], certs[n])
              /\ requireCa => \A i \in 2..n : certs[i].ca
              /\ roots # Absent
              /\ certs[n] \in roots)

-------------------------------------------------------------------------------
\* SEV-SNP.  A report is [by, algo, mask, signing, tcb, chip, debug, migrate,
\* smt, single, vmpl, abi, svn, nonce, measurement, hostData].

SnpSignature(r, signer) ==
  PassIf(/\ ~r.mask
         /\ r.signing \in {"vcek", "vlek"}
         /\ r.signing = "vcek" => Given(signer.hwid)
         /\ r.signing = "vlek" => ~Given(signer.hwid)
         /\ r.algo = "ecdsa-p384-sha384"
         /\ r.by = signer.key)

\* An optional floor or ceiling of the baseline.
Below(x, floor) == Given(floor) /\ x < floor
Above(x, ceiling) == Given(ceiling) /\ x > ceiling

\* At least MIN_NONCE_BYTES long (`long`) and carried exactly.
NonceControl(carried, nonce) ==
  IF nonce = Absent THEN "none"
  ELSE PassIf(nonce.long /\ carried = nonce.value)

\* min_tcb and min_policy_abi are objects [version] of versions, one of them here;
\* Absent as a version stands for an object that names none of those looked for.
VersionIn(object) == AsNumber(object.version)

\* min_abi["major"], min_abi["minor"]: both have to be there.
PolicyAbi(base) ==
  LET abi == base.min_policy_abi IN
  IF abi = Absent THEN Absent
  ELSE IF abi \in Mistyped \/ abi.version = Absent THEN Junk ELSE VersionIn(abi)

SnpDebug(r, base) ==
  LET maxVmpl == AsNumber(base.max_vmpl)  minAbi == PolicyAbi(base) IN
  IF Junk \in {maxVmpl, minAbi} THEN "raise"
  ELSE PassIf(/\ r.debug => Flag(base, "allow_debug")
              /\ r.migrate => Flag(base, "allow_migration_agent")
              /\ ~Above(r.vmpl, maxVmpl)
              /\ ~Below(r.abi, minAbi)
              /\ r.smt => Flag(base, "allow_smt")
              /\ Flag(base, "require_single_socket") => r.single)

SnpTcb(r, signer, base) ==
  LET floor  == AsObject(base.min_tcb)
      minTcb == IF floor \in {Absent, Junk} THEN floor ELSE VersionIn(floor)
      minSvn == AsNumber(base.min_guest_svn)
  IN
  IF Junk \in {minTcb, minSvn} THEN "raise"
  ELSE PassIf(/\ Given(floor)
              /\ ~Below(r.tcb, minTcb)
              /\ ~Below(r.svn, minSvn)
              /\ r.signing \in {"vcek", "vlek"}
              /\ signer.tcb = r.tcb
              /\ r.signing = "vcek" => signer.hwid = r.chip)

SnpMeasurement(r, base) ==
  LET pinned == AsList(base.measurements) IN
  IF pinned = Junk \/ base.host_data \in Mistyped THEN "raise"
  ELSE PassIf(/\ Given(pinned)
              /\ r.measurement \in pinned
              /\ Given(base.host_data) => r.hostData = base.host_data)

SnpControl(name, r, signer, base, nonce) ==
  CASE name = "signature"   -> SnpSignature(r, signer)
    [] name = "nonce"       -> NonceControl(r.nonce, nonce)
    [] name = "debug"       -> SnpDebug(r, base)
    [] name = "tcb"         -> SnpTcb(r, signer, base)
    [] name = "measurement" -> SnpMeasurement(r, base)

-------------------------------------------------------------------------------
\* TPM2.  A quote is [by, hash, nonce, firmware, safe, covers, values]: the
\* PCRs it selects and what they held.  `supplied` gives the PCR values handed
\* over with it, `log` what EventLogReplay makes of the event log: [replayed
\* (PCR -> value), secureBoot, unbound, conflict], or Absent.

TpmSignature(q, signer, base) ==
  PassIf(/\ Flag(base, "require_ak_eku") => signer.eku
         /\ q.hash \in {"sha256", "sha384", "sha512"}
         /\ q.by = signer.key)

\* check_secure_boot; one bank.
SecureBoot(q, supplied, log, base) ==
  IF log = Absent THEN "none"
  ELSE PassIf(/\ 7 \in q.covers
              /\ 7 \in DOMAIN log.replayed
              /\ 7 \in DOMAIN supplied
              /\ log.replayed[7] = supplied[7]
              /\ ~log.unbound
              /\ ~log.conflict
              /\ Flag(base, "require_secure_boot") => log.secureBoot = "on")

TpmTcb(q, base) ==
  LET floor == AsNumber(base.min_firmware_version) IN
  IF floor = Junk THEN "raise"
  ELSE PassIf(/\ Given(floor)
              /\ ~Below(q.firmware, floor)
              /\ Flag(base, "require_clock_safe") => q.safe)

\* quoted_pcr_digest: the supplied values of the quoted PCRs hash to the quote.
Binds(q, supplied) ==
  /\ q.covers \subseteq DOMAIN supplied
  /\ \A p \in q.covers : supplied[p] = q.values[p]

TpmMeasurement(q, supplied, log, base) ==
  LET pins == AsObject(base.pcrs) IN
  IF pins = Junk THEN "raise"
  ELSE PassIf(/\ Binds(q, supplied)
              /\ Given(pins)
              /\ DOMAIN pins # {}
              /\ \A p \in DOMAIN pins :
                   /\ p \in q.covers
                   /\ p \in DOMAIN supplied /\ supplied[p] = pins[p]
              /\ log # Absent =>
                   \A p \in q.covers \cap DOMAIN log.replayed :
                     p \in DOMAIN supplied /\ log.replayed[p] = supplied[p])

TpmControl(name, q, supplied, log, signer, base, nonce) ==
  CASE name = "signature"   -> TpmSignature(q, signer, base)
    [] name = "nonce"       -> NonceControl(q.nonce, nonce)
    [] name = "debug"       -> SecureBoot(q, supplied, log, base)
    [] name = "tcb"         -> TpmTcb(q, base)
    [] name = "measurement" -> TpmMeasurement(q, supplied, log, base)
===============================================================================
