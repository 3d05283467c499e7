---------------------------- MODULE MCHostVerifier ----------------------------
(* A good SEV-SNP host (a VCEK's report and a VLEK's) and a good TPM host,   *)
(* and every input that differs from one of them in at most two places; two  *)
(* hosts that a looser baseline lets in, and what differs from them in one.  *)
EXTENDS HostVerifier, TLC

CONSTANTS False, True, Two, Text, Blank, Roots, Images

Cert(key, by) ==
  [key |-> key, by |-> by, valid |-> TRUE, ca |-> TRUE, eku |-> FALSE,
   tcb |-> Absent, hwid |-> Absent]
Hardware(key, by, tcb, hwid) == [Cert(key, by) EXCEPT !.ca = FALSE, !.tcb = tcb, !.hwid = hwid]

ARK == [Cert("ark", "ark") EXCEPT !.ca = FALSE]   \* AMD's carry no CA constraint
ASK == [Cert("ask", "ark") EXCEPT !.ca = FALSE]
VCEK == Hardware("vcek", "ask", 2, "chip 1")
OldVCEK == Hardware("vcek at 1", "ask", 1, "chip 1")
VLEK == Hardware("vlek", "ask", 2, Absent)
OtherRoot == Cert("other root", "other root")
OtherVCEK == Hardware("other", "other root", 2, "chip 1")
UnissuedVCEK == [OtherVCEK EXCEPT !.by = "other"]

SnpChains ==
  {<<VCEK, ASK, ARK>>, <<OldVCEK, ASK, ARK>>, <<VLEK, ASK, ARK>>, <<>>,
   <<VCEK, ARK>>, <<VCEK, ASK>>, <<ARK>>, <<OtherVCEK, OtherRoot>>,
   <<UnissuedVCEK, ASK, ARK>>, <<OtherVCEK, OtherRoot, ARK>>,
   <<[VCEK EXCEPT !.valid = FALSE], ASK, ARK>>, <<VCEK, ASK, [ARK EXCEPT !.valid = FALSE]>>}

TpmCA == Cert("tpm ca", "tpm ca")
AK == [Cert("ak", "tpm ca") EXCEPT !.ca = FALSE, !.eku = TRUE]
Device == [Cert("device", "tpm ca") EXCEPT !.ca = FALSE]  \* another key of the CA's
UnderDevice == [Cert("other", "device") EXCEPT !.ca = FALSE, !.eku = TRUE]
OtherAK == [AK EXCEPT !.key = "other", !.by = "other root"]

TpmChains ==
  {<<AK, TpmCA>>, <<Device, TpmCA>>, <<>>, <<UnderDevice, Device, TpmCA>>,
   <<OtherAK, OtherRoot>>, <<OtherAK, TpmCA>>, <<AK>>, <<TpmCA>>,
   <<[AK EXCEPT !.valid = FALSE], TpmCA>>}

\* JSON's false, true, "2", "text" and "", and objects with digests for keys.
MCFalsy == {False, Blank}
MCNumberIn == False :> 0 @@ True :> 1 @@ Two :> 2
MCMembersOf ==
  Two :> {} @@ Text :> {} @@ Roots :> {ARK, TpmCA} @@ Images :> {"m1"}

MCAttesting == {"vcek", "vcek at 1", "vlek", "ak"}
MCCertified == MCAttesting \cup {"device"}
Keys == MCCertified \cup {"other"}

Nonces ==
  {Absent, [long |-> FALSE, value |-> "n1"], [long |-> TRUE, value |-> "n2"]}
GoodNonce == [long |-> TRUE, value |-> "n1"]

-------------------------------------------------------------------------------
GoodReport ==
  [by |-> "vcek", algo |-> "ecdsa-p384-sha384", mask |-> FALSE, signing |-> "vcek",
   tcb |-> 2, chip |-> "chip 1", debug |-> FALSE, migrate |-> FALSE, smt |-> TRUE,
   single |-> TRUE, vmpl |-> 1, abi |-> 1, svn |-> 1, nonce |-> "n1",
   measurement |-> "m1", hostData |-> "h1"]
ReportAlts ==
  [by |-> Keys, algo |-> {"other"}, mask |-> {TRUE}, signing |-> {"vlek", "none", "reserved"},
   tcb |-> {1}, chip |-> {"chip 2"}, debug |-> {TRUE}, migrate |-> {TRUE}, smt |-> {FALSE},
   single |-> {FALSE}, vmpl |-> {2}, abi |-> {0}, svn |-> {0}, nonce |-> {"n2"},
   measurement |-> {"m2"}, hostData |-> {"h2"}]
GoodSnpBase ==
  [trusted_roots_sha256 |-> {ARK}, allow_debug |-> FALSE, allow_migration_agent |-> FALSE,
   allow_smt |-> TRUE, require_single_socket |-> TRUE, max_vmpl |-> 1,
   min_policy_abi |-> [version |-> 1], min_tcb |-> [version |-> 2], min_guest_svn |-> 1, measurements |-> {"m1", "m3"}, host_data |-> "h1"]
\* Values of the wrong type that tell one reader from another.
MistypedAt(key) ==
  CASE key \in Numbers -> {Blank, False, True, Two}
    [] key \in Lists -> {False, True, Text, IF key = "measurements" THEN Images ELSE Roots}
    [] key \in OrEmpty \cup Versioned -> {Junk, False}
    [] OTHER -> {Junk, True}
Versions == [version : {1, 2, Absent, True, Two, Text}]
SnpBaseAlts ==
  [key \in DOMAIN GoodSnpBase |->
     {Absent} \cup MistypedAt(key) \cup
       CASE key \in Switches("sev-snp") -> BOOLEAN
         [] key \in Versioned -> Versions
         [] key \in Numbers -> 1..2
         [] OTHER -> {}]

Value == [p \in {0, 7, 8} |-> CASE p = 0 -> "v0" [] p = 7 -> "v7" [] p = 8 -> "v8"]
GoodQuote ==
  [by |-> "ak", hash |-> "sha256", nonce |-> "n1", firmware |-> 2, safe |-> TRUE,
   covers |-> {0, 7}, values |-> [p \in {0, 7, 8} |-> Value[p]]]
QuoteAlts ==
  [by |-> Keys, hash |-> {"sha1", "sm3"}, nonce |-> {"n2"}, firmware |-> {1}, safe |-> {FALSE},
   covers |-> SUBSET {0, 7, 8},
   values |-> {[GoodQuote.values EXCEPT ![p] = "w"] : p \in {0, 7}}]
GoodPcrs == [p \in {0, 7} |-> Value[p]]
Pcrs ==
  {GoodPcrs, [p \in {0} |-> "v0"], [p \in {7} |-> "v7"], <<>>, [GoodPcrs EXCEPT ![0] = "w"],
   [GoodPcrs EXCEPT ![7] = "w"], [p \in {0, 7, 8} |-> Value[p]]}
GoodLog == [replayed |-> GoodPcrs, secureBoot |-> "on", unbound |-> FALSE, conflict |-> FALSE]
LogAlts ==
  [replayed |-> Pcrs, secureBoot |-> {"off", "unmeasured"}, unbound |-> {TRUE}, conflict |-> {TRUE}]
GoodTpmBase ==
  [trusted_roots_sha256 |-> {TpmCA}, require_ak_eku |-> TRUE, require_clock_safe |-> TRUE,
   require_secure_boot |-> TRUE, min_firmware_version |-> 2, pcrs |-> GoodPcrs]
TpmBaseAlts ==
  [key \in DOMAIN GoodTpmBase |->
     {Absent} \cup MistypedAt(key) \cup
       CASE key \in Switches("tpm2") -> BOOLEAN
         [] key \in Numbers -> 0..2
         [] key = "pcrs" -> Pcrs
         [] OTHER -> {}]

MCEmpty ==
  [kind \in {"sev-snp", "tpm2"} |->
     IF kind = "sev-snp" THEN [key \in DOMAIN GoodSnpBase |-> Absent]
     ELSE [key \in DOMAIN GoodTpmBase |-> Absent]]

-------------------------------------------------------------------------------
GoodSnp ==
  [kind |-> "sev-snp", section |-> "object", base |-> GoodSnpBase,
   certs |-> <<VCEK, ASK, ARK>>, parses |-> TRUE, body |-> GoodReport,
   supplied |-> <<>>, log |-> Absent, nonce |-> GoodNonce]
GoodVlek ==
  [GoodSnp EXCEPT !.certs = <<VLEK, ASK, ARK>>, !.body.by = "vlek", !.body.signing = "vlek",
                  !.body.chip = "chip 2"]
GoodTpm ==
  [kind |-> "tpm2", section |-> "object", base |-> GoodTpmBase,
   certs |-> <<AK, TpmCA>>, parses |-> TRUE, body |-> GoodQuote,
   supplied |-> GoodPcrs, log |-> GoodLog, nonce |-> GoodNonce]

\* One place of an input that differs: <<part, key, value>>.
Of(part, alts) == UNION {{<<part, key, x>> : x \in alts[key]} : key \in DOMAIN alts}
Whole(part, values) == {<<part, "", x>> : x \in values}
Deviations ==
  Of("report", ReportAlts) \cup Of("quote", QuoteAlts) \cup Of("log", LogAlts)
    \cup Of("sev-snp", SnpBaseAlts) \cup Of("tpm2", TpmBaseAlts)
    \cup Whole("chain", SnpChains) \cup Whole("ak chain", TpmChains)
    \cup Whole("nonce", Nonces) \cup Whole("section", {"missing", "malformed"})
    \cup Whole("parses", {FALSE}) \cup Whole("supplied", Pcrs) \cup Whole("no log", {Absent})
    \cup {<<"none", "", Absent>>}
Deviate(in, d) ==
  LET part == d[1]  key == d[2]  x == d[3]  snp == in.kind = "sev-snp" IN
  CASE part \in {"nonce", "section", "parses"} -> [in EXCEPT ![part] = x]
    [] part = in.kind -> [in EXCEPT !.base[key] = x]
    [] part = IF snp THEN "report" ELSE "quote" -> [in EXCEPT !.body[key] = x]
    [] part = IF snp THEN "chain" ELSE "ak chain" -> [in EXCEPT !.certs = x]
    [] part = "supplied" /\ ~snp -> [in EXCEPT !.supplied = x]
    [] part = "log" /\ in.log # Absent -> [in EXCEPT !.log[key] = x]
    [] part = "no log" -> [in EXCEPT !.log = x]
    [] OTHER -> in

Strictest == {GoodSnp, GoodVlek, GoodTpm}
\* Two on which the operator lets through what the default would not.
Loosened ==
  {[GoodSnp EXCEPT !.base.allow_debug = TRUE, !.body.debug = TRUE],
   [GoodTpm EXCEPT !.base.require_secure_boot = FALSE, !.log.secureBoot = "off"]}
MCGoodHosts == Strictest \cup Loosened
MCInputs ==
  {Deviate(Deviate(in, d), IF in \in Loosened THEN <<"none", "", Absent>> ELSE e) :
     in \in MCGoodHosts, d \in Deviations, e \in Deviations}

\* What the theorem FailsClosed assumes of pinned roots.
ASSUME RootsVouch

\* The hosts are good.
ASSUME GoodHostsPass
===============================================================================
