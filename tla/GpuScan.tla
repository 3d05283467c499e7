------------------------------- MODULE GpuScan -------------------------------
(***************************************************************************)
(* `untrust scan --platform gpu-cc`: the 18 GPUCC-* checks in the order of *)
(* their registry, file read by file read.  Every check opens its files    *)
(* anew, some of them twice, while the evidence directory may be refreshed *)
(* file by file from another capture.  GPUCC-MODEL-01 is given no bucket   *)
(* (ObjectStoreProbe models it) and skips.                                 *)
(*                                                                         *)
(* The scan implements ScanRunner over the checks of GpuCcRegistry, which  *)
(* leaves open what they return.                                           *)
(***************************************************************************)
EXTENDS Sequences, GpuReceipts

CONSTANTS
  NotGiven,    \* the option that names the file is not given
  NotThere,    \* there is no such file
  Garbled,     \* the file holds no JSON object
  Directories, \* what the evidence files may hold when the scan starts
  Versions,    \* file -> what it may be replaced with
  MaxRefreshes,\* bound: how often a file is replaced during a scan
  Refreshable, \* bound: the directories whose files are replaced during a scan
  Successes    \* the raw results nvattest wrote for a GPU it attested

Files == {"report", "policy", "raw", "run_receipt", "run_raw", "kbs", "launch", "mode", "bucket"}

ASSUME DirectoriesAssumption ==
  \A d \in Directories :
    /\ DOMAIN d = Files /\ d.bucket = NotGiven
    /\ NotGiven \notin {d.raw, d.run_receipt, d.run_raw}
ASSUME VersionsAssumption ==
  /\ DOMAIN Versions \subseteq Files \ {"bucket"}
  /\ \A f \in DOMAIN Versions : NotGiven \notin Versions[f]
\* What a check may find in a field; a field that is left out holds none of it.
Texts ==
  {"0", "1", "2", "v1", "on", "true", "false", "text", "H100", "tdx", "sev-snp", "cca",
   "safetensors", "tee", "kbs", "90", "admin", "nobody", "nvattest"}
ASSUME AbsentAssumption == Absent \notin Texts
ASSUME BoundAssumption == MaxRefreshes \in Nat

\* What a file may come to hold.
Held(f) ==
  {d[f] : d \in Directories} \cup (IF f \in DOMAIN Versions THEN Versions[f] ELSE {})

\* The files without which a check is an ERROR; the receipts' are optional.
Documents == {"report", "policy", "kbs", "launch"}

\* The fields of a document; one that holds an object or a list has an empty one where
\* the document has none.
Fields(document) ==
  CASE document = "report" ->
         {"measurements", "sig_verified", "ueid", "uuid", "verification", "cuda"}
           \cup UNION {DOMAIN AttestationWants, DOMAIN VramWants, DOMAIN DmaWants,
                       DOMAIN CvmWants, DOMAIN BindWants}
    [] document = "policy" ->
         {"verify_signature", "required_measurements", "pinned_measurements",
          "expected_measurements"}
           \cup UNION {DOMAIN CertWants, DOMAIN ReattestWants, DOMAIN FailOpenWants}
    [] document = "kbs" ->
         UNION {DOMAIN ReadyWants, DOMAIN InputWants, DOMAIN DecryptWants, DOMAIN KeyWants}
    [] document = "launch" -> DOMAIN LaunchWants

ASSUME DocumentsAssumption ==
  \A f \in Documents : \A d \in Held(f) \ {NotGiven, NotThere, Garbled} :
    DOMAIN d = Fields(f)
ASSUME ReceiptsAssumption ==
  \A r \in Held("run_receipt") \ {NotThere, Garbled} : r = [f \in ReceiptFields |-> r[f]]
ASSUME SuccessesAssumption ==
  \A raw \in Successes :
    /\ Succeeded(raw) /\ raw.claims = "1" /\ raw.dbg = "disabled" /\ raw.measres = "success"
    /\ raw.command = raw.nonce /\ raw.nonce \in Nonces
    /\ Absent \notin {raw, raw.nonce, raw.ueid}

Gpu == INSTANCE GpuCcRegistry WITH
  Shown <- {"GPUCC-ATT-01", "GPUCC-RIM-01", "GPUCC-CERT-01", "GPUCC-SIGVERIFY-01",
            "GPUCC-REATTEST-01", "GPUCC-FAILOPEN-01", "GPUCC-MODE-01", "GPUCC-READY-01",
            "GPUCC-CUDA-01", "GPUCC-MODEL-01", "GPUCC-INPUT-01", "GPUCC-DECRYPT-01",
            "GPUCC-VRAM-01", "GPUCC-DMA-01", "GPUCC-VMM-META-01", "GPUCC-CVM-01",
            "GPUCC-BIND-01", "GPUCC-KEY-01"},
  Contents <- {"files"}
Checks == Gpu!GpuChecks
Positions == DOMAIN Checks

VARIABLES
  files,     \* file -> its content, NotThere, or NotGiven
  refreshes, \* how often a file was replaced; at its bound, none will be
  pc,        \* "start", "run", "annotate", "report", "done"
  got,       \* what the check that runs has read so far, in order
  findings,  \* position -> its finding
  evidence,  \* history: position -> what the check had read
  written    \* the report could be written

vars == <<files, refreshes, pc, got, findings, evidence, written>>

Scan == INSTANCE ScanRunner WITH
  Registry <- Checks, Tier <- Gpu!GpuTier, DependsOn <- Gpu!GpuDependsOn,
  Intrusive <- Gpu!GpuIntrusive, Outcomes <- Gpu!GpuOutcomes,
  Contents <- {"files"}, MaxReplacements <- 0, Modes <- {"scan"},
  mode <- "scan", usable <- TRUE, input <- "files", replaced <- 0,
  selected <- IF pc = "start" THEN {} ELSE Positions,
  exitCode <- IF pc = "done" /\ (~written \/ \E i \in Positions : findings[i].status = "FAIL")
              THEN 1 ELSE 0

Init ==
  /\ files \in Directories
  /\ refreshes = IF files \in Refreshable THEN 0 ELSE MaxRefreshes
  /\ pc = "start"
  /\ got = <<>>
  /\ findings = [i \in Positions |-> Scan!NoFinding]
  /\ evidence = [i \in Positions |-> <<>>]
  /\ written = TRUE

Given(f) == files[f] # NotGiven

\* The files a check opens, in order.  A digest is taken in a read of its own.
Reads(c) ==
  CASE c \in {"GPUCC-ATT-01", "GPUCC-VRAM-01", "GPUCC-DMA-01", "GPUCC-CVM-01", "GPUCC-BIND-01"} ->
         <<"report">>
    [] c = "GPUCC-RIM-01" -> IF Given("report") THEN <<"policy", "report">> ELSE <<"policy">>
    [] c \in {"GPUCC-CERT-01", "GPUCC-REATTEST-01", "GPUCC-FAILOPEN-01"} -> <<"policy">>
    [] c = "GPUCC-SIGVERIFY-01" ->
         IF Given("report") THEN <<"policy", "report", "raw", "raw">> ELSE <<"policy">>
    [] c = "GPUCC-MODE-01" -> <<"mode">>
    [] c \in {"GPUCC-READY-01", "GPUCC-INPUT-01", "GPUCC-DECRYPT-01", "GPUCC-KEY-01"} -> <<"kbs">>
    [] c = "GPUCC-CUDA-01" ->
         <<"report", "run_receipt", "run_receipt", "run_raw", "run_raw">>
    [] c = "GPUCC-VMM-META-01" -> <<"launch">>
    [] c = "GPUCC-MODEL-01" -> <<"bucket">>

\* No verdict without the file's option; GPUCC-MODE-01 leaves the mode to
\* GPUCC-ATT-01 when a report is given.
Skips(c) ==
  \/ ~Given(Reads(c)[1])
  \/ c = "GPUCC-MODE-01" /\ Given("report")

-------------------------------------------------------------------------------
\* What a check makes of what it has read

Parsed(content, default) == IF content \in {NotThere, Garbled} THEN default ELSE content

NoReceipt ==
  [schema |-> Absent, tool |-> Absent, verified |-> Absent, code |-> Absent,
   claims |-> Absent, eat |-> Absent, nonce |-> Absent, digest |-> Absent]

SignatureVerified(read) ==
  ReceiptValid(read[2], read[3], Parsed(read[4], NoResult))
RunAttested(read) ==
  RunIsAttested(read[1], Parsed(read[2], NoReceipt), read[3], read[4],
                Parsed(read[5], NoResult))
Measured(read) ==
  IF Len(read) = 2 THEN read[2].measurements ELSE [m \in Measurements |-> Absent]

Passes(c, read) ==
  CASE c = "GPUCC-ATT-01" ->
         Meets(read[1], AttestationWants) /\ Present(read[1].measurements) # {}
    [] c = "GPUCC-RIM-01"       -> RimPinned(read[1], Measured(read))
    [] c = "GPUCC-CERT-01"      -> Meets(read[1], CertWants)
    [] c = "GPUCC-SIGVERIFY-01" -> /\ read[1].verify_signature \in Truthy
                                   /\ Len(read) > 1 => SignatureVerified(read)
    [] c = "GPUCC-REATTEST-01"  -> Meets(read[1], ReattestWants)
    [] c = "GPUCC-FAILOPEN-01"  -> Meets(read[1], FailOpenWants)
    [] c = "GPUCC-MODE-01"      -> read[1] = "on"
    [] c = "GPUCC-READY-01"     -> Meets(read[1], ReadyWants)
    [] c = "GPUCC-CUDA-01"      -> RunAttested(read)
    [] c = "GPUCC-INPUT-01"     -> Meets(read[1], InputWants)
    [] c = "GPUCC-DECRYPT-01"   -> Meets(read[1], DecryptWants)
    [] c = "GPUCC-VRAM-01"      -> Meets(read[1], VramWants)
    [] c = "GPUCC-DMA-01"       -> Meets(read[1], DmaWants)
    [] c = "GPUCC-VMM-META-01"  -> Meets(read[1], LaunchWants)
    [] c = "GPUCC-CVM-01"       -> Meets(read[1], CvmWants)
    [] c = "GPUCC-BIND-01"      -> Meets(read[1], BindWants)
    [] c = "GPUCC-KEY-01"       -> Meets(read[1], KeyWants)

\* The tier a check sets itself.
Promoted(c, read) ==
  \/ c = "GPUCC-RIM-01" /\ ValuesChecked(read[1], Measured(read))
  \/ c = "GPUCC-SIGVERIFY-01" /\ Len(read) > 1 /\ SignatureVerified(read)

Judgement(c, read) ==
  Gpu!Returns(IF Passes(c, read) THEN "PASS" ELSE "FAIL",
                   IF Promoted(c, read) THEN "report-derived" ELSE "none")

-------------------------------------------------------------------------------
\* Actions

\* Mutant: the checks run in any order.
RunningAny(i) ==
  /\ pc = "run"
  /\ findings[i] = Scan!NoFinding
  /\ got = <<>> \/ \A j \in 1..(i - 1) : findings[j] # Scan!NoFinding

Running(i) ==
  /\ pc = "run"
  /\ findings[i] = Scan!NoFinding
  /\ \A j \in 1..(i - 1) : findings[j] # Scan!NoFinding

Finish(i, outcome, read) ==
  /\ findings' = [findings EXCEPT ![i] = Scan!Stamped(i, outcome)]
  /\ evidence' = [evidence EXCEPT ![i] = read]
  /\ got' = <<>>
  /\ UNCHANGED <<files, refreshes, pc, written>>

Select ==
  /\ pc = "start"
  /\ pc' = "run"
  /\ UNCHANGED <<files, refreshes, got, findings, evidence, written>>

Skip(i) ==
  /\ Running(i)
  /\ Skips(Checks[i])
  /\ Finish(i, Gpu!Returns("SKIP", "none"), <<>>)

\* The next file of the check; after the last one it has its finding.
Read(i) ==
  /\ Running(i)
  /\ ~Skips(Checks[i])
  /\ LET file == Reads(Checks[i])[Len(got) + 1]
         read == Append(got, files[file])
     IN IF file \in Documents /\ files[file] \in {NotThere, Garbled}
        THEN Finish(i, Gpu!Returns("ERROR", "none"), read)
        ELSE IF Len(read) = Len(Reads(Checks[i]))
        THEN Finish(i, Judgement(Checks[i], read), read)
        ELSE /\ got' = read
             /\ UNCHANGED <<files, refreshes, pc, findings, evidence, written>>

LoopDone ==
  /\ pc = "run"
  /\ \A i \in Positions : findings[i] # Scan!NoFinding
  /\ pc' = "annotate"
  /\ UNCHANGED <<files, refreshes, got, findings, evidence, written>>

Annotate ==
  /\ pc = "annotate"
  /\ findings' = [i \in Positions |-> [findings[i] EXCEPT !.note = Scan!Missing(i)]]
  /\ pc' = "report"
  /\ UNCHANGED <<files, refreshes, got, evidence, written>>

Report ==
  /\ pc = "report"
  /\ pc' = "done"
  /\ written' \in BOOLEAN
  /\ UNCHANGED <<files, refreshes, got, findings, evidence>>

Step ==
  \/ Select
  \/ \E i \in Positions : Skip(i) \/ Read(i)
  \/ LoopDone
  \/ Annotate
  \/ Report

\* Somebody replaces one of the files that are given.
Refresh ==
  /\ pc = "run"
  /\ refreshes < MaxRefreshes
  /\ \E f \in DOMAIN Versions : \E v \in Versions[f] \ {files[f]} :
       /\ Given(f)
       /\ files' = [files EXCEPT ![f] = v]
  /\ refreshes' = refreshes + 1
  /\ UNCHANGED <<pc, got, findings, evidence, written>>

Next == Step \/ Refresh

\* The program runs on as long as it has a step; files may change or not.
Spec == Init /\ [][Next]_vars /\ WF_vars(Step)

-------------------------------------------------------------------------------
\* Properties

Position(c) == CHOOSE i \in Positions : Checks[i] = c
PassOf(c) == findings[Position(c)].status = "PASS"
ReportAt(i) ==
  LET reads == Reads(Checks[i])
  IN {evidence[i][k] : k \in {j \in DOMAIN evidence[i] : reads[j] = "report"}}

\* The raw results that look like a success are those nvattest wrote.  The report and
\* the receipts may say anything.
NothingForged ==
  \A raw \in Held("raw") \cup Held("run_raw") :
    /\ raw \notin {NotThere, Garbled}
    /\ Succeeded(raw) /\ raw.claims = "1" /\ raw.dbg = "disabled" /\ raw.measres = "success"
    => raw \in Successes

\* nvattest did attest this GPU, out of debug mode and appraised, under this nonce.
Attested(gpu, nonce) == \E raw \in Successes : raw.ueid = gpu /\ raw.nonce = nonce

\* A pass tallied as verified was read from a report whose GPU nvattest had
\* attested under the report's nonce, or from one that differs from what
\* GPUCC-SIGVERIFY-01 read: whichever files were mixed or replaced, before
\* the scan or between two reads, and whatever the receipt says of itself.
VerifiedReportWasAttested ==
  pc = "done" =>
    \A i \in Scan!Verified : findings[i].tier = "report-derived" =>
      \A r \in ReportAt(i) \cap ReportAt(Position("GPUCC-SIGVERIFY-01")) :
        Attested(r.ueid, r.verification.nonce)

\* GPUCC-CUDA-01 passes only on a run that was linked to an attestation of the
\* very GPU of the report, on that GPU; and the receipt the run names was written for
\* a success of nvattest's, whatever it says of itself, unless it or the raw result
\* was replaced between being loaded and being hashed.
RunFollowedAttestation ==
  PassOf("GPUCC-CUDA-01") =>
    LET read == evidence[Position("GPUCC-CUDA-01")]
    IN /\ Attested(read[1].ueid, read[2].nonce)
       /\ read[1].cuda.uuid = read[1].uuid
       /\ read[2] = read[3] /\ read[4] = read[5] =>
            \E raw \in Successes : read[1].cuda.digest = ReceiptOf(raw)

\* GPUCC-RIM-01 passes as report-derived only if every measurement the policy requires
\* is pinned, is a field of the report and was compared there with its golden value:
\* having compared one it does not pass as if it had compared all.  What is compared
\* may be nothing: a null in the report agrees with a null for its golden value.
PromotionIsEarned ==
  LET rim == Position("GPUCC-RIM-01")
  IN findings[rim].status = "PASS" /\ findings[rim].tier = "report-derived" =>
       LET read == evidence[rim]
       IN \A m \in Required(read[1]) :
            /\ m \in read[1].pinned_measurements
            /\ read[2].measurements[m] # Absent
            /\ read[2].measurements[m] = read[1].expected_measurements[m]

\* The checks that opened a document found the same in it.
ReadOnce ==
  \A i, j \in Positions : \A k \in DOMAIN evidence[i] : \A l \in DOMAIN evidence[j] :
    LET f == Reads(Checks[i])[k]
    IN f \in Documents /\ f = Reads(Checks[j])[l] => evidence[i][k] = evidence[j][l]

\* The fields that only ever count against a document: leaving one out can turn a
\* failure into a pass.  The golden values and the measurements that are required of
\* a chip are documented as optional (rim_measurement.py:12, gpucc/README.md:74); of the debug
\* flags, the mutators of the launch and the service account's keys and impersonators
\* nothing is said.
Optional ==
  {"debug", "quote_debug", "cpu_debug", "mutable_by", "sa_user_managed_keys",
   "sa_impersonators", "required_measurements", "expected_measurements"}

NoRun == [x \in {"schema", "executed", "response", "uuid", "ptx", "digest"} |-> Absent]
LeftOut(document, field) ==
  LET value == document[field] IN
  CASE field \in {"measurements", "expected_measurements"}         -> Present(value) = {}
    [] field \in {"pinned_measurements", "required_measurements"}  -> value = {}
    [] field = "verification"                                      -> value = NoReceipt
    [] field = "cuda"                                              -> value = NoRun
    [] OTHER                                                       -> value = Absent

\* Leaving out anything else never helps: when all checks that were given their file
\* pass, no field is left out of what they read but the optional ones.  That takes
\* the policy, without which GPUCC-SIGVERIFY-01 skips, and documents that are not
\* replaced between two checks.
NothingLeftOutPasses ==
  pc = "done" /\ (\A i \in Positions : findings[i].status \in {"PASS", "SKIP"})
  /\ Given("policy") /\ ReadOnce =>
    \A i \in Positions : \A k \in DOMAIN evidence[i] :
      Reads(Checks[i])[k] \in Documents =>
        \A f \in DOMAIN evidence[i][k] \ Optional : ~LeftOut(evidence[i][k], f)

\* The evidence of one successful capture: receipts written for its results, a
\* report that names them, and policies that ask for what they should, with
\* the report's own measurements as golden values.
HonestDirectory(d) ==
  LET report == d.report  cuda == d.report.cuda  policy == d.policy IN
  /\ \A f \in Files \ {"bucket"} : d[f] \notin {NotGiven, NotThere, Garbled}
  /\ {d.raw, d.run_raw} \subseteq Successes
  /\ report.ueid = d.raw.ueid /\ report.ueid = d.run_raw.ueid
  /\ report.verification = ReceiptOf(d.raw) /\ report.sig_verified = "true"
  /\ d.run_receipt = ReceiptOf(d.run_raw)
  /\ cuda.schema = "v1" /\ cuda.executed = "true" /\ cuda.response = "challenge"
  /\ cuda.digest = d.run_receipt /\ cuda.uuid = report.uuid
  /\ Absent \notin {report.uuid, cuda.ptx, d.run_receipt}
  /\ Meets(report, AttestationWants) /\ Meets(report, VramWants) /\ Meets(report, DmaWants)
  /\ Meets(report, CvmWants) /\ Meets(report, BindWants)
  /\ Meets(policy, CertWants) /\ Meets(policy, ReattestWants) /\ Meets(policy, FailOpenWants)
  /\ policy.verify_signature = "true" /\ policy.required_measurements = {}
  /\ policy.pinned_measurements = Present(report.measurements)
  /\ policy.expected_measurements = report.measurements
  /\ {"driver", "vbios"} \subseteq Present(report.measurements)
  /\ Meets(d.kbs, ReadyWants) /\ Meets(d.kbs, InputWants) /\ Meets(d.kbs, DecryptWants)
  /\ Meets(d.kbs, KeyWants) /\ Meets(d.launch, LaunchWants)
  /\ d.mode = "on"

\* The evidence of one successful capture, left alone, passes every check that is
\* given its file, with every report-derived pass verified.
HonestCaptureIsVerified ==
  pc = "done" /\ refreshes = 0 /\ HonestDirectory(files) =>
    \A i \in Positions :
      /\ findings[i].status \in {"PASS", "SKIP"}
      /\ findings[i].note = {}

\* The scan is ScanRunner's, of the GPU registry with its tiers and the two checks
\* that may raise their own: what is proved of ScanRunner holds of it.
ImplementsRunner == Scan!Spec
===============================================================================
