------------------------------ MODULE MCGpuScan ------------------------------
(* Evidence directories put together from six captures (two of GPU g1, one of *)
(* g2 under a nonce that was used for g1 too, one of a GPU in debug mode, one *)
(* whose measurements were not accepted, one of a failed attestation), that   *)
(* differ from one capture in at most two places: a file of another capture,  *)
(* a field edited or left out, a file or an option missing.                   *)
EXTENDS GpuScan

CONSTANTS A, No, Gone, Bad  \* model values

Capture(gpu, nonce, result) == [gpu |-> gpu, nonce |-> nonce, result |-> result]
First == Capture("g1", "n1", "ok")
MCCaptures ==
  {First, Capture("g1", "n2", "ok"), Capture("g2", "n3", "ok"),
   Capture("g2", "n1", "debug"), Capture("g2", "n2", "unmeasured"), Capture("g1", "n4", "failed")}
BootNonces == {c.nonce : c \in MCCaptures}
RunNonce == [n1 |-> "r1", n2 |-> "r2", n3 |-> "r3", n4 |-> "r4"]
MCNonces == BootNonces \cup {RunNonce[n] : n \in BootNonces} \cup {"unused"}

RawResult(gpu, nonce, result) ==
  LET failed == result = "failed"
  IN [command |-> nonce, nonce |-> nonce, ueid |-> gpu,
      code    |-> IF failed THEN "1" ELSE "0",
      claims  |-> IF failed THEN "0" ELSE "1",
      eat     |-> IF failed THEN "false" ELSE "true",
      dbg     |-> IF result = "debug" THEN "enabled" ELSE "disabled",
      measres |-> IF result = "unmeasured" THEN "fail" ELSE "success"]

BootRaw(c) == RawResult(c.gpu, c.nonce, c.result)
RunRaw(c) == RawResult(c.gpu, RunNonce[c.nonce], c.result)
Uuid(gpu) == IF gpu = "g1" THEN "u1" ELSE "u2"

ReportOf(c) ==
  [cc_mode |-> "on", debug |-> "false", model |-> "H100", signed |-> "true",
   measurements |-> [driver |-> "golden", vbios |-> "golden", gsp |-> A],
   vram_encryption |-> "true", spdm_session |-> "true", pcie_encryption |-> "true",
   cpu_type |-> "tdx", quote_present |-> "true", quote_chained |-> "true",
   quote_verified |-> "true", quote_debug |-> "false", cpu_debug |-> "false",
   secure_boot |-> "true", gpu_bound |-> "true", cvm_bound |-> "true",
   sig_verified |-> "true", ueid |-> c.gpu, uuid |-> Uuid(c.gpu),
   verification |-> ReceiptOf(BootRaw(c)),
   cuda |-> [schema |-> "v1", executed |-> "true", response |-> "challenge",
             uuid |-> Uuid(c.gpu), ptx |-> "kernel", digest |-> ReceiptOf(RunRaw(c))]]

GoodPolicy ==
  [verify_signature |-> "true", cert_chain_to_nvidia_root |-> "true",
   continuous_attestation |-> "true", reattest_on_state_change |-> "true",
   fail_closed |-> "true", required_measurements |-> {},
   pinned_measurements |-> {"driver", "vbios"},
   expected_measurements |-> [driver |-> "golden", vbios |-> "golden", gsp |-> A]]
GoodKbs ==
  [attest_before_ready |-> "true", attestation_bound |-> "true", loader |-> "safetensors",
   signed_manifest |-> "true", verify_digests_before_load |-> "true",
   decrypt_location |-> "tee", dek_source |-> "kbs", key_rotation_days |-> "90",
   sa_user_managed_keys |-> A, sa_impersonators |-> A]
GoodLaunch == [measurement_pinned |-> "true", mutable_by |-> "admin"]

Directory(c) ==
  [report |-> ReportOf(c), policy |-> GoodPolicy, raw |-> BootRaw(c),
   run_receipt |-> ReceiptOf(RunRaw(c)), run_raw |-> RunRaw(c),
   kbs |-> GoodKbs, launch |-> GoodLaunch, mode |-> "on", bucket |-> No]

-------------------------------------------------------------------------------
\* What may be different

Flags == {"true", "false", "text", A}
Edits(file, field) ==
  CASE field = "measurements" ->
         [Measurements -> {A}]
         \cup {[driver |-> "golden", vbios |-> v, gsp |-> A] : v \in {"old", "None", A}}
    [] field = "expected_measurements" ->
         [Measurements -> {A}]
         \cup {[driver |-> "golden", vbios |-> v, gsp |-> A] : v \in {"old", "None", A}}
    [] field = "required_measurements" -> {Measurements, {"vbios"}}
    [] field = "pinned_measurements" -> {{}, {"driver"}}
    [] field = "cc_mode" -> {"devtools", A}
    [] field = "model" -> {"other", A}
    [] field = "cpu_type" -> {"other", A}
    [] field = "loader" -> {"pickle", A}
    [] field = "decrypt_location" -> {"host", A}
    [] field = "dek_source" -> {"env", "file", A}
    [] field = "key_rotation_days" -> {"0", A}
    [] field = "sa_user_managed_keys" -> {"0", "1"}
    [] field = "sa_impersonators" -> {"nobody", "somebody"}
    [] field = "mutable_by" -> {"host", "nobody", A}
    [] field = "ueid" -> {"g2", "g3", A}
    [] field = "uuid" -> {"u2", A}
    [] OTHER -> Flags

ReceiptEdits(field) ==
  CASE field = "digest" -> {BootRaw(c) : c \in MCCaptures} \cup {A}
    [] field = "nonce" -> {"n2", "n3", "n4", "unused", "short", A}
    [] field = "code" -> {"1", A}
    [] field = "claims" -> {"0", "2", "true", A}
    [] field \in {"verified", "eat"} -> Flags
    [] OTHER -> {"other", A}
CudaEdits(field) ==
  CASE field = "digest" -> {ReceiptOf(RunRaw(c)) : c \in MCCaptures} \cup {A}
    [] field = "uuid" -> {"u2", A}
    [] field = "executed" -> Flags
    [] OTHER -> {"other", A}

Edited(file, document) ==
  UNION {{[document EXCEPT ![f] = v] : v \in Edits(file, f)} :
           f \in DOMAIN document \ {"verification", "cuda"}}
EditedReceipt(receipt) ==
  UNION {{[receipt EXCEPT ![f] = v] : v \in ReceiptEdits(f)} : f \in DOMAIN receipt}
LinksEdited(report) ==
  UNION {{[report EXCEPT ![f] = v] : v \in Edits("report", f)} :
           f \in {"debug", "sig_verified", "ueid", "uuid"}}
  \cup {[report EXCEPT !.verification = NoReceipt], [report EXCEPT !.cuda = NoRun]}
  \cup {[report EXCEPT !.verification = r] : r \in EditedReceipt(report.verification)}
  \cup UNION {{[report EXCEPT !.cuda[f] = v] : v \in CudaEdits(f)} : f \in DOMAIN report.cuda}

\* One of the capture's own files: as another capture has it, gone or damaged.
MCVersions ==
  [report |-> {ReportOf(c) : c \in MCCaptures} \cup {Bad},
   policy |-> {GoodPolicy, [GoodPolicy EXCEPT !.expected_measurements = [m \in Measurements |-> A]]},
   raw |-> {BootRaw(c) : c \in MCCaptures} \cup {Gone, Bad},
   run_receipt |-> {ReceiptOf(RunRaw(c)) : c \in MCCaptures} \cup {Gone, Bad},
   run_raw |-> {RunRaw(c) : c \in MCCaptures} \cup {Gone, Bad},
   kbs |-> {GoodKbs}, launch |-> {GoodLaunch}, mode |-> {"on"}]

Put(d, file, contents) == {[d EXCEPT ![file] = v] : v \in contents \cup {Bad, Gone}}

\* A file is another capture's, gone or damaged.
Mixed(d) == UNION {Put(d, f, MCVersions[f]) : f \in {"report", "raw", "run_receipt", "run_raw"}}

\* What links the report to a receipt, or a field of a receipt, is different.
Receipts(d) ==
  (IF d.report \in {Gone, Bad} THEN {} ELSE Put(d, "report", LinksEdited(d.report)))
  \cup (IF d.run_receipt \in {Gone, Bad} THEN {}
        ELSE Put(d, "run_receipt", EditedReceipt(d.run_receipt)))

\* One thing is different.
Changed(d) ==
  Mixed(d) \cup Receipts(d)
  \cup Put(d, "report", Edited("report", d.report))
  \cup Put(d, "policy", Edited("policy", d.policy))
  \cup Put(d, "kbs", Edited("kbs", d.kbs))
  \cup Put(d, "launch", Edited("launch", d.launch))
  \cup {[d EXCEPT !.mode = "devtools"]}
  \cup {[d EXCEPT ![f] = No] : f \in {"report", "policy", "kbs", "launch", "mode"}}

\* The report's measurement and its golden value are both null.
Nulls(d) ==
  [d EXCEPT !.report.measurements.vbios = "None", !.policy.expected_measurements.vbios = "None"]

Unchanged == {Directory(c) : c \in MCCaptures}
MCDirectories ==
  Unchanged
  \cup {Nulls(Directory(c)) : c \in MCCaptures}
  \cup UNION {Changed(Directory(c)) : c \in MCCaptures}
  \cup UNION {Receipts(d) : d \in UNION {Mixed(Directory(c)) : c \in {First}}}
MCSuccesses ==
  UNION {{BootRaw(c), RunRaw(c)} : c \in {x \in MCCaptures : x.result = "ok"}}

\* Their files may be replaced; one of them has a report that lacks a field.
MCRefreshable ==
  Unchanged \cup {[d EXCEPT !.report.vram_encryption = A] : d \in {Directory(First)}}

\* The proofs' hypothesis holds of these directories: results are mixed, not made up.
ASSUME NothingForged
\* The successful captures are honest ones.
ASSUME \A c \in {x \in MCCaptures : x.result = "ok"} : HonestDirectory(Directory(c))
===============================================================================
