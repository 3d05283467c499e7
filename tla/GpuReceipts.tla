---------------------------- MODULE GpuReceipts ----------------------------
(***************************************************************************)
(* The receipts of nvattest that GPUCC-SIGVERIFY-01 and GPUCC-CUDA-01      *)
(* judge, against the raw results they were made from.                     *)
(*                                                                         *)
(* A raw result is a record [command, code, claims, eat, nonce, ueid, dbg, *)
(* measres]: the --nonce of the command, the result code, how many claim   *)
(* sets there are, whether a detached EAT is present, and what the one     *)
(* claim set says.  A digest is represented by what it is a digest of.     *)
(***************************************************************************)
EXTENDS GpuDocuments

CONSTANT Nonces  \* the values that look like a 32-byte nonce

\* The receipt that is written for a raw result.
ReceiptOf(raw) ==
  [schema |-> "v1", tool |-> "nvattest",
   verified |-> IF raw.code = "0" THEN "true" ELSE "false", code |-> raw.code,
   claims |-> raw.claims, eat |-> raw.eat, nonce |-> raw.command, digest |-> raw]
ReceiptFields == {"schema", "tool", "verified", "code", "claims", "eat", "nonce", "digest"}

\* What json.load's failure is replaced with, {}.
NoResult ==
  [command |-> Absent, code |-> Absent, claims |-> "0", eat |-> "false",
   nonce |-> Absent, ueid |-> Absent, dbg |-> Absent, measres |-> Absent]

\* analyze_nvattest_result
Succeeded(raw) == raw.code = "0" /\ raw.claims # "0" /\ raw.eat = "true"

\* Mutant: the device is not compared.
BindsNonceOnly(raw, nonce, report) ==
  /\ raw.claims = "1"
  /\ raw.nonce # Absent /\ raw.nonce = nonce
  /\ raw.dbg = "disabled" /\ report.debug # "true"
  /\ raw.measres = "success"

\* nvattest_claims_bind: one claim set, of this run, this GPU, out of debug
\* mode and appraised.
Binds(raw, nonce, report) ==
  /\ raw.claims = "1"
  /\ raw.nonce # Absent /\ raw.nonce = nonce
  /\ raw.ueid # Absent /\ raw.ueid = report.ueid
  /\ raw.dbg = "disabled" /\ report.debug # "true"
  /\ raw.measres = "success"

\* A receipt, of the boot or of the run time: what it says of itself ...
SaysVerified(receipt) ==
  /\ receipt.tool = "nvattest"
  /\ receipt.verified = "true"
  /\ receipt.code = "0"
  /\ receipt.claims \in {"1", "2"}
  /\ receipt.eat = "true"
  /\ receipt.nonce \in Nonces
  /\ receipt.digest # Absent

\* ... and against the raw result found beside it: `hashed` is what the digest
\* was taken of, `raw` what was then loaded.
Matches(receipt, hashed, raw, report) ==
  /\ hashed = receipt.digest
  /\ Succeeded(raw)
  /\ receipt.code = raw.code /\ receipt.claims = raw.claims /\ receipt.eat = raw.eat
  /\ raw.command # Absent /\ raw.command = receipt.nonce
  /\ Binds(raw, receipt.nonce, report)

\* analyze_signature_verification of a report.
ReceiptValid(report, hashed, raw) ==
  /\ SaysVerified(report.verification)
  /\ report.sig_verified \in {"true", "text"}
  /\ Matches(report.verification, hashed, raw, report)

\* The CUDA receipt itself: the challenge was computed on the report's GPU.
Executed(report) ==
  LET cuda == report.cuda
  IN /\ cuda.schema = "v1"
     /\ cuda.executed = "true"
     /\ cuda.response = "challenge"
     /\ cuda.uuid # Absent /\ cuda.uuid = report.uuid
     /\ cuda.ptx # Absent
     /\ cuda.digest # Absent

\* Mutant: the receipt need not be the one the CUDA run names.
RunIsAttestedUnlinked(report, receipt, linked, hashed, raw) ==
  /\ Executed(report)
  /\ receipt.schema = "v1"
  /\ SaysVerified(receipt)
  /\ Matches(receipt, hashed, raw, report)

\* analyze_cuda_execution: `linked` is what the receipt's digest was taken of.
RunIsAttested(report, receipt, linked, hashed, raw) ==
  /\ Executed(report)
  /\ receipt.schema = "v1"
  /\ SaysVerified(receipt)
  /\ linked = report.cuda.digest
  /\ Matches(receipt, hashed, raw, report)
===============================================================================
