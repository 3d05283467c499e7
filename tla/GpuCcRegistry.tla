---------------------------- MODULE GpuCcRegistry ----------------------------
(***************************************************************************)
(* The GPU CC platform's registry: its checks in order with their evidence *)
(* tiers and dependencies, as parameters for ScanRunner.  GPUCC-ATT-01 and *)
(* GPUCC-RIM-01 run before GPUCC-SIGVERIFY-01, on which they depend; two   *)
(* checks raise their own tier when they verified something against the    *)
(* report; GPUCC-MODEL-01 writes to the model bucket.                      *)
(*                                                                         *)
(* What the checks themselves decide is left open: each may return any     *)
(* status, or raise, whatever the files it reads hold.                     *)
(***************************************************************************)
EXTENDS Naturals, Sequences

CONSTANTS
  Shown,    \* bound: the checks of the registry an instance runs
  Contents  \* the contents of the files the checks read

GpuChecks ==
  <<"GPUCC-ATT-01", "GPUCC-RIM-01", "GPUCC-CERT-01", "GPUCC-SIGVERIFY-01",
    "GPUCC-REATTEST-01", "GPUCC-FAILOPEN-01", "GPUCC-MODE-01",
    "GPUCC-READY-01", "GPUCC-CUDA-01", "GPUCC-MODEL-01", "GPUCC-INPUT-01",
    "GPUCC-DECRYPT-01", "GPUCC-VRAM-01", "GPUCC-DMA-01",
    "GPUCC-VMM-META-01", "GPUCC-CVM-01", "GPUCC-BIND-01", "GPUCC-KEY-01">>

ShownChecks == SelectSeq(GpuChecks, LAMBDA c : c \in Shown)
Ids == Shown \cap {GpuChecks[i] : i \in DOMAIN GpuChecks}

ReportDerived ==
  {"GPUCC-ATT-01", "GPUCC-VRAM-01", "GPUCC-DMA-01", "GPUCC-CVM-01",
   "GPUCC-BIND-01", "GPUCC-CUDA-01"}
Probed == {"GPUCC-MODEL-01"}

GpuTier ==
  [c \in Ids |-> IF c \in ReportDerived THEN "report-derived"
                 ELSE IF c \in Probed THEN "probed"
                 ELSE "operator-declared"]

\* GPUCC-RIM-01 is declared by default, and depends on the signature for the
\* runs in which it raises its own tier.
GpuDependsOn ==
  [c \in Ids |-> IF c \in ReportDerived \cup {"GPUCC-RIM-01"}
                 THEN {"GPUCC-SIGVERIFY-01"} \cap Ids
                 ELSE {}]

GpuIntrusive == Probed \cap Ids

Raises == [raised |-> TRUE, status |-> "ERROR", tier |-> "none"]
Returns(s, t) == [raised |-> FALSE, status |-> s, tier |-> t]

\* GPUCC-RIM-01 sets its tier when it compared golden values with the report,
\* GPUCC-SIGVERIFY-01 when the verifier's receipt for the report is valid.
Promotes(c) ==
  CASE c = "GPUCC-RIM-01"       -> {Returns(s, "report-derived") : s \in {"PASS", "FAIL"}}
    [] c = "GPUCC-SIGVERIFY-01" -> {Returns(s, "report-derived") : s \in {"PASS", "FAIL"}}
    [] OTHER                    -> {}

GpuOutcomes ==
  [c \in Ids |-> [e \in Contents |->
     {Raises} \cup Promotes(c)
       \cup {Returns(s, "none") : s \in {"PASS", "FAIL", "SKIP", "ERROR"}}]]
===============================================================================
