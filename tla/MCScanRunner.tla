----------------------------- MODULE MCScanRunner -----------------------------
(* The runner over six checks of the GPU CC registry, in its order:           *)
(* dependents before and after the signature check, a self-promoting one, a   *)
(* declared one and the intrusive probe.  Their input may be replaced once.   *)
EXTENDS ScanRunnerProofs

MCContents == {"captured", "recaptured"}
Gpu == INSTANCE GpuCcRegistry WITH
  Contents <- MCContents,
  Shown <- {"GPUCC-ATT-01", "GPUCC-RIM-01", "GPUCC-CERT-01",
            "GPUCC-SIGVERIFY-01", "GPUCC-CUDA-01", "GPUCC-MODEL-01"}

MCRegistry == Gpu!ShownChecks
MCTier == Gpu!GpuTier
MCDependsOn == Gpu!GpuDependsOn
MCIntrusive == Gpu!GpuIntrusive
MCOutcomes == Gpu!GpuOutcomes
\* What the theorem VerifiedSound assumes of a registry.
ASSUME DependenciesClosed

MCModes == {"scan", "read-only", "demo"}
===============================================================================
