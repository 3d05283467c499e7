------------------------------ MODULE AzurePlans ------------------------------
(***************************************************************************)
(* The plans of the Azure checks, those of the key release apart           *)
(* (ReleasePolicy, KeyReleaseAudit).  Three checks read the same VM, each  *)
(* for itself; AZ-DBG-01 reads a token from a file and its issuer's keys.  *)
(***************************************************************************)
EXTENDS ReadPlans

VmSku == <<Flags({"not_confidential", "bad_size"})>>
VmBoot == <<Flags({"no_secure_boot", "no_vtpm"})>>
VmDisk ==
  <<Call({{}, {"guest_state_only"}, {"unencrypted"}}, Must, {"guest_state_only", "unencrypted"}, None)>>

\* The keys are fetched from an MAA endpoint only.  A signature that does not
\* verify for whatever reason is noted and fails nothing; a certificate that
\* cannot be parsed raises.  "unsaid": there is no claim about debugging.
MaaFlags == {"not_confidential", "not_compliant", "debug", "no_secure_boot"}
MaaToken ==
  <<Call({i \cup f : i \in {{}, {"other_issuer"}, {"unsaid"}}, f \in SUBSET MaaFlags} \cup {{"garbled"}},
         MustDecode, MaaFlags, [other_issuer |-> 1]),
    Call({{}, {"mismatch"}, {"unknown_key"}, {"garbled"}}, [garbled |-> "ERROR"], {}, None)>>

AzurePlan ==
  [AZ_SKU_01 |-> VmSku, AZ_BOOT_01 |-> VmBoot, AZ_DISK_01 |-> VmDisk, AZ_DBG_01 |-> MaaToken]
===============================================================================
