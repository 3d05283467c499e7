---------------------------- MODULE GpuDocuments ----------------------------
(***************************************************************************)
(* What the GPU CC checks make of the JSON documents they read: the        *)
(* attestation report, the verifier's policy, the key-release policy and   *)
(* the launch configuration, each a record of the fields the checks look   *)
(* at (nested objects are flattened).                                      *)
(*                                                                         *)
(* A flag is "true", "false", "text" (a JSON value that is no boolean and  *)
(* not empty, "false" in quotes for one) or Absent.                        *)
(***************************************************************************)
EXTENDS Naturals

CONSTANT Absent  \* the value of a field that is left out; of a null, but for measurements

\* Python's bool() of a flag, and `is True`.
Truthy == {"true", "text"}
Falsy == {"false", Absent}

\* Mutant: a flag that is left out counts as set.
TruthyByDefault == {"true", "text", Absent}

\* A flag read with .get(name, False).
Set == Truthy
Unset == Falsy

Meets(document, wanted) == \A f \in DOMAIN wanted : document[f] \in wanted[f]

-------------------------------------------------------------------------------
\* The fields a check reads, and the values on which it passes,

\* of the report ...
AttestationWants == [cc_mode |-> {"on"}, debug |-> Unset, model |-> {"H100"}, signed |-> Set]
VramWants == [vram_encryption |-> Set]
DmaWants == [spdm_session |-> Set, pcie_encryption |-> Set]
CvmWants ==
  [cpu_type |-> {"tdx", "sev-snp", "cca"}, quote_present |-> Set, quote_chained |-> Set,
   quote_verified |-> Set, quote_debug |-> Unset, cpu_debug |-> Unset, secure_boot |-> Set]
BindWants == [gpu_bound |-> Set, cvm_bound |-> Set]

\* ... of the verifier's policy ...
CertWants == [cert_chain_to_nvidia_root |-> Set]
ReattestWants == [continuous_attestation |-> Set, reattest_on_state_change |-> Set]
FailOpenWants == [fail_closed |-> Set]

\* ... of the key-release policy, where a loader must be known as data-only ...
ReadyWants == [attest_before_ready |-> Set, attestation_bound |-> Set]
InputWants ==
  [loader |-> {"safetensors"}, signed_manifest |-> Set, verify_digests_before_load |-> Set]
DecryptWants == [decrypt_location |-> {"tee"}]
KeyWants ==
  [dek_source |-> {"kbs"}, key_rotation_days |-> {"90"},
   sa_user_managed_keys |-> {"0", Absent}, sa_impersonators |-> {"nobody", Absent}]

\* ... and of the launch configuration, where a mutator that is not listed as
\* untrusted is let through, and so is an empty list.
LaunchWants == [measurement_pinned |-> Set, mutable_by |-> {"admin", "nobody", Absent}]

-------------------------------------------------------------------------------
\* GPUCC-RIM-01

\* Measurements and golden values are compared as strings (`str`): a null is "None", a
\* value like any other, and two nulls agree.
Measurements == {"driver", "vbios", "gsp"}
Present(values) == {m \in Measurements : values[m] # Absent}

\* Mutant: the GSP firmware is required on its own by default.
RequiredWithGsp(policy) ==
  IF policy.required_measurements = {} THEN {"driver", "vbios", "gsp"}
  ELSE policy.required_measurements

Required(policy) ==
  IF policy.required_measurements = {} THEN {"driver", "vbios"}
  ELSE policy.required_measurements

\* The golden values are compared with the report's, which makes the verdict
\* report-derived.
ValuesChecked(policy, measured) ==
  Present(policy.expected_measurements) # {} /\ Present(measured) # {}

\* Mutant: a golden value that is not given is not compared.
RimPinnedTolerant(policy, measured) ==
  LET expected == policy.expected_measurements
  IN /\ policy.pinned_measurements # {}
     /\ \A m \in Required(policy) :
          /\ m \in policy.pinned_measurements
          /\ Present(measured) # {} => measured[m] # Absent
          /\ ValuesChecked(policy, measured) => expected[m] \in {Absent, measured[m]}

RimPinned(policy, measured) ==
  LET expected == policy.expected_measurements
  IN /\ policy.pinned_measurements # {}
     /\ \A m \in Required(policy) :
          /\ m \in policy.pinned_measurements
          /\ Present(measured) # {} => measured[m] # Absent
          /\ ValuesChecked(policy, measured) => expected[m] = measured[m]
===============================================================================
