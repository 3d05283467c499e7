------------------------------ MODULE GcpPlans ------------------------------
(***************************************************************************)
(* The plans of the Confidential Space checks, those of the key release    *)
(* apart (WifPool, KeyReleaseAudit) and the probe (ObjectStoreProbe).  A   *)
(* check reads everything it wants in one try: any exception is an ERROR,  *)
(* but for the best-effort reads.                                          *)
(***************************************************************************)
EXTENDS ReadPlans

\* "unattestable": Confidential Space on SEV-SNP; a plain VM may run on it, and one
\* whose launcher shows in no tee-* key and no license is taken for plain.
ConfidentialType ==
  {{}, {"plain_snp"}, {"hidden_launcher"}, {"unknown_type"}, {"unattestable"}}
ShieldedFlags == {"not_confidential", "no_secure_boot", "no_vtpm", "no_monitoring"}
VmConfig ==
  <<Call({t \cup f : t \in ConfidentialType, f \in SUBSET ShieldedFlags}, Must,
         ShieldedFlags \cup {"unknown_type", "unattestable"}, None)>>

\* The instance is read to tell its own account among the writers; whichever
\* service account it is, it is one too many.  "other_writer": one through a role of
\* the project's policy, or through a custom role.
MetadataMutability ==
  <<Call({{}, {"admins"}, {"broad_writer"}, {"other_writer"}}, Must, {"broad_writer"}, None),
    Call({{}, {"no_account"}}, Must, {}, None)>>

\* _sa_email raises if the instance has no service account.
WithAccount == Call({{}, {"no_account"}}, [refused |-> "ERROR", no_account |-> "ERROR"], {}, None)

\* "other_impersonators": through the project's policy, or a custom role;
\* "attested": principals of the attested pool, which impersonate the account by design.
SaImpersonation ==
  <<WithAccount,
    Call({{}, {"impersonators"}, {"other_impersonators"}, {"attested"}}, Must,
         {"impersonators", "attested"}, None)>>
SaKeys == <<WithAccount, Flags({"user_keys"})>>

\* The registry is read if its name can be taken from the image reference; what
\* goes wrong there is swallowed.  Without an image reference nothing is pinned, and
\* nothing reported.
ImageSigning ==
  <<Call({r \cup s : r \in {{}, {"tagged"}, {"no_reference"}}, s \in {{}, {"unsigned"}}},
         Must, {"tagged", "unsigned"}, [no_reference |-> 1]),
    Tolerant({{}, {"broad_writer"}, {"other_writer"}}, {"broad_writer"})>>

\* "other_writer": a user, a group or a domain that is not the workload, or a custom
\* role; "workload": the workload's own account, a service account like any other.
GcsBootstrap ==
  <<Flags({"public_access", "acls", "unversioned", "no_retention"}),
    Call(SUBSET {"public", "broad_writer", "other_writer", "workload"}, Must,
         {"public", "broad_writer", "workload"}, None)>>

\* Support attributes are missing, may include USABLE, or are some others than
\* STABLE and LATEST.
TokenFlags == {"debug", "unsigned", "bad_hardware"}
TokenClaims ==
  <<Call({a \cup f : a \in {{}, {"usable"}, {"no_support"}, {"experimental"}},
                    f \in SUBSET TokenFlags}
           \cup {{"garbled"}},
         MustDecode, TokenFlags \cup {"usable", "no_support"}, None)>>

GcpPlan ==
  [GCS_BOOT_01 |-> GcsBootstrap, CSPACE_VM_01 |-> VmConfig, CSPACE_ATT_01 |-> TokenClaims,
   CSPACE_META_01 |-> MetadataMutability, CSPACE_SA_01 |-> SaImpersonation,
   CSPACE_SAKEY_01 |-> SaKeys, CSPACE_IMG_01 |-> ImageSigning]
===============================================================================
