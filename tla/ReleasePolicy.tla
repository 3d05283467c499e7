---------------------------- MODULE ReleasePolicy ----------------------------
(***************************************************************************)
(* The Azure key-release checks (AZ-SKR-01, AZ-MAA-01), and what Secure    *)
(* Key Release makes of the same documents.                                *)
(*                                                                         *)
(* A key is [policy, branches]; policy is "none" or "given"; a branch      *)
(* [authority, all, any] requires the claims `all` of a token of its       *)
(* authority, and one of the claims `any` if there are some (a nested      *)
(* anyOf).  Claims: "tee" (a confidential VM), "compliant", "debug_off",   *)
(* "other", and "tee_named" and "compliant_named", claims of other meaning *)
(* whose names end like those.  Authorities are hosts: "shared" is         *)
(* Microsoft's, the members of Custom are the customer's, one of them with *)
(* a name that begins with "shared", "foreign" is no MAA endpoint, "none"  *)
(* is left out.  A provider is [host, trust, status].                      *)
(***************************************************************************)
Custom == {"custom1", "custom2", "shared_named"}
MaaHosts == {"shared"} \cup Custom
Claims == {"tee", "compliant", "debug_off", "other", "tee_named", "compliant_named"}
Branch ==
  [authority : MaaHosts \cup {"foreign", "none"}, all : SUBSET Claims, any : SUBSET Claims]
Key == [policy : {"none", "given"}, branches : SUBSET Branch]

\* Mutant: the claims of a nested anyOf count.
ConditionsOfBoth(branch) == branch.all \cup branch.any

\* Only conditions under allOf are guaranteed.
Conditions(branch) == branch.all

\* A claim is told by the end of its name.
BranchPasses(branch) ==
  /\ branch.authority \in MaaHosts
  /\ {"tee", "tee_named"} \cap Conditions(branch) # {}
  /\ {"compliant", "debug_off", "compliant_named"} \cap Conditions(branch) # {}

\* Mutant: a policy without branches passes.
KeyPassesEmpty(key) ==
  key.policy = "given" /\ \A b \in key.branches : BranchPasses(b)

\* analyze_release_policy, of a policy that could be decoded.
KeyPasses(key) ==
  /\ key.policy = "given"
  /\ key.branches # {}
  /\ \A b \in key.branches : BranchPasses(b)

Authorities(key) == {b.authority : b \in key.branches} \ {"none"}

\* analyze_attestation_provider of a host, with the provider that was read if it
\* is this host's.  A name that begins like Microsoft's is enough, and a provider
\* that states no status is ready.
ProviderTrusted(host, provider) ==
  \/ host \in {"shared", "shared_named"}
  \/ /\ provider.host = host
     /\ provider.trust = "Isolated"
     /\ provider.status \in {"Ready", "unsaid"}

AuthoritiesPass(key, provider) ==
  \A h \in Authorities(key) : ProviderTrusted(h, provider)

-------------------------------------------------------------------------------
\* Azure: to whom the key is released

\* A token: who signed it and what it says.
Statements == [authority : MaaHosts \cup {"foreign"}, claims : SUBSET Claims]

\* An authority whose policy RBAC cannot rewrite says the truth; another one
\* says what it is told to.
Truthful(authority, providers) ==
  \/ authority = "shared"
  \/ authority \in Custom /\ providers[authority].trust = "Isolated"

AttestedVm(token, providers) ==
  /\ Truthful(token.authority, providers)
  /\ "tee" \in token.claims
  /\ {"compliant", "debug_off"} \cap token.claims # {}

AzureReleases(key, token) ==
  \/ key.policy = "none"
  \/ \E b \in key.branches :
       /\ b.authority = token.authority
       /\ b.all \subseteq token.claims
       /\ b.any # {} => b.any \cap token.claims # {}

-------------------------------------------------------------------------------
\* Where the reading is coarser than the release

\* Hosts and claims are told by their names.
PlainNames(key) ==
  \A b \in key.branches :
    b.authority # "shared_named" /\ {"tee_named", "compliant_named"} \cap b.all = {}

\* What a nested anyOf requires is not counted, and a policy nobody can meet is a
\* failure.
PlainKey(key) ==
  \/ key.policy = "none"
  \/ /\ key.branches # {}
     /\ \A b \in key.branches : b.any = {} /\ b.authority # "none"
===============================================================================
