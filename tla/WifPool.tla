------------------------------- MODULE WifPool -------------------------------
(*************************************************************************)
(* The Confidential Space key-release checks (CSPACE-KEYBIND-01,         *)
(* -WIF-02, -KMS-01), and what Google's token exchange makes of the same *)
(* documents.                                                            *)
(*                                                                       *)
(* A condition [joined, atoms] is a CEL expression: "all" or "any" of    *)
(* its atoms. "dbgstat" requires disabled-since-boot, "not_dbgstat" is   *)
(* its negation, "digest" pins the image, "digest_named" only mentions   *)
(* it, "subject" and "subject_sha" bind an identity, the latter by a     *)
(* sha256. A provider is [state, disabled, issuer, condition]; a         *)
(* "lookalike" issuer is one whose URI contains Confidential Space's. A  *)
(* pool [primary, first, rest] is the provider the scan is pointed at,   *)
(* the first page of the list of providers and the others. A binding of  *)
(* the key is [role, member, lapsed]: "other_decrypter" is any role with *)
(* the permission to decrypt that the check does not list                *)
(* (cryptoOperator, a custom one), "administrator" is                    *)
(* roles/cloudkms.admin, which has no such permission, "deleted" a       *)
(* member that is gone; a lapsed binding is one whose own IAM condition  *)
(* does not hold.                                                        *)
(*************************************************************************)
Atoms == {"dbgstat", "not_dbgstat", "digest", "digest_named", "subject", "subject_sha"}
Condition == [joined : {"all", "any"}, atoms : SUBSET Atoms]
Issuers == {"confidential_space", "lookalike", "elsewhere", "none"}
Provider ==
  [state     : {"ACTIVE", "DELETED"},
   disabled  : BOOLEAN,
   issuer    : Issuers,
   condition : Condition]
Pool == [primary : Provider, first : SUBSET Provider, rest : SUBSET Provider]
Binding ==
  [role   : {"decrypter", "other_decrypter", "administrator", "viewer"},
   member : {"pool", "other_pool", "pool_principal", "public", "account", "deleted"},
   lapsed : BOOLEAN]

\* analyze_wif_condition, a text match: what the expression mentions.
BindsDebugStatus(condition) == condition.atoms \cap {"dbgstat", "not_dbgstat"} # {}
PinsImage(condition) ==
  /\ condition.atoms \cap {"digest", "digest_named"} # {}
  /\ condition.atoms \cap {"digest", "subject_sha"} # {}

ConditionPasses(condition) == BindsDebugStatus(condition) /\ PinsImage(condition)

\* Mutant: a deleted provider counts.
ProviderPassesDeleted(provider) ==
  provider.issuer # "elsewhere" /\ ConditionPasses(provider.condition)

\* analyze_providers: an issuer is searched for Confidential Space's, if there is
\* one; whether the provider is disabled is not looked at.
ProviderPasses(provider) ==
  \/ provider.state = "DELETED"
  \/ provider.issuer # "elsewhere" /\ ConditionPasses(provider.condition)

PrimaryPasses(pool) == ConditionPasses(pool.primary.condition)

\* Mutant: only the provider the scan is pointed at.
SiblingsPassPrimary(pool) == ProviderPasses(pool.primary)
SiblingsPass(pool) == \A p \in pool.first : ProviderPasses(p)

\* _classify_member: a principalSet of a pool, whichever; a principal of one
\* or a deleted member is "other".
Federated(member) == member \in {"pool", "other_pool"}
DecryptRoles == {"decrypter", "administrator"}

BindingsPass(bindings) ==
  \A b \in bindings : b.role \in DecryptRoles => Federated(b.member)

-------------------------------------------------------------------------------
\* Google: who may decrypt

\* A token: its issuer and what its claims say.
Claims == {"dbgstat", "digest", "subject"}
Tokens == [issuer : Issuers, claims : SUBSET Claims]

\* Confidential Space issues true tokens; another issuer may say anything.
AttestedToken(token) ==
  token.issuer = "confidential_space" /\ {"dbgstat", "digest"} \subseteq token.claims

True(atom, token) ==
  CASE atom = "not_dbgstat"  -> "dbgstat" \notin token.claims
    [] atom = "digest_named" -> TRUE
    [] atom = "subject_sha"  -> "subject" \in token.claims
    [] OTHER                 -> atom \in token.claims

Met(condition, token) ==
  \/ condition.atoms = {}
  \/ condition.joined = "all" /\ \A a \in condition.atoms : True(a, token)
  \/ condition.joined = "any" /\ \E a \in condition.atoms : True(a, token)

Admits(provider, token) ==
  /\ provider.state = "ACTIVE" /\ ~provider.disabled
  /\ provider.issuer = token.issuer
  /\ Met(provider.condition, token)

\* The bindings somebody may decrypt by.
Grants(bindings) ==
  {b \in bindings : /\ b.role \in {"decrypter", "other_decrypter"}
                    /\ b.member # "deleted" /\ ~b.lapsed}

\* A member outside the pool needs no token of it.
GoogleDecrypts(pool, bindings, token) ==
  \E b \in Grants(bindings) :
    b.member \in {"pool", "pool_principal"} =>
      \E p \in pool.first \cup pool.rest : Admits(p, token)

-------------------------------------------------------------------------------
\* Where the reading is coarser than the exchange

PlainCondition(c) ==
  /\ c.joined = "all" \/ \A a, b \in c.atoms : a = b
  /\ c.atoms \cap {"not_dbgstat", "subject_sha"} = {}
Providers(pool) == pool.first \cup pool.rest

\* Only the first page of providers is read, a provider without an OIDC issuer
\* is judged by its condition alone and a lookalike as Confidential Space's, any
\* pool counts as the attested one, a role that is not listed as none.
PlainPool(pool, bindings) ==
  /\ pool.rest = {}
  /\ \A p \in Providers(pool) :
       PlainCondition(p.condition) /\ p.issuer \notin {"none", "lookalike"}
  /\ \A b \in bindings : b.member # "other_pool" /\ b.role # "other_decrypter"

\* A provider that is off, an administrator, a member that is gone, one principal
\* of the pool and a binding that has lapsed are held against the key.
LiveProvider(p) == PlainCondition(p.condition) /\ ~p.disabled
LiveBinding(b) ==
  b.role # "administrator" /\ b.member \notin {"pool_principal", "deleted"} /\ ~b.lapsed
===============================================================================
