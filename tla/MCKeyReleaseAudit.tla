-------------------------- MODULE MCKeyReleaseAudit --------------------------
(* Key policies of one statement with up to two conditions or of two        *)
(* statements with one, pools of two providers on one or two pages, release *)
(* policies of up to two branches, each with every provider and option.     *)
EXTENDS KeyReleaseAudit, FiniteSets

CONSTANTS No, Bad  \* model values: the option is not given, a document is damaged

\* Nitro
Condition(operators, keys, values) == [operator : operators, key : keys, values : values]
SomeValues == {{"expected"}, {"zeros"}, {"any"}, {"expected", "zeros"}}
MCConditions ==
  Condition(Kms!ValidOperators \cup Kms!OtherOperators, {"code", "identity", "custom", "source"},
            SomeValues)
OneConditions == Condition({"equals", "differs"}, {"code", "identity", "custom"},
                           {{"expected"}, {"zeros"}})
Statement(effects, actions, conditions) ==
  [effect : effects, action : actions, conditions : conditions]
AtMostOne(S) == {{}} \cup {{x} : x \in S}
AtMostTwo(S) == {{}} \cup {{x, y} : x, y \in S}
Small == Statement({"Allow", "Deny"}, {"decrypt", "pattern"}, AtMostOne(OneConditions))
KeyPolicies ==
  {{s} : s \in Statement({"Allow"}, {"decrypt"}, AtMostTwo(MCConditions))}
  \cup {{s} : s \in Statement({"Allow"}, {"all", "pattern", "other"}, AtMostOne(MCConditions))}
  \cup {{s, t} : s, t \in Small}
  \cup {{}, Bad}
Nitro == [platform : {"nitro"}, key_id : {"id", No}, key_policy : KeyPolicies]

\* Confidential Space
Wanted == {"dbgstat", "digest"}
Good == [joined |-> "all", atoms |-> Wanted]
CelConditions ==
  [joined : {"all", "any"},
   atoms : {a \in SUBSET {"dbgstat", "not_dbgstat", "digest", "digest_named", "subject", "subject_sha"} :
              Cardinality(a) <= 3}]
ProviderSet(states, disabled, issuers, conditions) ==
  [state : states, disabled : disabled, issuer : issuers, condition : conditions]
AnyProvider ==
  ProviderSet({"ACTIVE", "DELETED"}, {FALSE}, Wif!Issuers, CelConditions)
  \cup ProviderSet({"ACTIVE"}, {TRUE}, {"confidential_space", "elsewhere"}, CelConditions)
GoodProvider ==
  [state |-> "ACTIVE", disabled |-> FALSE, issuer |-> "confidential_space", condition |-> Good]
Pool(primary, first, rest) == [primary |-> primary, first |-> first, rest |-> rest]
Pools ==
  {Pool(p, {p}, {}) : p \in AnyProvider}
  \cup {Pool(GoodProvider, {GoodProvider, p}, {}) : p \in AnyProvider}
  \cup {Pool(GoodProvider, {GoodProvider}, {p}) : p \in AnyProvider}
Grant(role, member) == [role |-> role, member |-> member, lapsed |-> FALSE]
MCBindings == {{}} \cup {{b, c} : b, c \in Wif!Binding}
PoolBindings == {Grant("decrypter", "pool")}
Gcp ==
  [platform : {"gcp"}, pool : Pools \cup {No}, bindings : {PoolBindings}]
  \cup [platform : {"gcp"}, pool : {Pool(GoodProvider, {GoodProvider}, {})},
        bindings : MCBindings \cup {No}]

\* Azure
Branch(authority, all, any) == [authority |-> authority, all |-> all, any |-> any]
Key(branches) == [policy |-> "given", branches |-> branches]
AllClaims == {"tee", "compliant", "debug_off", "other"}
Enough == {{"tee", "compliant"}, {"tee", "debug_off"}}
Hosts == {"shared", "shared_named", "custom1", "custom2", "foreign", "none"}
NamedClaims == {{"tee", "compliant_named"}, {"tee_named", "compliant"}}
Branches ==
  {Branch(h, all, any) : h \in Hosts, all \in SUBSET AllClaims,
                         any \in {{}, {"tee"}, {"compliant", "debug_off"}, AllClaims}}
  \cup {Branch(h, all, {}) : h \in Hosts, all \in NamedClaims}
GoodBranches == {Branch(h, {"tee", "compliant"}, {}) : h \in {"shared", "custom1", "none"}}
Keys ==
  {Key({b}) : b \in Branches} \cup {Key({b, c}) : b \in Branches, c \in GoodBranches}
  \cup {Key({}), [policy |-> "none", branches |-> {}], Bad}
FewKeys == {Key({b}) : b \in {Branch(h, {"tee", "compliant"}, {}) : h \in Hosts}} \cup {Key({})}
Provided ==
  [host : {"custom1"}, trust : {"AAD", "Isolated"}, status : {"Ready", "NotReady", "unsaid"}]
  \cup [host : {"shared_named"}, trust : {"AAD"}, status : {"Ready"}]
Azure ==
  [platform : {"azure"}, key : Keys \cup {No}, provider : Provided \cup {No}]
  \cup [platform : {"azure_hsm"}, key : FewKeys \cup {No}, provider : Provided \cup {No}]

MCDeployments == Nitro \cup Gcp \cup Azure
MCVersions ==
  [key_policy |-> {{[effect |-> "Allow", action |-> "decrypt", conditions |-> {}]}, {}},
   pool |-> {Pool(GoodProvider, {GoodProvider}, {}),
             Pool(GoodProvider, {GoodProvider, [GoodProvider EXCEPT !.issuer = "elsewhere"]}, {})},
   bindings |-> {PoolBindings, {Grant("decrypter", "public")}},
   key |-> FewKeys,
   provider |-> Provided]
MCEditable ==
  {d \in Azure : d.platform = "azure" /\ d.key \in FewKeys}
  \cup {d \in Gcp : d.pool \in MCVersions.pool /\ d.bindings \in MCVersions.bindings}
===============================================================================
