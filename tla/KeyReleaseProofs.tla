--------------------------- MODULE KeyReleaseProofs ---------------------------
(***************************************************************************)
(* Theorems about KeyReleaseAudit, for any documents, edited at any point  *)
(* of a scan.  First what a pass of the checks' predicates says of a       *)
(* document, then that every pass of a scan is one of those predicates'.   *)
(***************************************************************************)
EXTENDS KeyReleaseAudit, TLAPS

\* A key policy KMS-01 passes, read as finely as KMS does, lets none but
\* enclaves that run the expected code decrypt.
LEMMA KmsPolicySound ==
  ASSUME NEW policy, Kms!PolicyPasses(policy), Kms!PlainPolicy(policy),
         NEW e \in Kms!Enclaves, Kms!KmsDecrypts(policy, e)
  PROVE  Kms!RunsExpectedCode(e)
<1>1. PICK s \in policy : s.effect = "Allow" /\ Kms!Applies(s, e)
  BY DEF Kms!KmsDecrypts
<1>2. Kms!PlainStatement(s)
  BY DEF Kms!PlainPolicy
<1>3. Kms!GrantsDecrypt(s)
  BY <1>1, <1>2 DEF Kms!GrantsDecrypt, Kms!Applies, Kms!PlainStatement
<1>4. Kms!Protected(s)
  BY <1>3 DEF Kms!PolicyPasses
<1>5. PICK k \in {"code", "custom"} : Kms!Expected(s, k) \ {"zeros"} # {}
  BY <1>4 DEF Kms!Protected, Kms!Effective, Kms!Trivial
<1>6. PICK c \in s.conditions :
        /\ c.key = k /\ c.operator \in {"equals", "like", "for_all"}
        /\ \E v \in c.values : v # "zeros"
  BY <1>5 DEF Kms!Expected, Kms!ValidOperators
<1>7. c.operator # "for_all" /\ c.values = {"expected"}
  BY <1>2, <1>6 DEF Kms!PlainStatement
<1>8. Kms!Holds(c, e)
  BY <1>1 DEF Kms!Applies
<1>9. e[k] = "expected"
  <2>1. CASE c.operator = "equals"
    BY <1>6, <1>7, <1>8, <2>1 DEF Kms!Holds, Kms!AttestationKeys
  <2>2. CASE c.operator = "like"
    BY <1>6, <1>7, <1>8, <2>2 DEF Kms!Holds, Kms!AttestationKeys
  <2>3. QED
    BY <1>6, <1>7, <2>1, <2>2
<1>10. QED
  BY <1>9 DEF Kms!RunsExpectedCode

\* A pool and bindings CSPACE-WIF-02 and CSPACE-KMS-01 pass, read as finely as
\* Google does, admit attested tokens only.
LEMMA WifPoolSound ==
  ASSUME NEW pool, NEW bindings, Wif!BindingsPass(bindings), Wif!SiblingsPass(pool),
         Wif!PlainPool(pool, bindings),
         NEW t \in Wif!Tokens, Wif!GoogleDecrypts(pool, bindings, t)
  PROVE  Wif!AttestedToken(t)
<1>1. PICK b \in bindings :
        /\ b.role \in {"decrypter", "other_decrypter"}
        /\ b.member \in {"pool", "pool_principal"} =>
             \E p \in pool.first \cup pool.rest : Wif!Admits(p, t)
  BY DEF Wif!GoogleDecrypts, Wif!Grants
<1>2. b.member = "pool"
  BY <1>1 DEF Wif!BindingsPass, Wif!Federated, Wif!PlainPool, Wif!DecryptRoles
<1>3. PICK p \in pool.first : Wif!Admits(p, t)
  BY <1>1, <1>2 DEF Wif!PlainPool
<1>4. /\ Wif!PlainCondition(p.condition)
      /\ p.issuer \notin {"none", "lookalike"}
  BY DEF Wif!PlainPool, Wif!Providers
<1>5. /\ p.issuer # "elsewhere"
      /\ Wif!ConditionPasses(p.condition)
  BY <1>3 DEF Wif!SiblingsPass, Wif!ProviderPasses, Wif!Admits
<1>6. "dbgstat" \in p.condition.atoms /\ "digest" \in p.condition.atoms
  BY <1>4, <1>5 DEF Wif!ConditionPasses, Wif!BindsDebugStatus, Wif!PinsImage,
                    Wif!PlainCondition
<1>7. p.condition.joined = "all"
  BY <1>4, <1>6 DEF Wif!PlainCondition
<1>8. Wif!Met(p.condition, t) /\ p.issuer = t.issuer
  BY <1>3 DEF Wif!Admits
<1>9. \A a \in p.condition.atoms : Wif!True(a, t)
  BY <1>6, <1>7, <1>8 DEF Wif!Met
<1>10. "dbgstat" \in t.claims /\ "digest" \in t.claims
  BY <1>6, <1>9 DEF Wif!True
<1>11. t.issuer = "confidential_space"
  BY <1>4, <1>5, <1>8 DEF Wif!Tokens, Wif!Issuers
<1>12. QED
  BY <1>10, <1>11 DEF Wif!AttestedToken

\* A key AZ-SKR-01 passes, of whose authorities AZ-MAA-01 trusts every one, and
\* whose names are what they look like, is released to attested virtual machines
\* only.
LEMMA ReleasePolicySound ==
  ASSUME NEW key, NEW provider, Skr!KeyPasses(key), Skr!AuthoritiesPass(key, provider),
         Skr!PlainNames(key), NEW providers,
         \A h \in Skr!Custom :
           provider.host = h => providers[h].trust = provider.trust,
         NEW t \in Skr!Statements, Skr!AzureReleases(key, t)
  PROVE  Skr!AttestedVm(t, providers)
<1>1. PICK b \in key.branches : b.authority = t.authority /\ b.all \subseteq t.claims
  BY DEF Skr!AzureReleases, Skr!KeyPasses
<1>2. /\ Skr!BranchPasses(b)
      /\ b.authority # "shared_named" /\ {"tee_named", "compliant_named"} \cap b.all = {}
  BY DEF Skr!KeyPasses, Skr!PlainNames
<1>3. "tee" \in t.claims /\ {"compliant", "debug_off"} \cap t.claims # {}
  BY <1>1, <1>2 DEF Skr!BranchPasses, Skr!Conditions
<1>4. b.authority \in Skr!MaaHosts
  BY <1>2 DEF Skr!BranchPasses
<1>5. b.authority \in Skr!Authorities(key)
  BY <1>4 DEF Skr!Authorities, Skr!MaaHosts, Skr!Custom
<1>6. Skr!ProviderTrusted(b.authority, provider)
  BY <1>5 DEF Skr!AuthoritiesPass
<1>7. Skr!Truthful(t.authority, providers)
  BY <1>1, <1>2, <1>4, <1>6 DEF Skr!Truthful, Skr!ProviderTrusted, Skr!MaaHosts
<1>8. QED
  BY <1>3, <1>7 DEF Skr!AttestedVm

-------------------------------------------------------------------------------
(***************************************************************************)
(* The strengthening: a verdict is the predicate's of what the check had   *)
(* read, all of it; and a token that expired in the cache is on record.      *)
(***************************************************************************)
Judged(c) ==
  /\ verdicts[c] \in {"PASS", "FAIL"} =>
       /\ verdicts[c] = Verdict(c, evidence[c])
       /\ Len(evidence[c]) = Len(Reads(c)) \/ c = "AZ-MAA-01"
  /\ verdicts[c] = "SKIP" =>
       evidence[c] = <<>> \/ verdicts[c] = Verdict(c, evidence[c])
VerdictsAreJudged == \A c \in CheckIds : Judged(c)
VerdictsInOrder ==
  /\ VerdictsAreJudged
  /\ verdicts \in [CheckIds -> {"none", "PASS", "FAIL", "ERROR", "SKIP"}]
  /\ DOMAIN evidence = CheckIds
  /\ at \in 1..(Len(Checks) + 1)
ExpiredIsRecorded == \A r \in Resources : tokens[r] = "expired" => r \in expired

Types ==
  /\ "platform" \in DOMAIN docs /\ docs.platform \in Platforms
  /\ DOMAIN evidence = CheckIds
  /\ TypeOK

IInv == Types /\ VerdictsAreJudged /\ ExpiredIsRecorded /\ UnauthorizedMeansExpiredOrHsm

\* The checks of a platform are among the known ones.
LEMMA ChecksAreKnown ==
  ASSUME Types, Running
  PROVE  at \in DOMAIN Checks /\ Checks[at] \in CheckIds /\ at + 1 \in 1..(Len(Checks) + 1)
BY DEF Types, TypeOK, Running, Checks, CheckIds, Registry, Platforms, AzurePlatforms

LEMMA InitIInv == Init => IInv
<1> SUFFICES ASSUME Init PROVE IInv
  OBVIOUS
<1>1. "platform" \in DOMAIN docs /\ docs.platform \in Platforms
  BY DeploymentsAssumption DEF Init
<1>2. at \in 1..(Len(Checks) + 1)
  BY <1>1 DEF Init, Checks, Registry, Platforms, AzurePlatforms
<1>3. edits \in 0..MaxEdits
  BY BoundAssumption DEF Init
<1>4. /\ tokens \in [Resources -> {"none", "fresh", "expired"}]
      /\ expired \subseteq Resources
      /\ ExpiredIsRecorded
  BY DEF Init, ExpiredIsRecorded
<1>5. /\ verdicts \in [CheckIds -> {"none", "PASS", "FAIL", "ERROR", "SKIP"}]
      /\ VerdictsAreJudged
  BY DEF Init, VerdictsAreJudged, Judged
<1>6. DOMAIN evidence = CheckIds /\ rejected = {}
  BY DEF Init
<1>7. QED
  BY <1>1, <1>2, <1>3, <1>4, <1>5, <1>6 DEF IInv, Types, TypeOK, UnauthorizedMeansExpiredOrHsm

\* A check that ends in ERROR, in SKIP on nothing or with its predicate's
\* verdict on all it reads, leaves every verdict judged.
LEMMA ConcludeJudged ==
  ASSUME Types, VerdictsAreJudged, Running, UNCHANGED docs,
         NEW status \in {"PASS", "FAIL", "ERROR", "SKIP"}, NEW read,
         Conclude(status, read),
         \/ status = "ERROR"
         \/ status = "SKIP" /\ read = <<>>
         \/ /\ status = Verdict(Checks[at], read)
            /\ Len(read) = Len(Reads(Checks[at])) \/ Checks[at] = "AZ-MAA-01"
  PROVE  VerdictsInOrder'
<1>1. Checks[at] \in CheckIds /\ at + 1 \in 1..(Len(Checks) + 1)
  BY ChecksAreKnown
<1>2. /\ verdicts' \in [CheckIds -> {"none", "PASS", "FAIL", "ERROR", "SKIP"}]
      /\ DOMAIN evidence' = CheckIds
      /\ at' \in 1..(Len(Checks') + 1)
  BY <1>1 DEF Conclude, Types, TypeOK, Checks
<1>3. ASSUME NEW c \in CheckIds PROVE Judged(c)'
  <2>1. Len(Reads(c)) = Len(Reads(c))' \/ c = "AZ-MAA-01"
    BY DEF Reads, CheckIds
  <2>2. CASE c = Checks[at]
    <3>1. verdicts'[c] = status /\ evidence'[c] = read
      BY <1>1, <2>2 DEF Conclude, Types, TypeOK
    <3>2. QED
      BY <2>1, <2>2, <3>1 DEF Judged
  <2>3. CASE c # Checks[at]
    <3>1. verdicts'[c] = verdicts[c] /\ evidence'[c] = evidence[c]
      BY <2>3 DEF Conclude, Types, TypeOK
    <3>2. QED
      BY <2>1, <3>1 DEF Judged, VerdictsAreJudged
  <2>4. QED
    BY <2>2, <2>3
<1>4. QED
  BY <1>2, <1>3 DEF VerdictsInOrder, VerdictsAreJudged

\* An answer ends the check as that lemma wants, or is kept.
LEMMA AnswerJudged ==
  ASSUME Types, VerdictsAreJudged, Running, UNCHANGED docs, Answer
  PROVE  VerdictsInOrder'
<1> DEFINE read == Append(got, docs[Document])
<1>1. CASE docs[Document] = Garbled
  <2>1. Conclude("ERROR", read)
    BY <1>1 DEF Answer
  <2>2. QED
    BY <2>1, ConcludeJudged
<1>2. CASE docs[Document] # Garbled /\ Len(read) = Len(Reads(Checks[at]))
  <2>1. Conclude(Verdict(Checks[at], read), read)
    BY <1>2 DEF Answer
  <2>2. Verdict(Checks[at], read) \in {"PASS", "FAIL", "ERROR", "SKIP"}
    BY ChecksAreKnown DEF Verdict, MaaVerdict, Status, CheckIds
  <2>3. QED
    BY <1>2, <2>1, <2>2, ConcludeJudged
<1>3. CASE docs[Document] # Garbled /\ Len(read) # Len(Reads(Checks[at]))
  <2>1. UNCHANGED <<at, verdicts, evidence, docs>>
    BY <1>3 DEF Answer
  <2>2. ASSUME NEW c \in CheckIds PROVE Judged(c)'
    <3>1. Len(Reads(c)) = Len(Reads(c))' \/ c = "AZ-MAA-01"
      BY DEF Reads, CheckIds
    <3>2. QED
      BY <2>1, <3>1 DEF VerdictsAreJudged, Judged
  <2>3. QED
    BY <2>1, <2>2 DEF VerdictsInOrder, VerdictsAreJudged, Types, TypeOK, Checks
<1>4. QED
  BY <1>1, <1>2, <1>3

LEMMA RefuseJudged ==
  ASSUME Types, VerdictsAreJudged, Running, UNCHANGED docs, Refuse
  PROVE  VerdictsInOrder'
BY ConcludeJudged DEF Refuse

LEMMA ResourceType == \A d : Resource(d) \in Resources
BY DEF Resource, Resources

LEMMA NextIInv == IInv /\ [Next]_vars => IInv'
<1> SUFFICES ASSUME IInv, [Next]_vars PROVE IInv'
  OBVIOUS
<1> USE DEF IInv, Types, VerdictsInOrder
<1>1. CASE Skip
  <2>1. VerdictsInOrder'
    BY <1>1, ConcludeJudged DEF Skip
  <2>2. QED
    BY <1>1, <2>1 DEF Skip, TypeOK, ExpiredIsRecorded, UnauthorizedMeansExpiredOrHsm
<1>2. CASE Ask
  <2>1. VerdictsInOrder'
    BY <1>2, AnswerJudged, RefuseJudged DEF Ask
  <2>2. QED
    BY <1>2, <2>1 DEF Ask, TypeOK, ExpiredIsRecorded, UnauthorizedMeansExpiredOrHsm
<1>3. CASE AskAzure
  <2>1. VerdictsInOrder'
    BY <1>3, AnswerJudged, RefuseJudged DEF AskAzure
  <2>2. tokens' \in [Resources -> {"none", "fresh", "expired"}] /\ ExpiredIsRecorded'
    BY <1>3, ResourceType DEF AskAzure, UseToken, TypeOK, ExpiredIsRecorded
  <2>3. QED
    BY <1>3, <2>1, <2>2 DEF AskAzure, TypeOK, UnauthorizedMeansExpiredOrHsm
<1>4. CASE AskWithoutToken
  <2>1. VerdictsInOrder'
    BY <1>4, RefuseJudged DEF AskWithoutToken
  <2>2. QED
    BY <1>4, <2>1 DEF AskWithoutToken, NoToken, TypeOK, ExpiredIsRecorded,
                      UnauthorizedMeansExpiredOrHsm
<1>5. CASE AskUnauthorized
  <2>1. VerdictsInOrder'
    BY <1>5, RefuseJudged DEF AskUnauthorized
  <2>2. /\ tokens' \in [Resources -> {"none", "fresh", "expired"}]
        /\ ExpiredIsRecorded'
    BY <1>5, ResourceType DEF AskUnauthorized, UseToken, TypeOK, ExpiredIsRecorded
  <2>3. \/ Resource(Document) \in expired
        \/ <<Resource(Document), Accepts(Document)>> = <<"vault", "managed_hsm">>
    BY <1>5, ResourceType DEF AskUnauthorized, ExpiredIsRecorded, Resource, Accepts
  <2>4. UnauthorizedMeansExpiredOrHsm'
    BY <1>5, <2>3 DEF AskUnauthorized, UnauthorizedMeansExpiredOrHsm
  <2>5. QED
    BY <1>5, <2>1, <2>2, <2>4 DEF AskUnauthorized, TypeOK
<1>6. CASE Expire
  <2>1. /\ tokens' \in [Resources -> {"none", "fresh", "expired"}]
        /\ expired' \subseteq Resources /\ expired \subseteq expired'
        /\ ExpiredIsRecorded'
    BY <1>6 DEF Expire, TypeOK, ExpiredIsRecorded
  <2>2. VerdictsAreJudged'
    BY <1>6 DEF Expire, VerdictsAreJudged, Judged, Reads, Given
  <2>3. QED
    BY <1>6, <2>1, <2>2 DEF Expire, TypeOK, UnauthorizedMeansExpiredOrHsm, Checks
<1>7. CASE Edit
  <2>1. "platform" \in DOMAIN docs' /\ docs'.platform = docs.platform
    BY <1>7, VersionsAssumption DEF Edit
  <2>2. edits' \in 0..MaxEdits
    BY <1>7, BoundAssumption DEF Edit, TypeOK
  <2>3. ASSUME NEW c \in CheckIds PROVE Judged(c)'
    <3>1. Len(Reads(c)) = Len(Reads(c))' \/ c = "AZ-MAA-01"
      BY DEF Reads, CheckIds
    <3>2. QED
      BY <1>7, <3>1 DEF Edit, VerdictsAreJudged, Judged
  <2>4. QED
    BY <1>7, <2>1, <2>2, <2>3
       DEF Edit, TypeOK, VerdictsAreJudged, ExpiredIsRecorded, UnauthorizedMeansExpiredOrHsm, Checks
<1>8. CASE UNCHANGED vars
  <2>1. VerdictsAreJudged'
    BY <1>8 DEF vars, VerdictsAreJudged, Judged, Reads, Given
  <2>2. QED
    BY <1>8, <2>1 DEF vars, TypeOK, ExpiredIsRecorded, UnauthorizedMeansExpiredOrHsm, Checks
<1>9. QED
  BY <1>1, <1>2, <1>3, <1>4, <1>5, <1>6, <1>7, <1>8 DEF Next

LEMMA Invariance == Spec => []IInv
BY InitIInv, NextIInv, PTL DEF Spec

-------------------------------------------------------------------------------
\* The types of KeyReleaseAudit's variables (TypeOK).
THEOREM TypeCorrect == Spec => []TypeOK
<1>1. IInv => TypeOK
  BY DEF IInv, Types
<1>2. QED
  BY <1>1, Invariance, PTL

\* When a platform's release checks pass, the key is given to attested code only
\* (ReleasedOnlyToAttestedCode), whatever the documents are and whenever they are
\* edited, with the exceptions that property names.
THEOREM OnlyAttestedCode == Spec => []ReleasedOnlyToAttestedCode
<1>1. IInv => NitroReleases
  <2> SUFFICES ASSUME IInv, Passed("KMS-01"), Kms!PlainPolicy(Last("KMS-01"))
               PROVE  \A e \in Kms!Enclaves :
                        Kms!KmsDecrypts(Last("KMS-01"), e) => Kms!RunsExpectedCode(e)
    BY DEF NitroReleases
  <2>1. /\ Verdict("KMS-01", evidence["KMS-01"]) = "PASS"
        /\ Len(evidence["KMS-01"]) = 2
    BY DEF IInv, VerdictsAreJudged, Judged, Passed, Reads, CheckIds
  <2>2. Kms!PolicyPasses(Last("KMS-01"))
    BY <2>1 DEF Verdict, Status, Last
  <2>3. QED
    BY <2>2, KmsPolicySound
<1>2. IInv => GcpReleases
  <2> DEFINE pool == Last("CSPACE-WIF-02")
             bindings == Last("CSPACE-KMS-01")
  <2> SUFFICES ASSUME IInv, Passed("CSPACE-KMS-01"), Passed("CSPACE-WIF-02"),
                      Wif!PlainPool(pool, bindings)
               PROVE  \A t \in Wif!Tokens :
                        Wif!GoogleDecrypts(pool, bindings, t) => Wif!AttestedToken(t)
    BY DEF GcpReleases
  <2>1. /\ Verdict("CSPACE-WIF-02", evidence["CSPACE-WIF-02"]) = "PASS"
        /\ Len(evidence["CSPACE-WIF-02"]) = 1
        /\ Verdict("CSPACE-KMS-01", evidence["CSPACE-KMS-01"]) = "PASS"
        /\ Len(evidence["CSPACE-KMS-01"]) = 1
    BY DEF IInv, VerdictsAreJudged, Judged, Passed, Reads, CheckIds
  <2>2. Wif!SiblingsPass(pool) /\ Wif!BindingsPass(bindings)
    BY <2>1 DEF Verdict, Status, Last
  <2>3. QED
    BY <2>2, WifPoolSound
<1>3. IInv => AzureReleases
  <2> DEFINE key == Last("AZ-SKR-01")
             provider == Provider(evidence["AZ-MAA-01"])
  <2> SUFFICES ASSUME IInv, Passed("AZ-SKR-01"), Passed("AZ-MAA-01"),
                      evidence["AZ-MAA-01"][1] = key, Skr!PlainNames(key)
               PROVE  \A t \in Skr!Statements :
                        Skr!AzureReleases(key, t) => Skr!AttestedVm(t, Authorities)
    BY DEF AzureReleases
  <2>1. /\ Verdict("AZ-SKR-01", evidence["AZ-SKR-01"]) = "PASS"
        /\ Len(evidence["AZ-SKR-01"]) = 1
        /\ MaaVerdict(evidence["AZ-MAA-01"]) = "PASS"
    BY DEF IInv, VerdictsAreJudged, Judged, Passed, Reads, CheckIds, Verdict
  <2>2. Skr!KeyPasses(key)
    BY <2>1 DEF Verdict, Status, Last
  <2>3. Skr!AuthoritiesPass(key, provider)
    BY <2>1 DEF MaaVerdict, Status
  <2>4. \A h \in Skr!Custom : provider.host = h => Authorities[h].trust = provider.trust
    BY DEF Authorities
  <2>5. QED
    BY <2>2, <2>3, <2>4, ReleasePolicySound
<1>4. IInv => ReleasedOnlyToAttestedCode
  BY <1>1, <1>2, <1>3 DEF ReleasedOnlyToAttestedCode
<1>5. QED
  BY <1>4, Invariance, PTL

\* AZ-MAA-01 never steps aside for want of an authority when AZ-SKR-01 passed the
\* same key (SkippedAuthorityIsNoPass).
THEOREM NoSilentSkip == Spec => []SkippedAuthorityIsNoPass
<1>1. IInv => SkippedAuthorityIsNoPass
  <2> DEFINE key == Last("AZ-SKR-01")
  <2> SUFFICES ASSUME IInv, Passed("AZ-SKR-01"), evidence["AZ-MAA-01"] # <<>>,
                      evidence["AZ-MAA-01"][1] = key, verdicts["AZ-MAA-01"] = "SKIP"
               PROVE  FALSE
    BY DEF SkippedAuthorityIsNoPass
  <2>1. /\ Verdict("AZ-SKR-01", evidence["AZ-SKR-01"]) = "PASS"
        /\ Len(evidence["AZ-SKR-01"]) = 1
        /\ MaaVerdict(evidence["AZ-MAA-01"]) = "SKIP"
    BY DEF IInv, VerdictsAreJudged, Judged, Passed, Reads, CheckIds, Verdict
  <2>2. Skr!KeyPasses(key)
    BY <2>1 DEF Verdict, Status, Last
  <2>3. Skr!Authorities(key) = {}
    BY <2>1 DEF MaaVerdict, Status
  <2>4. PICK b \in key.branches : b.authority \in Skr!MaaHosts
    BY <2>2 DEF Skr!KeyPasses, Skr!BranchPasses
  <2>5. QED
    BY <2>3, <2>4 DEF Skr!Authorities, Skr!MaaHosts, Skr!Custom
<1>2. QED
  BY <1>1, Invariance, PTL

\* A 401 comes of a token that expired in the cache, or of a managed HSM that is
\* shown the vault's (UnauthorizedMeansExpiredOrHsm).
THEOREM NoFailureCached == Spec => []UnauthorizedMeansExpiredOrHsm
<1>1. IInv => UnauthorizedMeansExpiredOrHsm
  BY DEF IInv
<1>2. QED
  BY <1>1, Invariance, PTL

-------------------------------------------------------------------------------
(***************************************************************************)
(* The other direction: what a failure says of a document.                 *)
(***************************************************************************)

\* A key policy KMS-01 fails, of statements that allow somebody something, lets
\* an enclave decrypt that does not run the expected code: one that measures
\* whatever a condition does not name.
LEMMA KmsFailureReal ==
  ASSUME NEW policy, policy \subseteq Kms!Statement, ~Kms!PolicyPasses(policy),
         Kms!ReadInFull(policy)
  PROVE  \E e \in Kms!Enclaves : Kms!KmsDecrypts(policy, e) /\ ~Kms!RunsExpectedCode(e)
<1>1. PICK s \in policy : Kms!GrantsDecrypt(s) /\ ~Kms!Protected(s)
  BY DEF Kms!PolicyPasses
<1>2. PICK e \in Kms!Enclaves : Kms!Applies(s, e)
  BY DEF Kms!ReadInFull, Kms!Satisfiable
<1>3. ASSUME NEW f \in Kms!Enclaves, Kms!Applies(s, f), ~Kms!RunsExpectedCode(f)
      PROVE  \E g \in Kms!Enclaves : Kms!KmsDecrypts(policy, g) /\ ~Kms!RunsExpectedCode(g)
  BY <1>1, <1>3 DEF Kms!KmsDecrypts, Kms!ReadInFull
<1>4. CASE ~Kms!RunsExpectedCode(e)
  BY <1>2, <1>3, <1>4
<1>5. CASE Kms!RunsExpectedCode(e)
  <2>1. e \in [{"code", "identity", "custom"} -> {"expected", "other"}]
    BY <1>5 DEF Kms!Enclaves, Kms!Measures, Kms!RunsExpectedCode
  <2> DEFINE f == [k \in {"code", "identity", "custom"} |->
                     IF k = "identity" THEN e["identity"] ELSE "other"]
  <2>2. f \in Kms!Enclaves /\ ~Kms!RunsExpectedCode(f)
    BY <2>1 DEF Kms!Enclaves, Kms!RunsExpectedCode
  <2>3. /\ f["identity"] = e["identity"] /\ f["code"] = "other" /\ f["custom"] = "other"
        /\ e["code"] \in {"expected", "other"} /\ e["custom"] \in {"expected", "other"}
    BY <2>1
  <2> HIDE DEF f
  <2>4. ASSUME NEW c \in s.conditions PROVE Kms!Holds(c, f)
    <3>1. /\ c.operator \in Kms!ValidOperators \cup Kms!OtherOperators
          /\ c.key \in Kms!AttestationKeys \cup {"source"}
          /\ c.values \subseteq {"expected", "zeros", "any"}
      BY <1>1 DEF Kms!Statement, Kms!Condition
    <3>2. Kms!Holds(c, e)
      BY <1>2 DEF Kms!Applies
    <3>3. CASE c.key = "source"
      BY <3>3 DEF Kms!Holds, Kms!AttestationKeys
    <3>4. CASE c.key = "identity"
      BY <2>3, <3>2, <3>4 DEF Kms!Holds
    <3>5. CASE c.key \in {"code", "custom"} /\ c.operator \in Kms!ValidOperators
      <4>1. c.values \subseteq {"zeros"}
        BY <1>1, <3>5 DEF Kms!Protected, Kms!Effective, Kms!Expected, Kms!Trivial,
           Kms!AttestationKeys
      <4>2. e[c.key] \in {"expected", "other"}
        BY <2>3, <3>5
      <4>3. ~Kms!Holds(c, e)
        <5>1. CASE c.operator = "equals"
          BY <3>5, <4>1, <4>2, <5>1 DEF Kms!Holds, Kms!AttestationKeys
        <5>2. CASE c.operator = "like"
          BY <3>5, <4>1, <4>2, <5>2 DEF Kms!Holds, Kms!AttestationKeys
        <5>3. CASE c.operator = "for_all"
          BY <3>5, <4>1, <4>2, <5>3 DEF Kms!Holds, Kms!AttestationKeys
        <5>4. QED
          BY <3>5, <5>1, <5>2, <5>3 DEF Kms!ValidOperators
      <4>4. QED
        BY <3>2, <4>3
    <3>6. CASE c.key \in {"code", "custom"} /\ c.operator \in Kms!OtherOperators
      <4>1. f[c.key] = "other" /\ "other" \notin c.values
        BY <2>3, <3>1, <3>6
      <4>2. c.operator \in {"present", "differs"}
        BY <1>1, <3>6 DEF Kms!ReadInFull, Kms!UnreadBinding, Kms!OtherOperators
      <4>3. CASE c.operator = "present"
        BY <3>6, <4>1, <4>3 DEF Kms!Holds
      <4>4. CASE c.operator = "differs"
        BY <3>6, <4>1, <4>4 DEF Kms!Holds
      <4>5. QED
        BY <4>2, <4>3, <4>4
    <3>7. QED
      BY <3>1, <3>3, <3>4, <3>5, <3>6 DEF Kms!AttestationKeys
  <2>5. s.action \in {"decrypt", "all", "pattern"}
    BY <1>2 DEF Kms!Applies
  <2>6. Kms!Applies(s, f)
    BY <2>4, <2>5 DEF Kms!Applies
  <2>7. QED
    BY <1>3, <2>2, <2>6
<1>6. QED
  BY <1>4, <1>5

\* A condition of true atoms is met, however they are joined.
LEMMA MetByAll ==
  ASSUME NEW c, c.joined \in {"all", "any"}, NEW t, \A a \in c.atoms : Wif!True(a, t)
  PROVE  Wif!Met(c, t)
  BY DEF Wif!Met

\* A conjunction that does not pass is met by a token of any issuer that lacks one
\* of the two claims.
LEMMA ConditionFailureReal ==
  ASSUME NEW c \in Wif!Condition, Wif!PlainCondition(c), ~Wif!ConditionPasses(c),
         NEW issuer \in Wif!Issuers
  PROVE  \E t \in Wif!Tokens : t.issuer = issuer /\ Wif!Met(c, t) /\ ~Wif!AttestedToken(t)
<1>1. /\ c.atoms \subseteq {"dbgstat", "digest", "digest_named", "subject"}
      /\ c.joined \in {"all", "any"}
  BY DEF Wif!Condition, Wif!PlainCondition, Wif!Atoms
<1>2. PICK x \in {"dbgstat", "digest"} : x \notin c.atoms
  BY DEF Wif!ConditionPasses, Wif!BindsDebugStatus, Wif!PinsImage
<1> DEFINE t == [issuer |-> issuer, claims |-> Wif!Claims \ {x}]
<1>3. t \in Wif!Tokens /\ t.issuer = issuer /\ ~Wif!AttestedToken(t)
  BY <1>2 DEF Wif!Tokens, Wif!AttestedToken
<1>4. \A a \in c.atoms : Wif!True(a, t)
  BY <1>1, <1>2 DEF Wif!True, Wif!Claims
<1>5. Wif!Met(c, t)
  BY <1>1, <1>4, MetByAll
<1>6. QED
  BY <1>3, <1>5

\* A live provider that does not pass admits a token that attests to nothing.
LEMMA ProviderFailureReal ==
  ASSUME NEW p \in Wif!Provider, Wif!LiveProvider(p), ~Wif!ProviderPasses(p)
  PROVE  \E t \in Wif!Tokens : Wif!Admits(p, t) /\ ~Wif!AttestedToken(t)
<1>1. /\ p.state = "ACTIVE" /\ ~p.disabled /\ p.issuer \in Wif!Issuers
      /\ p.condition \in Wif!Condition /\ Wif!PlainCondition(p.condition)
  BY DEF Wif!Provider, Wif!ProviderPasses, Wif!LiveProvider
<1>2. CASE ~Wif!ConditionPasses(p.condition)
  BY <1>1, <1>2, ConditionFailureReal DEF Wif!Admits
<1>3. CASE p.issuer = "elsewhere"
  <2> DEFINE t == [issuer |-> "elsewhere", claims |-> Wif!Claims]
  <2>1. t \in Wif!Tokens /\ ~Wif!AttestedToken(t)
    BY DEF Wif!Tokens, Wif!Issuers, Wif!AttestedToken
  <2>2. /\ p.condition.atoms \subseteq {"dbgstat", "digest", "digest_named", "subject"}
        /\ p.condition.joined \in {"all", "any"}
    BY <1>1 DEF Wif!Condition, Wif!PlainCondition, Wif!Atoms
  <2>3. \A a \in p.condition.atoms : Wif!True(a, t)
    BY <2>2 DEF Wif!True, Wif!Claims
  <2>4. Wif!Met(p.condition, t)
    BY <2>2, <2>3, MetByAll
  <2>5. QED
    BY <1>1, <1>3, <2>1, <2>4 DEF Wif!Admits
<1>4. QED
  BY <1>1, <1>2, <1>3 DEF Wif!ProviderPasses

\* A live binding of the key to anybody who is not in a pool needs no token.
LEMMA BindingsFailureReal ==
  ASSUME NEW bindings, bindings \subseteq Wif!Binding, ~Wif!BindingsPass(bindings),
         \A b \in bindings : Wif!LiveBinding(b)
  PROVE  \E t \in Wif!Tokens :
           Wif!GoogleDecrypts(NoProviders, bindings, t) /\ ~Wif!AttestedToken(t)
<1>1. PICK b \in bindings : b.role \in Wif!DecryptRoles /\ b.member \notin {"pool", "other_pool"}
  BY DEF Wif!BindingsPass, Wif!Federated
<1>2. b \in Wif!Grants(bindings) /\ b.member \notin {"pool", "pool_principal"}
  BY <1>1 DEF Wif!Grants, Wif!LiveBinding, Wif!DecryptRoles
<1> DEFINE t == [issuer |-> "none", claims |-> {}]
<1>3. t \in Wif!Tokens /\ ~Wif!AttestedToken(t)
  BY DEF Wif!Tokens, Wif!Issuers, Wif!AttestedToken
<1>4. Wif!GoogleDecrypts(NoProviders, bindings, t)
  BY <1>2 DEF Wif!GoogleDecrypts
<1>5. QED
  BY <1>3, <1>4

\* A release policy AZ-SKR-01 fails releases the key to a token that attests to no
\* VM, from an authority of no account or without a claim.
LEMMA KeyFailureReal ==
  ASSUME NEW key \in Skr!Key, Skr!PlainKey(key), ~Skr!KeyPasses(key), NEW providers
  PROVE  \E t \in Skr!Statements : Skr!AzureReleases(key, t) /\ ~Skr!AttestedVm(t, providers)
<1> DEFINE foreign == [authority |-> "foreign", claims |-> Skr!Claims]
<1>1. foreign \in Skr!Statements /\ ~Skr!AttestedVm(foreign, providers)
  BY DEF Skr!Statements, Skr!AttestedVm, Skr!Truthful, Skr!Custom
<1>2. CASE key.policy = "none"
  BY <1>1, <1>2 DEF Skr!AzureReleases
<1>3. CASE key.policy = "given"
  <2>1. PICK b \in key.branches : ~Skr!BranchPasses(b) /\ b.any = {} /\ b.authority # "none"
    BY <1>3 DEF Skr!PlainKey, Skr!KeyPasses
  <2>2. b.authority \in Skr!MaaHosts \cup {"foreign"} /\ b.all \subseteq Skr!Claims
    BY <2>1 DEF Skr!Key, Skr!Branch
  <2> DEFINE t == [authority |-> b.authority, claims |-> b.all]
  <2>3. t \in Skr!Statements /\ Skr!AzureReleases(key, t)
    BY <2>1, <2>2 DEF Skr!Statements, Skr!AzureReleases
  <2>4. CASE b.authority = "foreign"
    BY <2>3, <2>4 DEF Skr!AttestedVm, Skr!Truthful, Skr!Custom
  <2>5. CASE b.authority \in Skr!MaaHosts
    BY <2>1, <2>3, <2>5 DEF Skr!AttestedVm, Skr!BranchPasses, Skr!Conditions
  <2>6. QED
    BY <2>2, <2>4, <2>5
<1>4. QED
  BY <1>2, <1>3 DEF Skr!Key

(***************************************************************************)
(* A failure was judged on a document of its kind, decoded.  This needs    *)
(* the documents' own types, which edits keep, and that a check is never   *)
(* further than its second document.                                       *)
(***************************************************************************)
DocumentsAreTyped ==
  /\ docs.platform \in Platforms
  /\ DOMAIN docs = {"platform"} \cup Documents(docs.platform)
  /\ \A d \in Documents(docs.platform) : IsDocument(d, docs[d])

Halfway == got = <<got[1]>> /\ Running /\ Len(Reads(Checks[at])) = 2

JudgedDocument(c) ==
  CASE c = "KMS-01"                                -> "key_policy"
    [] c \in {"CSPACE-KEYBIND-01", "CSPACE-WIF-02"} -> "pool"
    [] c = "CSPACE-KMS-01"                         -> "bindings"
    [] OTHER                                       -> "key"
FailuresAreOfDocuments ==
  \A c \in CheckIds \ {"AZ-MAA-01"} :
    verdicts[c] = "FAIL" => Decoded(JudgedDocument(c), Last(c))

DocsInv == DocumentsAreTyped /\ (got = <<>> \/ Halfway) /\ FailuresAreOfDocuments

LEMMA InitDocsInv == Init => DocsInv
<1> SUFFICES ASSUME Init PROVE DocsInv
  OBVIOUS
<1>1. DocumentsAreTyped
  BY DeploymentsAssumption DEF Init, DocumentsAreTyped
<1>2. FailuresAreOfDocuments
  BY DEF Init, FailuresAreOfDocuments
<1>3. QED
  BY <1>1, <1>2 DEF Init, DocsInv

LEMMA ConcludeKeepsDocs ==
  ASSUME Types, DocsInv, Running, UNCHANGED docs, NEW status, NEW read, Conclude(status, read),
         \/ status # "FAIL"
         \/ Checks[at] = "AZ-MAA-01"
         \/ Decoded(JudgedDocument(Checks[at]), read[Len(read)])
  PROVE  DocsInv'
<1>1. DocumentsAreTyped' /\ got' = <<>>
  BY DEF DocsInv, DocumentsAreTyped, Conclude
<1>2. \A d, x : Decoded(d, x)' = Decoded(d, x)
  BY DEF Decoded
<1>3. ASSUME NEW c \in CheckIds \ {"AZ-MAA-01"}, verdicts'[c] = "FAIL"
      PROVE  Decoded(JudgedDocument(c), Last(c)')
  <2>1. CASE c = Checks[at]
    <3>1. verdicts'[c] = status /\ evidence'[c] = read
      BY <2>1 DEF Conclude, Types, TypeOK
    <3>2. QED
      BY <1>3, <2>1, <3>1 DEF Last
  <2>2. CASE c # Checks[at]
    <3>1. verdicts'[c] = verdicts[c] /\ evidence'[c] = evidence[c]
      BY <2>2 DEF Conclude, Types, TypeOK
    <3>2. QED
      BY <1>3, <3>1 DEF DocsInv, FailuresAreOfDocuments, Last
  <2>3. QED
    BY <2>1, <2>2
<1>4. FailuresAreOfDocuments'
  BY <1>2, <1>3 DEF FailuresAreOfDocuments, JudgedDocument
<1>5. QED
  BY <1>1, <1>4 DEF DocsInv

\* The document a check asks for is there, and is not one that was not given.
LEMMA DocumentThere ==
  ASSUME Types, DocsInv, Running, Ready
  PROVE  /\ Document \in Documents(docs.platform)
         /\ docs[Document] = Garbled \/ Decoded(Document, docs[Document])
         /\ Len(Append(got, docs[Document])) = Len(got) + 1
         /\ Append(got, docs[Document])[Len(got) + 1] = docs[Document]
         /\ Len(got) + 1 = Len(Reads(Checks[at])) /\ Checks[at] # "AZ-MAA-01"
              => Document = JudgedDocument(Checks[at])
         /\ Len(got) + 1 # Len(Reads(Checks[at])) => got = <<>> /\ Len(Reads(Checks[at])) = 2
<1>1. PICK c : c = Checks[at]
  OBVIOUS
<1>2. /\ docs.platform = "nitro" => c = "KMS-01"
      /\ docs.platform = "gcp" => c \in {"CSPACE-KEYBIND-01", "CSPACE-KMS-01", "CSPACE-WIF-02"}
      /\ OnAzure => c \in {"AZ-SKR-01", "AZ-MAA-01"}
  BY <1>1, ChecksAreKnown DEF Checks, Registry, OnAzure, AzurePlatforms
<1>3. docs.platform \in {"nitro", "gcp"} \/ OnAzure
  BY DEF Types, Platforms, OnAzure, AzurePlatforms
<1>4. /\ got = <<>> => Len(got) = 0
      /\ got = <<got[1]>> => Len(got) = 1
  OBVIOUS
<1>5. /\ Len(Append(got, docs[Document])) = Len(got) + 1
      /\ Append(got, docs[Document])[Len(got) + 1] = docs[Document]
  <2>1. CASE got = <<>>
    BY <2>1
  <2>2. CASE got = <<got[1]>>
    BY <2>2
  <2>3. QED
    BY <2>1, <2>2 DEF DocsInv, Halfway
<1>6. /\ Len(got) \in {0, 1} /\ Len(got) + 1 <= Len(Reads(c)) /\ Len(Reads(c)) \in {1, 2}
      /\ Len(got) + 1 # Len(Reads(c)) => got = <<>> /\ Len(Reads(c)) = 2
  <2>1. Len(Reads(c)) \in {1, 2}
    BY <1>2, <1>3 DEF Reads
  <2>2. CASE got = <<>>
    BY <1>4, <2>1, <2>2
  <2>3. CASE Halfway
    <3>1. got = <<got[1]>> /\ Len(Reads(c)) = 2
      BY <1>1, <2>3 DEF Halfway
    <3>2. Len(got) = 1
      BY <1>4, <3>1
    <3>3. QED
      BY <3>1, <3>2
  <2>4. QED
    BY <2>2, <2>3 DEF DocsInv
<1>7. Document = Reads(c)[Len(got) + 1] /\ Given(Reads(c)[1])
  BY <1>1 DEF Document, Ready
<1>8. /\ Document \in Documents(docs.platform)
      /\ Document = Reads(c)[1] \/ Document = "key_policy"
           \/ Document = "provider"
      /\ Len(got) + 1 = Len(Reads(c)) /\ c # "AZ-MAA-01" => Document = JudgedDocument(c)
  <2>1. CASE Len(got) = 0
    BY <1>2, <1>3, <1>6, <1>7, <2>1 DEF Reads, Documents, JudgedDocument, OnAzure, AzurePlatforms
  <2>2. CASE Len(got) = 1
    BY <1>2, <1>3, <1>6, <1>7, <2>2 DEF Reads, Documents, JudgedDocument, OnAzure, AzurePlatforms
  <2>3. QED
    BY <1>6, <2>1, <2>2
<1>9. IsDocument(Document, docs[Document])
  BY <1>8 DEF DocsInv, DocumentsAreTyped
<1>10. docs[Document] = Garbled \/ Decoded(Document, docs[Document])
  <2>1. CASE Document = Reads(c)[1]
    BY <1>7, <1>9, <2>1 DEF IsDocument, Given
  <2>2. CASE Document = "key_policy"
    BY <1>9, <2>2 DEF IsDocument
  <2>3. CASE Document = "provider"
    BY <2>3 DEF Decoded
  <2>4. QED
    BY <1>8, <2>1, <2>2, <2>3
<1>11. QED
  BY <1>1, <1>5, <1>6, <1>8, <1>10

LEMMA AnswerKeepsDocs ==
  ASSUME Types, DocsInv, Running, Ready, UNCHANGED docs, Answer
  PROVE  DocsInv'
<1> DEFINE read == Append(got, docs[Document])
<1>1. CASE docs[Document] = Garbled
  <2>1. Conclude("ERROR", read)
    BY <1>1 DEF Answer
  <2>2. QED
    BY <2>1, ConcludeKeepsDocs
<1>2. CASE docs[Document] # Garbled /\ Len(read) = Len(Reads(Checks[at]))
  <2>1. Conclude(Verdict(Checks[at], read), read)
    BY <1>2 DEF Answer
  <2>2. Checks[at] # "AZ-MAA-01" => Decoded(JudgedDocument(Checks[at]), read[Len(read)])
    BY <1>2, DocumentThere
  <2>3. QED
    BY <2>1, <2>2, ConcludeKeepsDocs
<1>3. CASE docs[Document] # Garbled /\ Len(read) # Len(Reads(Checks[at]))
  <2>1. UNCHANGED <<at, verdicts, evidence>> /\ got' = read
    BY <1>3 DEF Answer
  <2>2. got = <<>> /\ Len(Reads(Checks[at])) = 2
    BY <1>3, DocumentThere
  <2>3. got' = <<got'[1]>>
    BY <2>1, <2>2
  <2>4. /\ Running' /\ Checks'[at'] = Checks[at]
        /\ Reads(Checks[at])' = Reads(Checks[at])
    BY <2>1 DEF Running, Checks, Reads, Given
  <2>5. Halfway'
    BY <2>2, <2>3, <2>4 DEF Halfway
  <2>6. FailuresAreOfDocuments' /\ DocumentsAreTyped'
    BY <2>1 DEF DocsInv, FailuresAreOfDocuments, DocumentsAreTyped, Last
  <2>7. QED
    BY <2>5, <2>6 DEF DocsInv
<1>4. QED
  BY <1>1, <1>2, <1>3

LEMMA NextDocsInv == IInv /\ DocsInv /\ [Next]_vars => DocsInv'
<1> SUFFICES ASSUME IInv, DocsInv, [Next]_vars PROVE DocsInv'
  OBVIOUS
<1>0. Types
  BY DEF IInv
<1>1. ASSUME Running, Refuse, UNCHANGED docs PROVE DocsInv'
  BY <1>0, <1>1, ConcludeKeepsDocs DEF Refuse
<1>2. CASE Skip
  BY <1>0, <1>2, ConcludeKeepsDocs DEF Skip
<1>3. CASE Ask
  BY <1>0, <1>1, <1>3, AnswerKeepsDocs DEF Ask
<1>4. CASE AskAzure
  BY <1>0, <1>1, <1>4, AnswerKeepsDocs DEF AskAzure
<1>5. CASE AskWithoutToken
  BY <1>1, <1>5 DEF AskWithoutToken
<1>6. CASE AskUnauthorized
  BY <1>1, <1>6 DEF AskUnauthorized
<1>7. CASE Expire \/ UNCHANGED vars
  <2>1. UNCHANGED <<docs, at, got, verdicts, evidence>>
    BY <1>7 DEF Expire, vars
  <2>2. QED
    BY <2>1 DEF DocsInv, DocumentsAreTyped, Halfway, FailuresAreOfDocuments, Running, Checks,
       Reads, Given, Last
<1>8. CASE Edit
  <2>1. PICK d \in DOMAIN docs \cap DOMAIN Versions : \E v \in Versions[d] \ {docs[d]} :
          Given(d) /\ docs' = [docs EXCEPT ![d] = v]
    BY <1>8 DEF Edit
  <2>2. PICK v \in Versions[d] : Given(d) /\ docs' = [docs EXCEPT ![d] = v]
    BY <2>1
  <2>3. d # "platform" /\ v # NotGiven /\ IsDocument(d, v)
    BY <2>1, <2>2, VersionsAssumption
  <2>4. /\ DOMAIN docs' = DOMAIN docs /\ docs'[d] = v
        /\ \A x \in DOMAIN docs \ {d} : docs'[x] = docs[x]
    BY <2>1, <2>2
  <2>5. docs'.platform = docs.platform
    BY <1>0, <2>3, <2>4 DEF Types
  <2>6. DocumentsAreTyped'
    <3>1. ASSUME NEW x \in Documents(docs.platform) PROVE IsDocument(x, docs'[x])
      BY <2>3, <2>4 DEF DocsInv, DocumentsAreTyped
    <3>2. QED
      BY <2>4, <2>5, <3>1 DEF DocsInv, DocumentsAreTyped, IsDocument, Decoded
  <2>7. UNCHANGED <<at, got, verdicts, evidence>>
    BY <1>8 DEF Edit
  <2>8. Checks' = Checks /\ (Running' <=> Running)
    BY <2>5, <2>7 DEF Checks, Running
  <2>9. ASSUME Halfway PROVE Halfway'
    <3>1. Checks[at] \in CheckIds
      BY <1>0, <2>9, ChecksAreKnown DEF Halfway
    <3>2. CASE Checks[at] # "AZ-MAA-01"
      <4>1. Reads(Checks[at])' = Reads(Checks[at])
        BY <2>7, <2>8, <3>1, <3>2 DEF Reads, CheckIds
      <4>2. QED
        BY <2>7, <2>8, <2>9, <4>1 DEF Halfway
    <3>3. CASE Checks[at] = "AZ-MAA-01"
      <4>1. Given("provider")
        BY <2>9, <3>3 DEF Halfway, Reads
      <4>2. OnAzure
        BY <1>0, <2>9, <3>3, ChecksAreKnown DEF Types, Halfway, Checks, Registry, OnAzure, Platforms
      <4>3. "provider" \in DOMAIN docs
        BY <4>2 DEF DocsInv, DocumentsAreTyped, Documents, OnAzure, AzurePlatforms
      <4>4. docs'["provider"] # NotGiven
        BY <2>3, <2>4, <4>1, <4>3 DEF Given
      <4>5. Len(Reads(Checks[at])') = 2
        BY <2>7, <2>8, <3>3, <4>4 DEF Reads, Given
      <4>6. QED
        BY <2>7, <2>8, <2>9, <4>5 DEF Halfway
    <3>4. QED
      BY <3>2, <3>3
  <2>10. FailuresAreOfDocuments'
    BY <2>7 DEF DocsInv, FailuresAreOfDocuments, Last, Decoded, JudgedDocument
  <2>11. QED
    BY <2>6, <2>7, <2>9, <2>10 DEF DocsInv
<1>9. QED
  BY <1>2, <1>3, <1>4, <1>5, <1>6, <1>7, <1>8 DEF Next

LEMMA DocsInvariance == Spec => []DocsInv
<1>1. Init => DocsInv
  BY InitDocsInv
<1>2. IInv /\ DocsInv /\ [Next]_vars => DocsInv'
  BY NextDocsInv
<1>3. QED
  BY <1>1, <1>2, Invariance, PTL DEF Spec

\* No release check cries wolf (FailureIsReal): when one fails, then on the
\* document it read somebody who runs no attested code is given the key, with the
\* exceptions that property names.
THEOREM FailuresAreReal == Spec => []FailureIsReal
<1>1. ASSUME IInv, DocsInv, NEW c \in CheckIds \ {"AZ-MAA-01"}, Failed(c)
      PROVE  Verdict(c, evidence[c]) = "FAIL" /\ Decoded(JudgedDocument(c), Last(c))
             /\ Len(evidence[c]) = Len(Reads(c))
  BY <1>1 DEF IInv, VerdictsAreJudged, Judged, Failed, DocsInv, FailuresAreOfDocuments
<1>2. IInv /\ DocsInv => NitroFailure
  <2> SUFFICES ASSUME IInv, DocsInv, Failed("KMS-01"), Kms!ReadInFull(Last("KMS-01"))
               PROVE  \E e \in Kms!Enclaves :
                        Kms!KmsDecrypts(Last("KMS-01"), e) /\ ~Kms!RunsExpectedCode(e)
    BY DEF NitroFailure
  <2>1. /\ Verdict("KMS-01", evidence["KMS-01"]) = "FAIL" /\ Len(evidence["KMS-01"]) = 2
        /\ Last("KMS-01") \subseteq Kms!Statement
    BY <1>1 DEF CheckIds, Reads, JudgedDocument, Decoded
  <2>2. ~Kms!PolicyPasses(Last("KMS-01"))
    BY <2>1 DEF Verdict, Status, Last
  <2>3. QED
    BY <2>1, <2>2, KmsFailureReal
<1>3. ASSUME IInv, DocsInv, Failed("CSPACE-KEYBIND-01"),
             Wif!PlainCondition(Last("CSPACE-KEYBIND-01").primary.condition)
      PROVE  \E t \in Wif!Tokens :
               /\ t.issuer = "confidential_space"
               /\ Wif!Met(Last("CSPACE-KEYBIND-01").primary.condition, t)
               /\ ~Wif!AttestedToken(t)
  <2>1. /\ Verdict("CSPACE-KEYBIND-01", evidence["CSPACE-KEYBIND-01"]) = "FAIL"
        /\ Len(evidence["CSPACE-KEYBIND-01"]) = 1
        /\ Last("CSPACE-KEYBIND-01") \in Wif!Pool
    BY <1>1, <1>3 DEF CheckIds, Reads, JudgedDocument, Decoded
  <2>2. ~Wif!ConditionPasses(Last("CSPACE-KEYBIND-01").primary.condition)
    BY <2>1 DEF Verdict, Status, Last, Wif!PrimaryPasses
  <2>3. Last("CSPACE-KEYBIND-01").primary.condition \in Wif!Condition
    BY <2>1 DEF Wif!Pool, Wif!Provider
  <2>4. QED
    BY <1>3, <2>2, <2>3, ConditionFailureReal DEF Wif!Issuers
<1>4. ASSUME IInv, DocsInv, Failed("CSPACE-WIF-02"),
             \A p \in Last("CSPACE-WIF-02").first : Wif!LiveProvider(p)
      PROVE  \E t \in Wif!Tokens :
               (\E p \in Last("CSPACE-WIF-02").first : Wif!Admits(p, t)) /\ ~Wif!AttestedToken(t)
  <2>1. /\ Verdict("CSPACE-WIF-02", evidence["CSPACE-WIF-02"]) = "FAIL"
        /\ Len(evidence["CSPACE-WIF-02"]) = 1
        /\ Last("CSPACE-WIF-02") \in Wif!Pool
    BY <1>1, <1>4 DEF CheckIds, Reads, JudgedDocument, Decoded
  <2>2. ~Wif!SiblingsPass(Last("CSPACE-WIF-02"))
    BY <2>1 DEF Verdict, Status, Last
  <2>3. PICK p \in Last("CSPACE-WIF-02").first : ~Wif!ProviderPasses(p)
    BY <2>2 DEF Wif!SiblingsPass
  <2>4. p \in Wif!Provider
    BY <2>1 DEF Wif!Pool
  <2>5. QED
    BY <1>4, <2>3, <2>4, ProviderFailureReal
<1>5. ASSUME IInv, DocsInv, Failed("CSPACE-KMS-01"),
             \A b \in Last("CSPACE-KMS-01") : Wif!LiveBinding(b)
      PROVE  \E t \in Wif!Tokens : /\ Wif!GoogleDecrypts(NoProviders, Last("CSPACE-KMS-01"), t)
                                   /\ ~Wif!AttestedToken(t)
  <2>1. /\ Verdict("CSPACE-KMS-01", evidence["CSPACE-KMS-01"]) = "FAIL"
        /\ Len(evidence["CSPACE-KMS-01"]) = 1
        /\ Last("CSPACE-KMS-01") \subseteq Wif!Binding
    BY <1>1, <1>5 DEF CheckIds, Reads, JudgedDocument, Decoded
  <2>2. ~Wif!BindingsPass(Last("CSPACE-KMS-01"))
    BY <2>1 DEF Verdict, Status, Last
  <2>3. QED
    BY <1>5, <2>1, <2>2, BindingsFailureReal
<1>6. IInv /\ DocsInv => GcpFailure
  BY <1>3, <1>4, <1>5 DEF GcpFailure, Unattested
<1>7. ASSUME IInv, DocsInv, Failed("AZ-SKR-01"), Skr!PlainKey(Last("AZ-SKR-01"))
      PROVE  \E t \in Skr!Statements : /\ Skr!AzureReleases(Last("AZ-SKR-01"), t)
                                       /\ ~Skr!AttestedVm(t, Authorities)
  <2>1. /\ Verdict("AZ-SKR-01", evidence["AZ-SKR-01"]) = "FAIL"
        /\ Len(evidence["AZ-SKR-01"]) = 1
        /\ Last("AZ-SKR-01") \in Skr!Key
    BY <1>1, <1>7 DEF CheckIds, Reads, JudgedDocument, Decoded
  <2>2. ~Skr!KeyPasses(Last("AZ-SKR-01"))
    BY <2>1 DEF Verdict, Status, Last
  <2>3. QED
    BY <1>7, <2>1, <2>2, KeyFailureReal
<1>8. ASSUME IInv, Failed("AZ-MAA-01")
      PROVE  LET read == evidence["AZ-MAA-01"]
             IN \/ \E h \in Skr!Authorities(read[1]) : ~Skr!Truthful(h, Authorities)
                \/ Provider(read).host # "none" /\ read[2].status \notin {"Ready", "unsaid"}
  <2> DEFINE read == evidence["AZ-MAA-01"]
  <2>1. MaaVerdict(read) = "FAIL"
    BY <1>8 DEF IInv, VerdictsAreJudged, Judged, Failed, CheckIds, Verdict
  <2>2. PICK h \in Skr!Authorities(read[1]) : ~Skr!ProviderTrusted(h, Provider(read))
    BY <2>1 DEF MaaVerdict, Status, Skr!AuthoritiesPass
  <2>3. h # "shared" /\ h # "none"
    BY <2>2 DEF Skr!ProviderTrusted, Skr!Authorities
  <2>4. CASE Skr!Truthful(h, Authorities)
    <3>1. h \in Skr!Custom /\ Authorities[h].trust = "Isolated"
      BY <2>3, <2>4 DEF Skr!Truthful
    <3>2. Provider(read).host = h /\ Provider(read).trust = "Isolated"
      BY <3>1 DEF Authorities
    <3>3. Provider(read).status \notin {"Ready", "unsaid"}
      BY <2>2, <3>2 DEF Skr!ProviderTrusted
    <3>4. Provider(read) = read[2]
      BY <2>3, <3>2 DEF Provider
    <3>5. QED
      BY <2>3, <3>2, <3>3, <3>4
  <2>5. QED
    BY <2>2, <2>4
<1>9. IInv /\ DocsInv => AzureFailure
  BY <1>7, <1>8 DEF AzureFailure
<1>10. IInv /\ DocsInv => FailureIsReal
  BY <1>2, <1>6, <1>9 DEF FailureIsReal
<1>11. QED
  BY <1>10, Invariance, DocsInvariance, PTL
===============================================================================
