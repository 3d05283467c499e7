--------------------------- MODULE KeyReleaseAudit ---------------------------
(***************************************************************************)
(* The checks that decide who is given the key, of one platform's scan:    *)
(* KMS-01 on Nitro, CSPACE-KEYBIND-01, -KMS-01 and -WIF-02 on Confidential *)
(* Space, AZ-SKR-01 and AZ-MAA-01 on Azure, read by read.  The key's owner *)
(* may edit the documents between two reads, and any call may be refused.  *)
(* Azure's access tokens are cached by the process, one per resource, and  *)
(* may expire while they are.  An Azure key is in a vault or, on platform  *)
(* "azure_hsm", in a managed HSM.                                          *)
(***************************************************************************)
EXTENDS Naturals, Sequences

CONSTANTS
  NotGiven,     \* the option that names the document is not given
  Garbled,      \* the document cannot be decoded
  Deployments,  \* the documents a scan may start with: records of a platform's
  Versions,     \* document -> what it may be edited to
  Editable,     \* bound: the deployments that are edited during a scan
  MaxEdits      \* bound: how often

Kms == INSTANCE KmsKeyPolicy
Wif == INSTANCE WifPool
Skr == INSTANCE ReleasePolicy

AzurePlatforms == {"azure", "azure_hsm"}
Platforms == {"nitro", "gcp"} \cup AzurePlatforms

\* The documents of a platform, and what they may hold.
Documents(platform) ==
  CASE platform = "nitro" -> {"key_id", "key_policy"}
    [] platform = "gcp"   -> {"pool", "bindings"}
    [] platform \in AzurePlatforms -> {"key", "provider"}

\* The content of a document that could be decoded.
Decoded(d, content) ==
  /\ d = "key_policy" => content \subseteq Kms!Statement
  /\ d = "pool"       => content \in Wif!Pool
  /\ d = "bindings"   => content \subseteq Wif!Binding
  /\ d = "key"        => content \in Skr!Key

\* Only the key policy is no option of its own: it goes with the key's id.
IsDocument(d, content) ==
  \/ content = Garbled
  \/ content = NotGiven /\ d # "key_policy"
  \/ Decoded(d, content)

ASSUME DeploymentsAssumption ==
  \A deployment \in Deployments :
    /\ "platform" \in DOMAIN deployment
    /\ deployment.platform \in Platforms
    /\ DOMAIN deployment = {"platform"} \cup Documents(deployment.platform)
    /\ \A d \in Documents(deployment.platform) : IsDocument(d, deployment[d])
ASSUME VersionsAssumption ==
  /\ "platform" \notin DOMAIN Versions
  /\ \A d \in DOMAIN Versions : \A content \in Versions[d] :
       content # NotGiven /\ IsDocument(d, content)
ASSUME BoundAssumption == MaxEdits \in Nat

VARIABLES
  docs,      \* document -> its content
  edits,     \* how often one was edited; at its bound, none will be
  tokens,    \* Azure resource -> "none", "fresh" or "expired", as cached
  at,        \* position of the check that runs
  got,       \* what it has read so far
  verdicts,  \* check -> "none", then its status
  evidence,  \* history: check -> what it had read
  rejected,  \* history: requests answered with 401: whose token, whose host
  expired    \* history: the resources whose token has expired in the cache

vars == <<docs, edits, tokens, at, got, verdicts, evidence, rejected, expired>>

OnAzure == docs.platform \in AzurePlatforms

Registry(platform) ==
  CASE platform = "nitro" -> <<"KMS-01">>
    [] platform = "gcp"   -> <<"CSPACE-KEYBIND-01", "CSPACE-KMS-01", "CSPACE-WIF-02">>
    [] platform \in AzurePlatforms -> <<"AZ-SKR-01", "AZ-MAA-01">>

Checks == Registry(docs.platform)
CheckIds == {"KMS-01", "CSPACE-KEYBIND-01", "CSPACE-KMS-01", "CSPACE-WIF-02",
             "AZ-SKR-01", "AZ-MAA-01"}

Given(d) == docs[d] # NotGiven

\* The documents a check asks for, in order.
Reads(c) ==
  CASE c = "KMS-01" -> <<"key_id", "key_policy">>
    [] c \in {"CSPACE-KEYBIND-01", "CSPACE-WIF-02"} -> <<"pool">>
    [] c = "CSPACE-KMS-01" -> <<"bindings">>
    [] c = "AZ-SKR-01" -> <<"key">>
    [] c = "AZ-MAA-01" -> IF Given("provider") THEN <<"key", "provider">> ELSE <<"key">>

\* Mutant: one token for every request.
ResourceShared(d) == "management"

\* The resource whose token a request carries, and the one its host accepts.
Resource(d) == IF d = "key" THEN "vault" ELSE "management"
Resources == {"vault", "management"}
Accepts(d) == IF d = "key" /\ docs.platform = "azure_hsm" THEN "managed_hsm"
              ELSE IF d = "key" THEN "vault"
              ELSE "management"

\* The checks that read a virtual machine and its disk come first and may leave
\* a token.
Init ==
  /\ docs \in Deployments
  /\ edits = IF docs \in Editable THEN 0 ELSE MaxEdits
  /\ tokens \in {t \in [Resources -> {"none", "fresh"}] : t["vault"] = "none"}
  /\ ~OnAzure => tokens["management"] = "none"
  /\ at = 1
  /\ got = <<>>
  /\ verdicts = [c \in CheckIds |-> "none"]
  /\ evidence = [c \in CheckIds |-> <<>>]
  /\ rejected = {}
  /\ expired = {}

-------------------------------------------------------------------------------
\* What a check makes of what it has read

Provider(read) == IF Len(read) = 2 THEN read[2] ELSE [host |-> "none"]

Status(passes) == IF passes THEN "PASS" ELSE "FAIL"

MaaVerdict(read) ==
  IF Skr!Authorities(read[1]) = {} THEN "SKIP"
  ELSE Status(Skr!AuthoritiesPass(read[1], Provider(read)))

Verdict(c, read) ==
  CASE c = "KMS-01"            -> Status(Kms!PolicyPasses(read[2]))
    [] c = "CSPACE-KEYBIND-01" -> Status(Wif!PrimaryPasses(read[1]))
    [] c = "CSPACE-KMS-01"     -> Status(Wif!BindingsPass(read[1]))
    [] c = "CSPACE-WIF-02"     -> Status(Wif!SiblingsPass(read[1]))
    [] c = "AZ-SKR-01"         -> Status(Skr!KeyPasses(read[1]))
    [] c = "AZ-MAA-01"         -> MaaVerdict(read)

-------------------------------------------------------------------------------
\* Actions

Running == at <= Len(Checks)
Document == Reads(Checks[at])[Len(got) + 1]

\* The option a check needs: the first document's.
Ready == Given(Reads(Checks[at])[1])

Conclude(status, read) ==
  /\ verdicts' = [verdicts EXCEPT ![Checks[at]] = status]
  /\ evidence' = [evidence EXCEPT ![Checks[at]] = read]
  /\ at' = at + 1
  /\ got' = <<>>

Skip ==
  /\ Running /\ ~Ready
  /\ Conclude("SKIP", <<>>)
  /\ UNCHANGED <<docs, edits, tokens, rejected, expired>>

\* Mutant: whatever the acquisition returned is cached.
NoTokenCached(resource) ==
  /\ tokens[resource] = "none"
  /\ tokens' = [tokens EXCEPT ![resource] = "expired"]

\* A token cannot be acquired: nothing is cached.
NoToken(resource) ==
  /\ tokens[resource] = "none"
  /\ UNCHANGED tokens

\* There is a cached token, or one is acquired and cached.
UseToken(resource) ==
  /\ tokens[resource] # "expired"
  /\ tokens' = [tokens EXCEPT ![resource] = "fresh"]

\* The document is read; the last one is judged.  A key whose policy cannot be
\* decoded ends the check before the provider is read.
Answer ==
  LET read == Append(got, docs[Document])
  IN IF docs[Document] = Garbled THEN Conclude("ERROR", read)
     ELSE IF Len(read) = Len(Reads(Checks[at]))
     THEN Conclude(Verdict(Checks[at], read), read)
     ELSE got' = read /\ UNCHANGED <<at, verdicts, evidence>>

Refuse == Conclude("ERROR", got)

\* A request with boto3's or Google's own credentials.
Ask ==
  /\ Running /\ Ready
  /\ ~OnAzure
  /\ Answer \/ Refuse
  /\ UNCHANGED <<docs, edits, tokens, rejected, expired>>

AskAzure ==
  /\ Running /\ Ready
  /\ OnAzure
  /\ UseToken(Resource(Document))
  /\ \/ Resource(Document) = Accepts(Document) /\ Answer
     \/ Refuse
  /\ UNCHANGED <<docs, edits, rejected, expired>>

AskWithoutToken ==
  /\ Running /\ Ready
  /\ OnAzure
  /\ NoToken(Resource(Document))
  /\ Refuse
  /\ UNCHANGED <<docs, edits, rejected, expired>>

\* 401: the token has expired, or is for another resource than the host's.  It
\* stays in the cache.
AskUnauthorized ==
  /\ Running /\ Ready
  /\ OnAzure
  /\ \/ tokens[Resource(Document)] = "expired" /\ UNCHANGED tokens
     \/ Resource(Document) # Accepts(Document) /\ UseToken(Resource(Document))
  /\ Refuse
  /\ rejected' = rejected \cup {<<Resource(Document), Accepts(Document)>>}
  /\ UNCHANGED <<docs, edits, expired>>

Expire ==
  /\ Running
  /\ \E r \in Resources :
       /\ tokens[r] = "fresh"
       /\ tokens' = [tokens EXCEPT ![r] = "expired"]
       /\ expired' = expired \cup {r}
  /\ UNCHANGED <<docs, edits, at, got, verdicts, evidence, rejected>>

Edit ==
  /\ Running
  /\ edits < MaxEdits
  /\ \E d \in DOMAIN docs \cap DOMAIN Versions : \E v \in Versions[d] \ {docs[d]} :
       /\ Given(d)
       /\ docs' = [docs EXCEPT ![d] = v]
  /\ edits' = edits + 1
  /\ UNCHANGED <<tokens, at, got, verdicts, evidence, rejected, expired>>

Next == Skip \/ Ask \/ AskAzure \/ AskWithoutToken \/ AskUnauthorized \/ Expire \/ Edit

Spec == Init /\ [][Next]_vars

-------------------------------------------------------------------------------
\* Properties

TypeOK ==
  /\ edits \in 0..MaxEdits
  /\ tokens \in [Resources -> {"none", "fresh", "expired"}]
  /\ at \in 1..(Len(Checks) + 1)
  /\ verdicts \in [CheckIds -> {"none", "PASS", "FAIL", "ERROR", "SKIP"}]
  /\ expired \subseteq Resources

Passed(c) == verdicts[c] = "PASS"
Failed(c) == verdicts[c] = "FAIL"
Last(c) == evidence[c][Len(evidence[c])]

\* The custom authorities, all but the one that was read at their worst.
Authorities ==
  LET read == Provider(evidence["AZ-MAA-01"])
  IN [h \in Skr!Custom |-> [trust |-> IF read.host = h THEN read.trust ELSE "AAD"]]

NitroReleases ==
  Passed("KMS-01") /\ Kms!PlainPolicy(Last("KMS-01")) =>
    \A e \in Kms!Enclaves : Kms!KmsDecrypts(Last("KMS-01"), e) => Kms!RunsExpectedCode(e)

GcpReleases ==
  LET pool == Last("CSPACE-WIF-02")
      bindings == Last("CSPACE-KMS-01")
  IN Passed("CSPACE-KMS-01") /\ Passed("CSPACE-WIF-02") /\ Wif!PlainPool(pool, bindings) =>
       \A t \in Wif!Tokens : Wif!GoogleDecrypts(pool, bindings, t) => Wif!AttestedToken(t)

AzureReleases ==
  LET key == Last("AZ-SKR-01")
  IN Passed("AZ-SKR-01") /\ Passed("AZ-MAA-01")
     /\ evidence["AZ-MAA-01"][1] = key /\ Skr!PlainNames(key) =>
       \A t \in Skr!Statements :
         Skr!AzureReleases(key, t) => Skr!AttestedVm(t, Authorities)

\* When a platform's release checks pass, whoever is given the key on the
\* documents they read runs attested code: the sum of the checks leaves no gap
\* but these.  The key was edited between AZ-SKR-01's and AZ-MAA-01's reading of
\* it; a release policy names an authority or a claim by a name that only looks
\* like one of the wanted (PlainNames); the pool has a second page, a provider
\* without issuer or with a lookalike's, a CEL condition that is no conjunction, the
\* key a binding to another pool or of a role the check does not list
\* (PlainPool); the key policy has a pattern of actions, mixed values, an asterisk
\* or a set operator (PlainPolicy).
ReleasedOnlyToAttestedCode == NitroReleases /\ GcpReleases /\ AzureReleases

NitroFailure ==
  Failed("KMS-01") /\ Kms!ReadInFull(Last("KMS-01")) =>
    \E e \in Kms!Enclaves : Kms!KmsDecrypts(Last("KMS-01"), e) /\ ~Kms!RunsExpectedCode(e)

Unattested(admits(_)) == \E t \in Wif!Tokens : admits(t) /\ ~Wif!AttestedToken(t)

NoProviders == [first |-> {}, rest |-> {}]

GcpFailure ==
  /\ Failed("CSPACE-KEYBIND-01") =>
       LET condition == Last("CSPACE-KEYBIND-01").primary.condition
       IN Wif!PlainCondition(condition) =>
            Unattested(LAMBDA t : t.issuer = "confidential_space" /\ Wif!Met(condition, t))
  /\ Failed("CSPACE-WIF-02") =>
       LET pool == Last("CSPACE-WIF-02")
       IN (\A p \in pool.first : Wif!LiveProvider(p)) =>
            Unattested(LAMBDA t : \E p \in pool.first : Wif!Admits(p, t))
  /\ Failed("CSPACE-KMS-01") =>
       LET bindings == Last("CSPACE-KMS-01")
       IN (\A b \in bindings : Wif!LiveBinding(b)) =>
            Unattested(LAMBDA t : Wif!GoogleDecrypts(NoProviders, bindings, t))

AzureFailure ==
  /\ Failed("AZ-SKR-01") /\ Skr!PlainKey(Last("AZ-SKR-01")) =>
       \E t \in Skr!Statements :
         Skr!AzureReleases(Last("AZ-SKR-01"), t) /\ ~Skr!AttestedVm(t, Authorities)
  /\ Failed("AZ-MAA-01") =>
       LET read == evidence["AZ-MAA-01"]
       IN \/ \E h \in Skr!Authorities(read[1]) : ~Skr!Truthful(h, Authorities)
          \/ Provider(read).host # "none" /\ read[2].status \notin {"Ready", "unsaid"}

\* A failure is real: on the document the check read, somebody who runs no
\* attested code is given the key or, of a provider's condition, the pool's
\* identity.  Known false alarms: a statement that a Deny or its own conditions make
\* void, or that binds by an operator the check does not list (ReadInFull); a CEL
\* condition that is no conjunction, a disabled provider (LiveProvider); a role that
\* cannot decrypt, a member that is gone or one principal of the pool, a lapsed
\* binding (LiveBinding); a policy nobody can meet, an authority or a claim under a
\* nested anyOf (PlainKey); a provider that was not given or is not ready.
FailureIsReal == NitroFailure /\ GcpFailure /\ AzureFailure

\* AZ-MAA-01 steps aside when the policy names no authority; then AZ-SKR-01 has
\* not passed, on the same key.
SkippedAuthorityIsNoPass ==
  Passed("AZ-SKR-01") /\ evidence["AZ-MAA-01"] # <<>>
  /\ evidence["AZ-MAA-01"][1] = Last("AZ-SKR-01") => verdicts["AZ-MAA-01"] # "SKIP"

\* A request is answered with 401 only after its token has expired in the cache,
\* unless it was the vault's shown to a managed HSM: what is cached is a token that
\* was issued, never a failure to get one, and each host is shown its own.
UnauthorizedMeansExpiredOrHsm ==
  \A x \in rejected : x[1] \in expired \/ x = <<"vault", "managed_hsm">>
===============================================================================
