------------------------------ MODULE AwsPlans ------------------------------
(***************************************************************************)
(* The plans of the checks that read AWS configuration, KMS-01's           *)
(* classification of statements apart (KmsKeyPolicy).  A loop's calls are  *)
(* written out, item after item.                                           *)
(***************************************************************************)
EXTENDS ReadPlans, Integers

CONSTANT Items  \* the items of every list: trails, policies, snapshots, parameters

ASSUME ItemsAssumption == Items \in Nat

\* All combinations of one of some key references and some flags.
With(keys, flags) == {k \cup f : k \in keys, f \in SUBSET flags}

-------------------------------------------------------------------------------
\* Calls several checks share

KeyReferences == {{}, {"no_key"}, {"aws_alias"}}
UnlessKeyed == [no_key |-> 1, aws_alias |-> 1]
StorageKeys == {{}, {"unencrypted"}, {"aws_alias"}}
UnlessEncrypted == [unencrypted |-> 1, aws_alias |-> 1]

\* Mutant: a key that could not be described is let through.
DescribeKeyOrPass ==
  Call({{}, {"aws_managed"}}, None, {"aws_managed"}, None)

\* classify_kms_key: a key that cannot be described is an issue, not a pass.
DescribeKey ==
  Call({{}, {"aws_managed"}}, None, {"aws_managed", "refused"}, None)

\* A trail that is not logging, or whose status is refused, is left out; its
\* selectors cover the resource, or are taken for empty.  "part": they match, and
\* record only reads, only writes or another resource of the type; "no_management":
\* they leave out the management events.
TrailStatus ==
  Call({{"logging"}, {"stopped"}}, None, {}, [stopped |-> 1, refused |-> 1])
TrailSelectors ==
  Call({{"covers"}, {"covers", "part"}, {"covers", "no_management"}, {"silent"}}, None, {}, None)
TrailCalls == 2 * Items
Trails(describe) ==
  <<describe>> \o [n \in 1..TrailCalls |-> IF n % 2 = 1 THEN TrailStatus ELSE TrailSelectors]

\* cloudtrail_data_events: best effort, no verdict without a list of trails.
DataEvents ==
  Trails(Call({{}, {"uncovered"}}, None, {}, [refused |-> TrailCalls, uncovered |-> TrailCalls]))

\* A page the loop over its items ends without.  "unlisted": an item that the loop
\* should see is on no page it reads.
Listing(items) == Call({{}, {"unlisted"}}, None, {}, [refused |-> items])

-------------------------------------------------------------------------------
\* The bucket

S3PublicAccess ==
  <<Call({{}, {"absent"}, {"disabled"}}, Must, {"absent", "disabled"}, None)>>

\* "dual_kms": SSE-KMS in two layers, which is not "aws:kms"; "narrow_tls": a denial of
\* plain HTTP to some principals or of some actions only.
S3Encryption ==
  <<Call({{}, {"no_sse"}, {"not_kms"}, {"dual_kms"}}, Must,
         {"no_sse", "not_kms", "dual_kms"}, None),
    Call({{}, {"absent"}, {"no_tls"}, {"narrow_tls"}, {"garbled"}}, Must,
         {"absent", "no_tls", "garbled"}, None)>>

\* "open": no statement denies writes, none allows them to an AWS principal or under a
\* condition; a policy that does so in another form (NotAction, a service for its
\* principal) is taken for open too.  "anyone": a write is allowed to {"AWS": "*"},
\* or allowed under a condition or denied, whatever to whom.
BucketPolicy ==
  <<Call({{}, {"absent"}, {"open"}, {"other_form"}, {"anyone"}, {"garbled"}}, MustDecode,
         {"absent", "open", "other_form"}, None)>>

AuditLog ==
  <<Call({{}, {"unversioned"}}, Must, {"unversioned"}, None),
    Call({{}, {"unlogged"}}, None, {"unlogged", "refused"}, None)>>

StateRollback ==
  <<Call({{}, {"absent"}, {"disabled"}, {"no_retention"}}, Must,
         {"absent", "disabled", "no_retention"}, None)>>

-------------------------------------------------------------------------------
\* The instance, its role and its network

MustExist == [refused |-> "ERROR", missing |-> "ERROR"]

ImdsEnforcement ==
  <<Call({{"missing"}} \cup SUBSET {"imds_v1", "hop_limit"}, MustExist,
         {"imds_v1", "hop_limit"}, None)>>

\* The requester's and the accepter's peerings are read under one try; so are
\* the transit gateways under another.  "other_ip": a public address of another
\* interface, or in IPv6.
VpcIsolation ==
  <<Call({{}, {"public_ip"}, {"other_ip"}, {"missing"}}, MustExist, {"public_ip"}, None),
    Call({{}, {"active"}}, None, {"active"}, [refused |-> 1]),
    Call({{}, {"active"}}, None, {"active"}, None),
    Tolerant({{}, {"attached"}}, {"attached"})>>

\* "veiled": all resources under another name (arn:aws:s3:::*, NotResource), or an
\* action that is neither * nor begins with s3: or kms:, and grants them (s3*).
Document == {{}, {"wildcard"}, {"veiled"}}

\* One try is around a role's inline policies; attached policies each have
\* their own, around the policy and the version it names.
InlinePolicies ==
  <<Listing(Items)>>
  \o [n \in 1..Items |-> Call(Document, None, {"wildcard"}, [refused |-> Items - n])]
AttachedPolicies ==
  <<Listing(2 * Items)>>
  \o [n \in 1..2 * Items |->
        IF n % 2 = 1 THEN Call({{}}, None, {}, [refused |-> 1])
        ELSE Tolerant(Document, {"wildcard"})]
IamScope ==
  <<Call({{}, {"no_profile"}, {"missing"}},
         [refused |-> "ERROR", missing |-> "ERROR", no_profile |-> "PASS"], {}, None),
    Call({{}, {"no_roles"}}, [refused |-> "ERROR", no_roles |-> "PASS"], {}, None)>>
  \o InlinePolicies \o AttachedPolicies

-------------------------------------------------------------------------------
\* Keys and trails

\* "weak": a statement grants kms:Decrypt without a meaningful condition; "unseen": in a
\* form that is not counted as a grant, or with a condition that binds nothing and is
\* counted (KmsKeyPolicy).  "exempt": its condition binds, and is not counted, or the
\* statement is denied elsewhere.
KmsAttestation ==
  <<Call({{}}, Must, {}, None),
    Call({{}, {"weak"}, {"unseen"}, {"exempt"}, {"garbled"}}, MustDecode,
         {"weak", "exempt"}, None)>>

CloudTrailAudit ==
  Trails(Call({{}, {"uncovered"}}, Must, {"uncovered"}, [uncovered |-> TrailCalls]))

-------------------------------------------------------------------------------
\* State stores other than the bucket

\* "unscoped", of a policy that is there: it does not scope who may write.
DynamoDbState ==
  <<Call(With(KeyReferences, {"unprotected"}), Must,
         {"no_key", "aws_alias", "unprotected"}, UnlessKeyed),
    DescribeKey,
    Tolerant({{}, {"no_recovery"}}, {"no_recovery"}),
    Tolerant({{}, {"absent"}, {"unscoped"}}, {"absent"})>>
  \o DataEvents

\* "unscoped": access from another account, or by others than the enclave's role.
SecretsManager ==
  <<Call(With(KeyReferences, {"no_rotation"}), Must,
         {"no_key", "aws_alias", "no_rotation"}, UnlessKeyed),
    DescribeKey,
    Tolerant({{}, {"absent"}, {"wildcard"}, {"unscoped"}, {"garbled"}},
             {"absent", "wildcard"})>>
  \o DataEvents

\* "narrow_tls": some statement asks for TLS, and others grant without; "unscoped":
\* anybody may mount.
EfsState ==
  <<Call(StorageKeys \cup {{"missing"}}, MustExist, {"unencrypted", "aws_alias"}, UnlessEncrypted),
    DescribeKey,
    Tolerant({{}, {"absent"}, {"no_tls"}, {"narrow_tls"}, {"unscoped"}, {"garbled"}},
             {"absent", "no_tls"}),
    Tolerant({{}, {"no_recovery"}}, {"no_recovery"})>>

\* "exposed": publicly accessible, without IAM authentication or unprotected.  A
\* cluster's snapshots are never listed.
RdsState ==
  <<Call(With(StorageKeys, {"exposed"}) \cup {{"missing"}}, MustExist,
         {"unencrypted", "aws_alias", "exposed"}, UnlessEncrypted),
    DescribeKey,
    Tolerant({{}, {"open"}}, {"open"}),
    Listing(Items)>>
  \o [n \in 1..Items |-> Tolerant({{}, {"public"}}, {"public"})]

\* A parameter's key is described once (key_cache): two keys are two calls.
SsmParameter ==
  <<Call(With({{}, {"aws_alias"}}, {"plaintext"}) \cup {{"nothing"}},
         [refused |-> "ERROR", nothing |-> "SKIP"], {"aws_alias", "plaintext"}, None)>>
  \o [n \in 1..Items |-> DescribeKey]

-------------------------------------------------------------------------------
AwsPlan ==
  [S3_01 |-> S3PublicAccess, S3_02 |-> S3Encryption, BOOTSTRAP_02 |-> BucketPolicy,
   AUDIT_01 |-> AuditLog, ROLLBACK_01 |-> StateRollback, IMDS_01 |-> ImdsEnforcement,
   VPC_01 |-> VpcIsolation, IAM_01 |-> IamScope, KMS_01 |-> KmsAttestation,
   CLOUDTRAIL_01 |-> CloudTrailAudit, DDB_01 |-> DynamoDbState,
   SECRETS_01 |-> SecretsManager, EFS_01 |-> EfsState, RDS_01 |-> RdsState,
   SSM_01 |-> SsmParameter]
===============================================================================
