# A TLA+ verification of untrust

`untrust` audits deployments that rely on confidential computing: AWS Nitro
Enclaves, GCP Confidential Space, Azure confidential VMs, GPU confidential
computing and bare hosts with SEV-SNP or a TPM. One `untrust scan` runs the
checks of a platform one after the other and prints PASS, FAIL, SKIP or ERROR for
each. What matters is that a verdict is *true*: a PASS must mean what the report
says it means, whatever the remote services, the host under audit and the other
users of the same buckets and files do meanwhile.

This directory models the parts of the program where that is hard, checks them
with TLC on small instances, and proves the central results with TLAPS for all
instances. All paths below are relative to `src/untrust/` of the repository.

## 1. The system

### Components, state, operations

| component | code | state it keeps | operations | correct when |
|---|---|---|---|---|
| scan command and runner | `cli.py`, `runner.py`, `checks/base.py` | selected checks, list of findings, exit status | select (`--read-only`, `--demo`), run each check and catch its exception, stamp the evidence tier, mark dependents, report | one finding per selected check; no intrusive check read-only; a "verified" pass rests on passes; verdicts are final |
| platform registries | `platforms/*/__init__.py` | none (tables) | order, tiers, `assurance_depends_on` | the tables make the runner's marking right |
| host checks | `platforms/host/checks.py` | evidence files on disk (shared with whoever writes them) | load and verify again for each of six checks | six passes amount to one verdict |
| host verifier | `platforms/host/verify.py`, `chain.py`, `policy.py`, `snp.py`, `tpm.py` | a verdict under construction | chain, signature, nonce, debug, TCB, measurement, each against the baseline | fails closed: allowed only if everything was positively verified |
| event log replay | `platforms/host/tpm.py` | replayed PCR banks, startup locality, Secure Boot state and two flags | one step per event | Secure Boot is accepted only if the TPM measured it |
| S3 canary probe | `checks/bootstrap_input.py` | bucket contents, accepted and blocked canaries | four puts, then deletes | the verdict is true of the bucket; nothing is left behind |
| object store probes | `probes/*`, `platforms/gcp_cspace/gcs_probe.py`, `platforms/gpucc/model_bootstrap.py` | bucket contents, observations | baseline, then put and delete per payload | the same |
| SSM shell checks | 17 modules of `checks/` | commands at SSM, the last answer polled | send, poll up to ten times, judge the output | a verdict is about the check's own finished command |
| configuration checks: AWS (15, the state stores among them), Confidential Space (7), Azure (4) | `checks/iam_scope.py`, `vpc_isolation.py`, `_backend_util.py`, ..., `platforms/gcp_cspace/*`, `platforms/azure_cvm/*` | what was read so far | sequences of API reads; a refusal ends the check, is an issue, or is swallowed | exact when everything was read; what was read is not lost; an unverified key is no pass; without best-effort reads, a pass means nothing is wrong but what is listed as overlooked |
| key release checks | `checks/kms_attestation.py`, `platforms/gcp_cspace/keybind.py`, `wif_siblings.py`, `kms_binding.py`, `platforms/azure_cvm/key_release.py`, `arm.py` | verdicts; the cache of Azure access tokens | read a key policy, a pool, bindings, a release policy, a provider, and judge it | when a platform's checks pass, only attested code is given the key, and when they fail, somebody else is, but for the gaps and false alarms named |
| GPU CC checks (18) and their receipts | `platforms/gpucc/*.py` | none; the evidence files on disk, opened anew by every check | read report, policies, receipts and raw results; hash; compare; raise the tier | a verified pass is about a GPU the verifier attested, whatever files are mixed; leaving something out never helps, but for the optional fields listed |

### How they interact

* The runner calls `Check.run` synchronously; a check returns a `Finding` or
  raises. Findings meet again only in the second pass (`runner.py:138-154`), where
  the notes of one are computed from the statuses of others.
* Checks share nothing in memory but do share the outside: the evidence files
  (six host checks), the report and receipt files (GPU checks), the instance (17
  shell checks through SSM), the bucket (canary probes).
* SSM runs commands asynchronously: a command outlives the check that gave up on
  it, and the host changes between a command and the judgement of its output. The
  commands themselves hide that a tool of theirs is missing or failed.

### What is hard

The program has one thread; its concurrency is with the services and with whoever
changes the audited system. The hazards, each at its line, are listed in
`PROJECT.json`: partial failures in the middle of a write-then-clean-up sequence,
answers that come late or from the wrong command, evidence replaced between two
reads, dependencies that come later than their dependents, flags that must not
depend on the order of events, verification that stops half-way, and defaults
that must fail closed.

## 2. The modules

```
CanaryAudit <|-- S3CanaryProbe            HostGate <|-- HostScan --> ScanRunner
            <|-- ObjectStoreProbe                  <|-- HostVerifier --> HostControls
ShellChecks <-- SsmSession                ScanRunner <|-- GpuScan <-- MCGpuScan
ReadPlans <-- AwsPlans, GcpPlans, AzurePlans <-- ConfigReads
GpuDocuments <-- GpuReceipts <-- GpuScan --> GpuCcRegistry --> (parameters of) ScanRunner
KeyReleaseAudit --> KmsKeyPolicy, WifPool, ReleasePolicy

proofs: ScanRunnerProofs, HostProofs (HostScan and EventLogReplay),
        HostVerifierProofs, NitroProofs (SsmSession and S3CanaryProbe),
        ObjectStoreProofs, ConfigReadsProofs, KeyReleaseProofs, GpuScanProofs
```
(`<|--` is implemented by; `-->` instantiates or gives parameters to; `<--` is extended by)

**ScanRunner** models one `untrust scan`. `Select`, `Refuse` and `Demo` are the
start of `cli.scan`; `RunCheck(i)` is one turn of the loop of `run_checks`
with its exception handler and the tier stamp; `Annotate` is the second pass;
`Report` the tallies, the report file and the exit status. The checks are a
parameter (`Outcomes`: what a check may return on a content of its input), as are
the registry, tiers, dependencies and intrusive ids. `Replace` is the
environment changing what checks read. The field `seen` of a finding is history:
the content the check had read.

**GpuCcRegistry** gives ScanRunner the GPU platform's registry and tables; every
check may return anything or raise, and two may raise their own tier.

**GpuDocuments** is what the GPU checks make of report, policies and launch configuration: every
field they look at with the values on which they pass, Python's truth of a flag and the defaults
of what is left out included, and the comparison of golden values. A null is the same as a field
left out, except among measurements: there it becomes the text "None", a value like any other, and
two nulls agree. **GpuReceipts** is what GPUCC-SIGVERIFY-01 and GPUCC-CUDA-01 make of a receipt
and the raw result beside it. **GpuScan** is the scan: `Read(i)` opens the next file of the check
that runs, and `Refresh` replaces a file of the directory between any two reads, so that one check
may load one receipt and hash another. The field `evidence` is history. It implements ScanRunner:
with the outcomes GpuCcRegistry leaves open being those the files give, each of its steps is the
runner's or invisible to it, so that what is proved of the runner holds of the scan (GpuScanProofs
proves that step by step; that it ends is model-checked).

**HostGate** is what a relying party is promised: one decision on one evidence,
"allow" only if the evidence is allowed.

**HostScan** instantiates ScanRunner with the six HOST-* checks, each reporting
one control of whatever evidence it loads, and is shown to implement HostGate.

**HostControls** holds the verifier's controls as operators over an input record:
`VerifyChain` (`chain.py`), the policy readers with their defaults (`policy.py`),
the SNP and TPM controls. Certificates have an issuer, a key and flags;
signatures are symbolic (a signature verifies iff it is by that key); a TCB is one
number for its component vector; parsing bytes is one outcome. Baseline values of the
wrong type are those every reader raises on (`Junk`), those that count as false (`Falsy`),
those `int()` makes a number of (`NumberIn`: a boolean, a numeric string) and those one can
iterate over (`MembersOf`: a string's characters, an object's keys); `AsNumber`, `AsList`
and `AsObject` are Python's reading of them.

**HostVerifier** is `verify()`: `ReadPolicy`, `CheckChain`, `ParseEvidence`, then
one `EvaluateControl` per control, any of which may stop the call. It implements
HostGate with `Trustworthy`, written independently of the code, as the allowed
evidence: genuine key, fresh nonce, what was pinned.

**EventLogReplay** is `replay_event_log`, one event per step, over several hash
banks, with the Secure Boot control that reads its result. A digest is represented by
what it is a digest of (no collisions), a PCR by its starting locality and the
sequence extended into it. The TPM's own history is a variable, and the host may
hand over any log at all. Its specification is `ReplaySpec`.

**CanaryAudit** is what both canary probes promise: a verdict that is true of the
bucket. **S3CanaryProbe** is `BootstrapInputCheck.run`: puts that are
accepted, rejected, or raise a transient or other error, then suppressing
deletes. **ObjectStoreProbe** is `probe_surface` over `ObjectStoreSurface`
with `AcceptedOracle`. In both, a put that raised may have landed and a delete
that raised may have worked.

**ShellChecks** says what the 17 commands print on a host with given facts: when their
tools work and all of it arrives (`Prints`), when a tool is missing or fails or
`head` drops lines, which the commands mask (`Masked`), and when the command is
killed while it prints or SSM truncates (`Cut`); and what the checks make of an
output. Outputs are sets of the tokens a check tells apart. What a check should report
(`Bad`, in SsmSession) is taken from the README's rows and the docstrings, not from the
command; where check and docs disagree even on a complete output, the difference is named
(`Overlooked`, `Overstated`). **SsmSession** runs them against SSM, whose commands are delivered late,
killed half-way, cancelled, or run although sending them raised.

**ReadPlans** says how a check that reads configuration is written down: as a plan, its calls in
their order, and what it makes of each answer: which return at once, which are issues, which make
it go on past some of the calls that follow. **AwsPlans**, **GcpPlans** and **AzurePlans** are the
plans of 26 checks. **ConfigReads** runs one of them: `Ask` makes the next call, which the account
answers or refuses; `Pass` goes on past one; `Conclude` is the verdict. `truth` is the account,
`answers` what the check saw of it. A swallowed refusal may hide an issue (an audit role without
`iam:GetRolePolicy` sees no wildcard) and the code means it to; it must not lose one that was
read, and does in one place (finding 2). `BestEffort` names the checks with such reads. What is
wrong with an account is said in the documentation's terms, not the checks': `Counted` are the
faults they count, `Overlooked` those the README's rows and the docstrings rule out and the checks
pass over, `AuditGaps` what no trail records; `Overstated` is what the documentation allows and
the checks count all the same. Of all checks without best-effort reads a pass means that nothing
is wrong but what is overlooked.

**KmsKeyPolicy**, **WifPool** and **ReleasePolicy** each hold a pair: what the checks
make of a document (KMS-01's classification of statements; CSPACE-KEYBIND-01,
-WIF-02 and -KMS-01; AZ-SKR-01 and AZ-MAA-01), and what the service does with it, that
is, who is given the key. The service's side is external and modelled from its
documented semantics. It knows what the checks do not: operators that are not in
KMS-01's list, issuers whose URI only contains Confidential Space's, disabled providers, roles
that may decrypt and are in no table, lapsed bindings and deleted members, hosts and claims
whose names only look like Microsoft's. `Plain...` (`PlainPolicy`, `PlainPool`, `PlainNames`) name
the documents on which a pass says nothing, `ReadInFull`, `Live...` and `PlainKey` those on
which a failure may be a false alarm (section 5).
**KeyReleaseAudit** runs the checks of one platform read by read while the
owner edits the documents; `AskAzure`, `AskWithoutToken`, `AskUnauthorized` and
`Expire` are `arm.py`'s token cache, which keeps a token for the life of the process
and remembers no failure. On platform "azure_hsm" the key is in a managed HSM: the code
acquires the vault's token for it too, which such a host answers with 401 (`Accepts`).

## 3. The runs

Bounds are in the `.cfg` files and MC modules and named there. All runs set
`CHECK_DEADLOCK FALSE`: a scan, a call and a probe end.

| run | question | bounds, and why they suffice |
|---|---|---|
| `scan_runner` | the runner's invariants and termination | six of 18 GPU checks: a dependent before and one after the signature check, a self-promoting, a declared and the intrusive one: every kind of row of the tables; one replacement of the input separates before from after |
| `host_scan` | do six findings amount to the gate? | every content the verifier can make of evidence: 2^4 * 3^2 and unreadable; files stay as they are during the scan (replacement is in `scan_runner`) |
| `host_verifier` | is `verify()` the gate? | three good inputs (SNP by VCEK, by VLEK, TPM) and everything that differs from one of them in at most two fields; two that a looser baseline lets in, and what differs from them in one. A control reads few fields, and two deviations are what one mistaken control and its cover need. A baseline value may be of any wrong type: one each reader raises on, false, an empty string, what `int()` takes, what can be iterated |
| `event_log` | soundness, order independence and exactness of the replay | logs of up to three events of some thirty kinds, two banks, PCRs 0 and 7: two Secure Boot events and one to disturb them; the theorems cover any length |
| `s3_canary` | verdicts, clean-up, promise | the code's own four keys, nothing else is bounded |
| `s3_canary_left_behind` | finding 1 | the same |
| `object_store_probe` | verdicts, clean-up | four payloads and the baseline |
| `ssm_checks` | are verdicts about the check's own command? | each check alone, and two sequences in which commands overlap; two polls instead of ten (a poll changes nothing but the count and the last answer); one change of the host, which separates before from after. Facts a check is blind to are among the host's, and a command may mask a failing tool or be cut anywhere |
| `config_reads` | exactness, nothing lost, no false alarm but the known ones, passes that miss only what is listed as overlooked | all 26 checks, every account their answers can show, any subset of the calls refused; lists have two items (`Items = 2`), one to be refused and one to disagree with it; the theorems are of any number. The account does not change during a check |
| `vpc_peering` | finding 2 | the same, VPC-01's pass alone in question |
| `gpu_scan` | can any mixture or replacement of evidence files make an unattested GPU verified? | all 18 checks over directories put together from six captures (good, same GPU again, other GPU, debug, not appraised, failed; a nonce used twice), with up to two places edited: a file of another capture and a field of a receipt. One file is replaced during a scan, at any point, by any capture's or by a damaged one: it separates what was judged from what was hashed. The files of the six captures are replaced, and those of one whose report lacks a field: what one check found left out another may then find there. Collections may be left out, empty or partial, and measurements null |
| `key_release` | who is given the key when the checks pass, and when they fail? | key policies of one statement with two conditions or two with one, pools of two providers on one or two pages, release policies of two branches; a pass is a conjunction over statements, providers or branches, so that one good and one bad member show every case (the theorem has no bound). Documents the checks misread are among them: lookalike issuers and hosts, roles in no table, disabled providers, deleted members, operators KMS-01 does not count; one deployment has its key in a managed HSM. Two edits: one between the checks, one to take it back |

Every property of a passing run has a mutant in `PROJECT.json`: a plausible bug
in one definition that the property catches under that run's bounds. Mutated forms
stand before the definitions they mutate and nothing else uses them. Type invariants
are proved rather than run (section 4), where a module has proofs; runs are kept
for what the types do not say.

### Fairness

`ScanRunner`, `GpuScan`, `SsmSession`, `S3CanaryProbe`, `ObjectStoreProbe` and
`HostVerifier` assume weak fairness of the program's own steps: it is a
sequential program that runs as long as it has a step. Nothing is assumed of the
environment: SSM may never deliver or answer (the ten polls bound the wait), S3 may
fail every call, files may change or not. `ConfigReads` and `KeyReleaseAudit` have
safety properties only and state no fairness.

### Findings

1. A transient error after an accepted put returns before the delete loop
   (`bootstrap_input.py:87`): canaries stay in the bucket.
2. VPC-01 reads the peerings the VPC requested, then those it accepted, and looks
   at neither when the second call is refused (`vpc_isolation.py:92`): it passes
   over an active peering it has read.

More disagreements were seen while modelling and have no run of their own:

*The host verifier*

* "A malformed baseline (bad hex, non-numeric floor) must deny" (`verify.py:195`), but
  `min_firmware_version: false` is the floor 0 (`tpm.py:326`), `true` the floor 1, and an object
  whose keys are digests does for a list of measurements (`snp.py:276`) or of roots
  (`chain.py:57`). The switches alone are read strictly (`policy.py:21`).
* The six host checks do not run "over the same evidence"
  (`platforms/host/checks.py:3`): each loads the files again.
* A quoted PCR without an event in the log is left out of the comparison
  (`tpm.py:305`), so an empty log is "replayed" against any quote.
* `verify()` fails all controls for want of certificates without evaluating them
  (`verify.py:159`) although its docstring says that every control is always
  evaluated.
* A `min_tcb` that names no component the verifier knows demands nothing (`snp.py:200`), although
  the floor counts as given; `platforms/host/README.md:28` says "≥ `min_tcb` per component".

*Shell checks*

* A tool that is missing or fails is a PASS: the commands end in Success with NONE or nothing
  (`dns_dnat.py:37`, `open_ports.py:42`, `vsock_exposure.py:40`, `core_dump.py:40`,
  `swap_exposure.py:38`; likewise SSH-01, LOG-01, HOST-01, HOST-02, EXEC-01, RESTART-01 and
  ENV-01). Lines after the fifth file (`env_var_semantic.py:60`) or the twentieth
  (`exec_permissions.py:41`), and all that SSM truncates, are not judged and the verdict does not say so.
* Passed over on a complete output: a rule that names the metadata address and does not drop it
  (NAT-01), modes outside the lists looked up (604 in HOST-01, 664 in ENV-01), a file named
  `environment` (ENV-01), executables by other names (EXEC-01), members of group adm (LOG-01), a
  running image that is not the one found on disk (ENCLAVE-04).
* RESTART-01 flags any unit with a dangerous restart policy although its docstring
  speaks of the combination with a download (`restart_persistence.py:14`).
* ENV-01 reports on the modes of the environment files when it could not read them
  (`env_var_semantic.py:146` sets UNKNOWN and the verdict is taken all the same).

*Configuration checks* (`Overlooked`, `AuditGaps` and `Overstated` in ConfigReads)

* BOOTSTRAP-02 passes a policy that allows `{"AWS": "*"}`, or has any denial of writes
  (`bucket_policy.py:98`, `:103`), where README:159 asks for "specific principals"; it fails one that
  restricts writes to a service or by `NotAction`.
* S3-02 passes a denial of plain HTTP to some principals or of some actions only
  (`s3_encryption.py:27-34`), and fails `aws:kms:dsse`. EFS-01 is content when some
  statement asks for TLS, and does not look at who may mount.
* CLOUDTRAIL-01 never looks for management events (README:237) and says "S3 data events
  captured" without a bucket (`cloudtrail_audit.py:171`); selectors that record only reads, only
  writes or another resource of the type count.
* DDB-01 passes with any resource policy, whatever it says (`dynamodb_state.py:103` against
  `:17` and README:176); SECRETS-01 does not look for cross-account access (`secrets_manager.py:11`);
  RDS-01 does not list a cluster's snapshots.
* IAM-01 reads the first page of policies and takes `arn:aws:s3:::*` for specific; VPC-01 knows
  one public IPv4 address (`vpc_isolation.py:58`); KMS-01 misses grants and conditions of
  other forms (below).
* CSPACE-ATT-01 passes `["EXPERIMENTAL"]` (`attestation.py:63-66`) though its docstring (line 8) asks for
  STABLE or LATEST. CSPACE-IMG-01 says "the workload image is digest-pinned" of an instance
  with no image reference (`image_signing.py:46`, `:104`). CSPACE-VM-01 takes a launcher that shows
  nowhere for a plain VM. CSPACE-META-01 and CSPACE-SA-01 read neither the project's policy nor
  custom roles, and CSPACE-SA-01 flags the attested pool's own principals. GCS-BOOT-01 misses
  writers that are no service accounts or hold custom roles, and flags the workload's own account.
* AZ-DBG-01 passes a token whose signature does not match, with a note, and one without a claim
  about debugging; README:130 says the signature is "checked against the issuer's keys".

*GPU checks*

* GPUCC-RIM-01 compares texts (`rim_measurement.py:46-51`): a null measurement agrees with a null
  golden value, passes, and is promoted to report-derived, which the docstring (lines 15-17)
  reserves for *actual* measurement values.
* Leaving out `expected_measurements` or `required_measurements` turns its FAIL into a PASS
  (`:41-53`). Both are documented as optional; that the debug flags may be left out
  (`platforms/gpucc/attestation.py:33`) is not.

*Key release*

* A custom provider whose name begins with "shared" passes for Microsoft's
  (`key_release.py:32`, `:114`, against the docstring, line 15), one without a status for ready (`:126`),
  and a claim is told by the end of its name (`:66`).
* An issuer need only contain Confidential Space's (`wif_siblings.py:33`); a disabled provider is
  held against the pool (`:27` looks for DELETED only).
* CSPACE-WIF-02 judges the first page of the pool's providers
  (`wif_siblings.py:109`) although its docstring (line 8) says that it enumerates
  every provider of the pool.
* The table of roles that decrypt (`kms_binding.py:24-31`) lacks cryptoOperator and custom roles
  and has `roles/cloudkms.admin`, which cannot decrypt; lapsed bindings and deleted
  members count.
* KMS-01 does not count `ForAnyValue:StringLike` nor `...IfExists` (`kms_attestation.py:41-49`), so that a
  statement bound by one fails.
* AZ-SKR-01 speaks of "Key Vault / Managed HSM" keys (`key_release.py:3`); the request to a
  managed HSM carries the vault's token (`arm.py:18`, `:83-86`), so that such a key is never judged.

*Probes and the report*

* GCS-BOOT-02 counts every 401 and 403 as "writes are not open to" the identity
  (`gcs_probe.py:16`, `:64`), also when credentials had expired or a retention lock or perimeter
  refused; the promise proved is that of a put that was refused, not of the reason.
* The closing line "All N checks passed." (`runner.py:208`) counts ERROR findings
  among the N.

## 4. The proofs

Checked by TLAPS; backends Z3, Zenon and LS4.

**ScanRunnerProofs** assumes only the shape of the parameters (`RegistryAssumption`,
`TierAssumption`, ...; TLC evaluates them in `scan_runner`). The inductive invariant `IInv`
strengthens the type invariant by: only selected checks have findings; nothing is selected before
the start; after the loop none is pending; a read-only selection is passive; and every note is
*exactly* `Missing(i)` after the second pass and empty before. The properties are not inductive
alone: that a note names only non-passes needs to know that the statuses it was computed from are
final, and that needs the loop to be over. From IInv: `TypeCorrect`, `FindingPerCheck`,
`ReadOnly`, `HonestNotes`, `FinalVerdicts`, and `VerifiedSound`, which also assumes that
dependencies are listed transitively (`DependenciesClosed`; TLC evaluates it on the GPU table; the
host table, where the signature depends on the chain and everything else on both, has it too).
Without it the theorem is false: a pass whose direct dependency passed while that one's own
dependency did not is tallied as verified.

**HostProofs** proves, for any algorithms, any set of events and logs of any length:
`TypeCorrect`; `SecureBootSound`, that Secure Boot required passes only if the TPM measured
SecureBoot = 1 into a quoted PCR 7; `FlagsExact`, that the flags say what the log says in any
order; `BanksTogether`; and `FaithfulLogsAreJudgedExactly`. The strengthening (`ReplayInv`) ties
the parser's state to the history: if the accepted state is "on", then every declared bank's PCR 7
has the digest of that variable among its extensions. The step that needs care is that an event is
refused unless it carries a digest for every declared algorithm, exactly once each, so "bound"
data are in all banks at once. `BanksTogether` says just that: the banks of a PCR start alike and
are extended equally often, and the Secure Boot value that was taken is in PCR 7 of each. It does
not say that any bank judges the log alike: an event other than SecureBoot may be true to its data
in one bank only. Exactness needs the converse as well (`LogIsExtended`): in every bank, what was
extended into the replayed PCR 7 is just what the events read so far measured there, and none of
them was refused. A log whose events were all measured as they say then replays to the TPM's own
value, and a good host is not denied.

It proves of HostScan, for any verdicts the verifier may give (each control passed,
failed or not assessed; `ContentsAssumption`): `AllowedIsReported` and, on files that are not
replaced, `FindingsAreTheGate`, the safety half of `FindingsImplementGate`. The invariant
says that every finding is what its check makes of the content it read, which is the
present one as long as nothing was replaced, and that the notes are the second pass's; the
argument then is that each control of the verifier is reported by one of the six checks.
Without the hypothesis the theorem is false: six passes may come from
different files.

**HostVerifierProofs** proves, for any inputs of the shape `InputsAssumption` states
(any chain, report, quote, event log and baseline section): `MalformedDenies`,
`NoHalfVerdict`, and `FailsClosed`, the safety half of `ImplementsGate`. The
inductive invariant says that what has been evaluated is a prefix of the controls,
each with the outcome of this very input and none of them a failure, and that a
verdict is either that for all controls or `_failed`'s. That a malformed baseline denies
then rests on a fact about the controls (`JudgedIsReadable`): every key of a section is looked
up by one of them, which raises on a value it cannot read. A value of the wrong type that Python
reads all the same, by `int()` or by iteration, pins what Python makes of it, and the theorem does not
speak of it; a false one that counts as none pins nothing, and what has to be pinned then
fails. An `Unreadable` baseline leaves no control passed (`NoHalfVerdict`). `FailsClosed` has one
hypothesis, `RootsVouch`: whoever signed under the leaf of a chain of certificates that
leads up to a pinned root holds a key the root's owner certified, one that only
attests if it is a chip's or its certificate says so. That is what pinning a root
means and no code can check it; the MC module assumes it of its inputs and TLC
evaluates it there. `GoodHostsAreAllowed` is the other direction: a host on
which every control passes is let in, and stays so when optional pins are left out of its
baseline, and switches that are at their default or looser. Its invariant (`NotDenied`) is
that nothing denies such an input on the way; the rest goes control by control. Its
hypothesis, `GoodHostsPass`, says that the hosts in question are good: TLC evaluates it on
five.

**NitroProofs** and **ObjectStoreProofs** prove, for any number of canaries or
payloads, that evidence is exact, that the clean-up properties hold, and that every step of
a probe is one of `CanaryAudit` (`VerdictsAreTrue`). What has to be added to the
properties is how far the loop is: what lies before it has been answered, what lies
after it is not in the bucket, and a canary that is still there is among the
accepted and not yet deleted.

NitroProofs also proves `SsmVerdictWasTrue`: for any sequence of shell checks, any number of
polls and any changes of the host, a PASS or FAIL is true, by the docs, of what the check's own
commands saw, but for what is overlooked or overstated. For a PASS of most checks this
needs that all their tools worked and all of the output arrived, which they cannot tell from the
output; four (`PassesOnlyOnEvidence`) pass on evidence only. A FAIL needs it of four
(`FailsOnRemains`), which may take what a failing tool or a cut line left for a fault.
The invariant (`SsmInv`) ties four things together: what a finished command printed is what
its command prints of the facts it saw, in full, masked or cut off; an answer that was heard is final and
its command never changes again (`HeardIsStable`); the result at hand is the current
command's own; and a verdict is what the check makes of its own commands' final answers.
It rests on lemmas about each check: a complete output is judged exactly
(`CompleteIsExact`, and `EnvironmentIsExact` for ENV-01's two), and what failing tools, a kill or
a truncation leave of it never fails one of the others by itself nor passes one that passes
on evidence (`PartialHidesOnly`).

**ConfigReadsProofs** proves the five properties of `ConfigReads` for all 26 checks and for lists
of any length (`Items` is any natural number): `VerdictsAreExact`, `ReadIssuesAreReported`,
`PassMeansKeyVerified`, `FalseAlarmsAreOfKnownKinds` and `PassMeansSound`. The inductive
invariant, `ReadInv` (theorem `ReadInvariance`), says that each answer is the account's or a
refusal where the call was made and nothing where it was spared, that only the last one can end
the check, and that a verdict is the conclusion from all answers or IAM-01's early pass. The
properties follow from it for any plan that is sound in the sense of `PlanIsSound`, which speaks
of what the checks notice (`Noticed`, that is, `Counted` and `Overstated`), while the properties
speak of the documentation's faults; what is in those and not noticed is just `Overlooked`
(`SoundAsReadIs`). Whatever is noticed is an issue or ends the check; only a call that is spared
has no answer, and what would have spared others is spared with them (`SkipsAreNested`); a refusal
outside the best-effort checks spares nothing that could be noticed (`SkipsAreSafe`). No induction
over the plan is needed: what a check has read is compared with the account call by call.
`PlanIsSound` is then proved of one plan after the other.

**KeyReleaseProofs** proves `OnlyAttestedCode` for any documents, of any size and edited at any
point, the gaps the property names (section 5) left out. Three lemmas say of one document each
what a pass of the checks' predicates means for the service (`KmsPolicySound`, `WifPoolSound`,
`ReleasePolicySound`); the invariant says that a verdict is the predicate's of what the check had
read, and that of every token that is expired in the cache the expiry is on record. `NoSilentSkip`
and `NoFailureCached` follow from it too; the latter says that a 401 means a token that expired,
or the vault's shown to a managed HSM, so that nothing but an issued token is ever cached and each
host but that one is shown its own. `FailuresAreReal` is the other direction: for every way to
fail but the false alarms named a lemma names somebody without attested code whom the service
would give the key (`KmsFailureReal`, `ProviderFailureReal`, `BindingsFailureReal`,
`KeyFailureReal`). It needs the documents to be documents of their kinds (`IsDocument`), which
edits keep, and that a check fails only on one that was decoded (`DocsInv`).

**GpuScanProofs** proves, for any directories, any changes between reads and any captures:
`PromotionEarned`; `VerifiedAttested`; `RunFollowed`; `LeavingOutNeverHelps`;
`HonestCapturesAreVerified`; and `RunsAsScanRunner`, the safety half of `ImplementsRunner`,
as a step simulation in which a read that does not end its check is a stutter. The
inductive invariant (`IInv`) says that the status and tier of every finding are what the predicates
make of *everything its check read*, that what it read is something the files may hold, and that
notes are empty until the second pass and the runner's after it. The verdict of one check is
then about the reads of another because the tally of verified passes needs
GPUCC-SIGVERIFY-01 among the passes. `VerifiedAttested` and `RunFollowed` have one
hypothesis, `NothingForged`: a raw result that looks like a success was written by
nvattest. The code runs no verifier itself and cannot tell; TLC evaluates the hypothesis
on the directories of `gpu_scan`. `PromotionEarned` says that every required measurement was
compared with its golden value, not that there was something to compare: a null agrees with a null.

A second invariant (`ReadsInv`) says why a check skipped or ended in ERROR: it was not given its
file, or met a document that could not be read; and that while nothing was replaced, everything
read is what is there. From it follow the two that speak of all checks at once. For
`LeavingOutNeverHelps` every field of a document but the optional ones has a check that needs it
(`FieldIsNeeded`, `ObjectIsNeeded`, `PassNeeds`); for `HonestCapturesAreVerified` each of the 17
checks with a file passes what an honest capture holds (`HonestJudgement`). Stating them for any
directories brought out what they rest on: the receipt a CUDA run names is that of a success only
if neither the receipt nor the raw result was replaced between being loaded and being hashed; and
a field can be left out without a failure when the policy is not given, because GPUCC-SIGVERIFY-01
then skips, or when a document is replaced between two checks (`ReadOnce`), because each then
passes on what it found.

**Only model-checked**: liveness (`Terminates`, and the fairness part of the five
refinements; ENABLED is out of the prover's reach), and finding 1's and finding 2's
counterexamples. Every safety property of the passing runs is proved.

## 5. What the models leave out, and the plan

### Known coarseness

Documents which the checks read more coarsely than the service that enforces them are
named by the models and left out of the properties:

* *Key policies*: action patterns and `NotAction`, values with asterisks, a real value
  beside zeros, set operators (which hold of an absent key), `Deny` statements, which
  KMS-01 ignores, and values that are empty strings. A statement bound only by an operator
  KMS-01 does not count (`OtherOperators`) fails, as does one nobody can satisfy. Condition keys in
  another case count for nothing at KMS-01 and are among these operators.
* *CEL conditions* are matched as text: alternatives (`||`), negations, and a sha256
  that belongs to another claim read as bindings (`keybind.py:60` says so itself).
* *Pools*: the first page only; a provider without an OIDC issuer is judged by its condition
  alone, one whose issuer contains Confidential Space's as that; a disabled provider is held
  against the pool; a pool that is itself disabled is not modelled. Any pool counts as the
  attested one (`kms_binding.py:35-49`), and a single `principal://` of the pool is flagged
  although it is bound. Roles are a table on the check's side only; bindings that have lapsed or
  whose member was deleted are flagged. Grants inherited from the project, and IAM deny policies,
  are in none of the documents the checks read.
* *Release policies*: a nested `anyOf` counts for nothing; hosts and claims are told by their
  names; sovereign clouds' hosts are no MAA endpoints to the check; whether the policy is immutable is
  not asked. AZ-SKR-01 and AZ-MAA-01
  read the key one after the other and may judge different versions of it.
* *GPU flags*: a text counts as set, `"false"` in quotes too; the debug flags, `mutable_by`,
  `sa_user_managed_keys` and `sa_impersonators` may be left out, and so may
  `required_measurements` and `expected_measurements` (`Optional`); a
  value of `sa_user_managed_keys` that is no integer raises and is not among the inputs.
* *GPU evidence*: a report replaced between GPUCC-SIGVERIFY-01's reading and another check's
  lets that other check's pass count as verified; the CUDA receipt is loaded
  (`cuda_execution.py:155`) before it is hashed (line 168).
* *Canaries*: a bucket with versions keeps them and a delete marker each; the models delete
  what they delete.
* *Event logs*: of which Secure Boot values are in the log, `FlagsSummariseLog` tells none
  from some; which of two was taken is told by the other properties.
* *Best-effort reads* of seven configuration checks can hide an issue.

### Plan

The components with behaviour of their own are all modelled; "partly" in `PROJECT.json`
says what of them is not. What would come next, in order of importance:

1. ScanRunner's theorems carried over to `GpuScan` and `HostScan`, whose steps are its, and
   what a host scan promises by way of `verify()`: the two gates composed.
2. The SQL surface and the remaining oracles of `probes/`, which no platform runs yet.

Not planned: the payload catalog and the demos (data), the synthetic evidence used by
tests, package plumbing, and the wording and layout of reports. Outside the models'
reach by construction: cryptography (symbolic), byte formats (a parse succeeds or
not), and real time (ten polls of three seconds are a count). The wording of
AZ-DBG-01's assurance note, which fails nothing, is not modelled.
