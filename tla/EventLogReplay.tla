---------------------------- MODULE EventLogReplay ----------------------------
(***************************************************************************)
(* tpm.replay_event_log and the control that reads its Secure Boot state:  *)
(* the verifier replays the TCG event log a host hands over, one event at  *)
(* a time, and accepts the log's Secure Boot state only if the log replays *)
(* to a quoted PCR 7.                                                      *)
(*                                                                         *)
(* Hashes are symbolic and free of collisions: a digest is represented by  *)
(* the data it is the digest of, and a PCR value by the startup locality   *)
(* and the sequence of digests extended into it.  The bytes of the header  *)
(* and of an event are abstracted to the fields the code branches on; a    *)
(* log cut short (_Reader.take raising) is the action Truncated.           *)
(***************************************************************************)
EXTENDS Naturals, Sequences, FiniteSets

CONSTANTS
  Algs,          \* algorithm ids a header or an event may name
  Known,         \* HASH_ALGS: those with a bank the verifier can compute
  Pcrs,          \* PCR indices
  Data,          \* event data, and (symbolically) the digests of it
  SbOn, SbOff,   \* UEFI_VARIABLE_DATA of the global SecureBoot = 1 and = 0
  Undecodable,   \* data _efi_variable cannot decode
  LocalityData,  \* "StartupLocality" data -> its locality byte
  ShortLocality, \* "StartupLocality" data without the locality byte
  Events,        \* the events a log may hold
  MaxEvents,     \* bound: length of a log
  Boots,         \* what the TPM's PCRs may hold: pcr -> [loc, ext]
  Selections     \* the sets of <<bank, pcr>> a quote may cover

EventTypes == {"EV_NO_ACTION", "EV_EFI_VARIABLE_DRIVER_CONFIG", "EV_OTHER"}
Digest == [alg : Algs, of : Data]
Event == [type : EventTypes, pcr : Pcrs, digests : Seq(Digest), data : Data]
PcrValue == [loc : Nat, ext : Seq(Data)]

ASSUME AlgAssumption == Known \subseteq Algs
ASSUME PcrAssumption == {0, 7} \subseteq Pcrs
ASSUME DataAssumption ==
  /\ SbOn \in Data /\ SbOff \in Data /\ SbOn # SbOff
  /\ {SbOn, SbOff} \cap Undecodable = {}
ASSUME LocalityAssumption == \A d \in DOMAIN LocalityData : LocalityData[d] \in Nat
ASSUME EventsAssumption == Events \subseteq Event
ASSUME BootsAssumption == Boots \subseteq [Pcrs -> PcrValue]
ASSUME SelectionsAssumption == Selections \subseteq SUBSET (Known \X Pcrs)
ASSUME MaxEventsAssumption == MaxEvents \in Nat

VARIABLES
  tpm,         \* the PCRs the quote signs, alike in every bank
  quoted,      \* the <<bank, pcr>> pairs the quote covers
  stage,       \* "header", "events", "done" or "raised"
  algorithms,  \* algorithms the header declares
  pcrs,        \* EventLog.pcrs: bank -> pcr -> replayed value
  locality,    \* the local of that name
  secureBoot,  \* EventLog.secure_boot: "none", "on" or "off"
  unbound,     \* EventLog.secure_boot_unbound
  conflict,    \* EventLog.secure_boot_conflict
  log          \* history: the events read so far

environment == <<tpm, quoted>>
result == <<pcrs, secureBoot, unbound, conflict>>
vars == <<tpm, quoted, stage, algorithms, pcrs, locality, secureBoot, unbound,
          conflict, log>>

Banks == algorithms \cap Known

Init ==
  /\ tpm \in Boots
  /\ quoted \in Selections
  /\ stage = "header"
  /\ algorithms = {}
  /\ pcrs = [b \in Known |-> [p \in Pcrs |-> [loc |-> 0, ext |-> <<>>]]]
  /\ locality = 0
  /\ secureBoot = "none"
  /\ unbound = FALSE
  /\ conflict = FALSE
  /\ log = <<>>

-------------------------------------------------------------------------------
\* Helpers

Carried(e) == {e.digests[k].alg : k \in DOMAIN e.digests}
DigestIn(e, a) == e.digests[CHOOSE k \in DOMAIN e.digests : e.digests[k].alg = a].of

\* The digest list names an undeclared algorithm, or one twice.
MalformedDigests(e) ==
  \/ ~(Carried(e) \subseteq algorithms)
  \/ \E j, k \in DOMAIN e.digests : j # k /\ e.digests[j].alg = e.digests[k].alg

IsSecureBoot(e) ==
  /\ e.type = "EV_EFI_VARIABLE_DRIVER_CONFIG"
  /\ e.pcr = 7
  /\ e.data \in {SbOn, SbOff}
Enabled(e) == IF e.data = SbOn THEN "on" ELSE "off"

\* Mutant: one matching digest is enough.
BoundSomewhere(e) == \E b \in Banks : b \in Carried(e) /\ DigestIn(e, b) = e.data

\* The event data hashes to the digest the event carries for every bank.
Bound(e) == Banks # {} /\ \A b \in Banks : b \in Carried(e) /\ DigestIn(e, b) = e.data

\* hash(current + digest); a PCR not yet extended starts from the locality.
Extend(v, p, digest) ==
  [loc |-> IF v.ext = <<>> THEN IF p = 0 THEN locality ELSE 0 ELSE v.loc,
   ext |-> Append(v.ext, digest)]

-------------------------------------------------------------------------------
\* Actions

\* The Spec ID header declares the log's algorithms.
Header ==
  /\ stage = "header"
  /\ \E as \in SUBSET Algs : algorithms' = as
  /\ stage' = "events"
  /\ UNCHANGED <<environment, result, locality, log>>

\* The header is not a crypto-agile Spec ID event, or the bytes run out.
Truncated ==
  /\ stage \in {"header", "events"}
  /\ stage' = "raised"
  /\ UNCHANGED <<environment, result, algorithms, locality, log>>

Reads(e) ==
  /\ stage = "events"
  /\ Len(log) < MaxEvents
  /\ log' = Append(log, e)

\* Why replay_event_log refuses an event: its digests, a cut StartupLocality
\* event, a measured event without a digest for every declared algorithm, or
\* an undecodable variable in PCR 7.
Refused(e) ==
  \/ MalformedDigests(e)
  \/ e.type = "EV_NO_ACTION" /\ e.pcr = 0 /\ e.data \in ShortLocality
  \/ e.type # "EV_NO_ACTION" /\ Carried(e) # algorithms
  \/ /\ e.type = "EV_EFI_VARIABLE_DRIVER_CONFIG"
     /\ e.pcr = 7
     /\ e.data \in Undecodable

Refuse(e) ==
  /\ Reads(e)
  /\ Refused(e)
  /\ stage' = "raised"
  /\ UNCHANGED <<environment, result, algorithms, locality>>

\* An EV_NO_ACTION event extends nothing; one may set the startup locality.
NoAction(e) ==
  /\ Reads(e)
  /\ ~Refused(e)
  /\ e.type = "EV_NO_ACTION"
  /\ locality' = IF e.pcr = 0 /\ e.data \in DOMAIN LocalityData
                 THEN LocalityData[e.data] ELSE locality
  /\ UNCHANGED <<environment, result, stage, algorithms>>

\* Mutant: only the first digest is extended.
ReplayFirst(e) ==
  [b \in Known |-> IF b \in Banks /\ b = e.digests[1].alg
                   THEN [pcrs[b] EXCEPT ![e.pcr] = Extend(@, e.pcr, DigestIn(e, b))]
                   ELSE pcrs[b]]

\* Every declared bank extends the PCR with the event's digest for it.
Replay(e) ==
  [b \in Known |-> IF b \in Banks
                   THEN [pcrs[b] EXCEPT ![e.pcr] = Extend(@, e.pcr, DigestIn(e, b))]
                   ELSE pcrs[b]]

\* Mutants: a bound event clears the flag; a repeated event is a conflict.
TakeSecureBootClearing(e) ==
  IF ~Bound(e)
  THEN unbound' = TRUE /\ UNCHANGED <<secureBoot, conflict>>
  ELSE IF secureBoot # "none" /\ secureBoot # Enabled(e)
  THEN conflict' = TRUE /\ UNCHANGED <<secureBoot, unbound>>
  ELSE secureBoot' = Enabled(e) /\ unbound' = FALSE /\ UNCHANGED conflict
TakeSecureBootOnce(e) ==
  IF ~Bound(e)
  THEN unbound' = TRUE /\ UNCHANGED <<secureBoot, conflict>>
  ELSE IF secureBoot # "none"
  THEN conflict' = TRUE /\ UNCHANGED <<secureBoot, unbound>>
  ELSE secureBoot' = Enabled(e) /\ UNCHANGED <<unbound, conflict>>

\* The SecureBoot variable is taken from the event data, if that is bound to
\* the digests.
TakeSecureBoot(e) ==
  IF ~Bound(e)
  THEN unbound' = TRUE /\ UNCHANGED <<secureBoot, conflict>>
  ELSE IF secureBoot # "none" /\ secureBoot # Enabled(e)
  THEN conflict' = TRUE /\ UNCHANGED <<secureBoot, unbound>>
  ELSE secureBoot' = Enabled(e) /\ UNCHANGED <<unbound, conflict>>

\* A measured event extends its PCR in every bank, and may be the variable.
Measure(e) ==
  /\ Reads(e)
  /\ ~Refused(e)
  /\ e.type # "EV_NO_ACTION"
  /\ pcrs' = Replay(e)
  /\ IF IsSecureBoot(e) THEN TakeSecureBoot(e) ELSE UNCHANGED <<secureBoot, unbound, conflict>>
  /\ UNCHANGED <<environment, stage, algorithms, locality>>

EndOfLog ==
  /\ stage = "events"
  /\ stage' = "done"
  /\ UNCHANGED <<environment, result, algorithms, locality, log>>

Next ==
  \/ Header
  \/ Truncated
  \/ \E e \in Events : Refuse(e) \/ NoAction(e) \/ Measure(e)
  \/ EndOfLog

ReplaySpec == Init /\ [][Next]_vars

-------------------------------------------------------------------------------
\* The control.  The PCR values supplied with the quote are taken to be the
\* quoted ones; check_measurement fails the evidence when they are not.

Replayed(b, p) == b \in Banks /\ pcrs[b][p].ext # <<>>

Pcr7Bound == \E b \in Banks : <<b, 7>> \in quoted /\ Replayed(b, 7) /\ pcrs[b][7] = tpm[7]

\* check_secure_boot, with the baseline's require_secure_boot.
SecureBootPasses(require) ==
  /\ stage = "done"
  /\ Pcr7Bound
  /\ ~unbound
  /\ ~conflict
  /\ require => secureBoot = "on"

-------------------------------------------------------------------------------
\* Properties

TypeOK ==
  /\ tpm \in [Pcrs -> PcrValue]
  /\ quoted \in SUBSET (Known \X Pcrs)
  /\ stage \in {"header", "events", "done", "raised"}
  /\ algorithms \in SUBSET Algs
  /\ pcrs \in [Known -> [Pcrs -> PcrValue]]
  /\ locality \in Nat
  /\ secureBoot \in {"none", "on", "off"}
  /\ unbound \in BOOLEAN
  /\ conflict \in BOOLEAN
  /\ log \in Seq(Events)

Extended(v, d) == \E k \in DOMAIN v.ext : v.ext[k] = d

\* Soundness, whatever log the host hands over: when the control passes with
\* Secure Boot required, the TPM itself measured SecureBoot = 1 into the PCR 7
\* the quote signs.  No dropped digest, rewritten event data, same-named vendor
\* variable or repeated event lets a log claim a state that was never measured.
SecureBootWasMeasured == SecureBootPasses(TRUE) => Extended(tpm[7], SbOn)

\* The Secure Boot events among those read: the accepted ones all precede the
\* end of the log and none was refused.
SecureBootEvents == {log[k] : k \in {j \in DOMAIN log : IsSecureBoot(log[j])}}

\* "Unbound and conflicting states are sticky: no later event clears them":
\* the three flags are exactly what the whole log read so far says, in
\* whatever order its events came.
FlagsSummariseLog ==
  stage \in {"events", "done"} =>
    /\ unbound <=> \E e \in SecureBootEvents : ~Bound(e)
    /\ conflict <=> \E e, f \in SecureBootEvents :
                       Bound(e) /\ Bound(f) /\ Enabled(e) # Enabled(f)
    /\ (secureBoot = "none") <=> \A e \in SecureBootEvents : ~Bound(e)

\* A log as the firmware wrote it: every event carries the digests of its
\* data, the variable is labelled as one, and the log replays in full.
FaithfulLog ==
  /\ stage = "done"
  /\ \A k \in DOMAIN log : log[k].type # "EV_NO_ACTION" =>
       /\ \A j \in DOMAIN log[k].digests : log[k].digests[j].of = log[k].data
       /\ log[k].pcr = 7 /\ log[k].data \in {SbOn, SbOff} => IsSecureBoot(log[k])
  /\ \A b \in Banks : \A p \in Pcrs : pcrs[b][p] = tpm[p]

\* Exactness on faithful logs: given a quote of PCR 7 in a declared bank, the
\* control passes just when the TPM measured SecureBoot consistently, and as 1
\* when that is required.  A host that booted as it should is never denied.
FaithfulLogIsJudgedExactly ==
  FaithfulLog /\ tpm[7].ext # <<>> /\ (\E b \in Banks : <<b, 7>> \in quoted) =>
    \A require \in BOOLEAN :
      SecureBootPasses(require) <=>
        /\ ~(Extended(tpm[7], SbOn) /\ Extended(tpm[7], SbOff))
        /\ require => Extended(tpm[7], SbOn)

\* The declared banks of a PCR are extended from the same start and equally often.
EquallyExtended ==
  \A b, c \in Banks : \A p \in Pcrs :
    /\ pcrs[b][p].loc = pcrs[c][p].loc
    /\ Len(pcrs[b][p].ext) = Len(pcrs[c][p].ext)

\* A Secure Boot value that was taken is in PCR 7 of every declared bank.
ValueWasExtended ==
  /\ secureBoot = "on" => \A b \in Banks : Extended(pcrs[b][7], SbOn)
  /\ secureBoot = "off" => \A b \in Banks : Extended(pcrs[b][7], SbOff)

\* No event extends one bank and not another, and the value read from the log is
\* one that every bank measured: whichever bank the quote covers, it covers the
\* event the value came from.  (The banks may still hold different digests: an
\* event other than SecureBoot may be true to its data in one bank only, and a
\* quote over the other then denies what a quote over the first lets pass.)
BanksAdvanceTogether == EquallyExtended /\ ValueWasExtended
===============================================================================
