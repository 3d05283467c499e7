---------------------------- MODULE GpuScanProofs ----------------------------
(***************************************************************************)
(* Theorems about GpuScan, for any evidence directories, replaced as often *)
(* as one likes.                                                           *)
(***************************************************************************)
EXTENDS GpuScan, TLAPS

(***************************************************************************)
(* The inductive invariant: every verdict is that of the check's predicate *)
(* on what it had read, all of it, and so is every tier a check set; what  *)
(* was read is what the files may hold; and notes are the runner's.        *)
(***************************************************************************)
HeldByAny == UNION {Held(f) : f \in Files}

Fits(read, c) ==
  /\ read \in Seq(HeldByAny)
  /\ Len(read) <= Len(Reads(c))
  /\ \A k \in 1..Len(read) : read[k] \in Held(Reads(c)[k])

Judged(i) ==
  LET c == Checks[i]  f == findings[i]  read == evidence[i] IN
  \/ f = Scan!NoFinding
  \/ f.status \in {"SKIP", "ERROR"} /\ f.tier = Gpu!GpuTier[c]
  \/ /\ Fits(read, c) /\ Len(read) = Len(Reads(c))
     /\ f.status = (IF Passes(c, read) THEN "PASS" ELSE "FAIL")
     /\ f.tier = (IF Promoted(c, read) THEN "report-derived" ELSE Gpu!GpuTier[c])

Types ==
  /\ pc \in {"start", "run", "annotate", "report", "done"}
  /\ DOMAIN files = Files
  /\ \A f \in Files : files[f] \in Held(f)
  /\ findings \in [Positions -> Scan!FindingSet]
  /\ DOMAIN evidence = Positions

IInv ==
  /\ Types
  /\ pc = "start" => got = <<>>
  /\ \A i \in Positions : Running(i) =>
       Fits(got, Checks[i]) /\ Len(got) < Len(Reads(Checks[i]))
  /\ \A i \in Positions : Judged(i)
  /\ \A i \in Positions : findings[i].status = "NONE" => findings[i] = Scan!NoFinding
  /\ pc = "start" => \A i \in Positions : findings[i] = Scan!NoFinding
  /\ pc \in {"annotate", "report", "done"} => \A i \in Positions : findings[i] # Scan!NoFinding
  /\ pc \in {"report", "done"} => \A i \in Positions : findings[i].note = Scan!Missing(i)

LEMMA Registered ==
  /\ Positions = 1..18
  /\ \A i \in Positions : Checks[i] \in Gpu!Ids
  /\ Gpu!Ids = {"GPUCC-ATT-01", "GPUCC-RIM-01", "GPUCC-CERT-01", "GPUCC-SIGVERIFY-01",
                "GPUCC-REATTEST-01", "GPUCC-FAILOPEN-01", "GPUCC-MODE-01", "GPUCC-READY-01",
                "GPUCC-CUDA-01", "GPUCC-MODEL-01", "GPUCC-INPUT-01", "GPUCC-DECRYPT-01",
                "GPUCC-VRAM-01", "GPUCC-DMA-01", "GPUCC-VMM-META-01", "GPUCC-CVM-01",
                "GPUCC-BIND-01", "GPUCC-KEY-01"}
<1>1. Positions = 1..18
  BY DEF Positions, Checks, Gpu!GpuChecks
<1>2. \A i \in Positions : Checks[i] \in
               {"GPUCC-ATT-01", "GPUCC-RIM-01", "GPUCC-CERT-01", "GPUCC-SIGVERIFY-01",
                "GPUCC-REATTEST-01", "GPUCC-FAILOPEN-01", "GPUCC-MODE-01", "GPUCC-READY-01",
                "GPUCC-CUDA-01", "GPUCC-MODEL-01", "GPUCC-INPUT-01", "GPUCC-DECRYPT-01",
                "GPUCC-VRAM-01", "GPUCC-DMA-01", "GPUCC-VMM-META-01", "GPUCC-CVM-01",
                "GPUCC-BIND-01", "GPUCC-KEY-01"}
  BY <1>1 DEF Checks, Gpu!GpuChecks
<1>3. Gpu!Ids = {"GPUCC-ATT-01", "GPUCC-RIM-01", "GPUCC-CERT-01", "GPUCC-SIGVERIFY-01",
                "GPUCC-REATTEST-01", "GPUCC-FAILOPEN-01", "GPUCC-MODE-01", "GPUCC-READY-01",
                "GPUCC-CUDA-01", "GPUCC-MODEL-01", "GPUCC-INPUT-01", "GPUCC-DECRYPT-01",
                "GPUCC-VRAM-01", "GPUCC-DMA-01", "GPUCC-VMM-META-01", "GPUCC-CVM-01",
                "GPUCC-BIND-01", "GPUCC-KEY-01"}
  BY DEF Gpu!Ids, Gpu!GpuChecks
<1>4. QED
  BY <1>1, <1>2, <1>3

\* A check opens at least one file.
LEMMA ReadsFiles ==
  ASSUME NEW c \in Gpu!Ids
  PROVE  Reads(c) \in Seq(Files) /\ Len(Reads(c)) >= 1
<1>1. \/ \E f \in Files : Reads(c) = <<f>>
      \/ Reads(c) = <<"policy", "report">>
      \/ Reads(c) = <<"policy", "report", "raw", "raw">>
      \/ Reads(c) = <<"report", "run_receipt", "run_receipt", "run_raw", "run_raw">>
  <2>1. {"report", "policy", "mode", "kbs", "launch", "bucket"} \subseteq Files
    BY DEF Files
  <2>2. CASE c \in {"GPUCC-ATT-01", "GPUCC-VRAM-01", "GPUCC-DMA-01", "GPUCC-CVM-01", "GPUCC-BIND-01"}
    BY <2>1, <2>2 DEF Reads
  <2>3. CASE c = "GPUCC-RIM-01"
    BY <2>1, <2>3 DEF Reads
  <2>4. CASE c \in {"GPUCC-CERT-01", "GPUCC-REATTEST-01", "GPUCC-FAILOPEN-01"}
    BY <2>1, <2>4 DEF Reads
  <2>5. CASE c \in {"GPUCC-SIGVERIFY-01", "GPUCC-MODE-01"}
    BY <2>1, <2>5 DEF Reads
  <2>6. CASE c \in {"GPUCC-READY-01", "GPUCC-INPUT-01", "GPUCC-DECRYPT-01", "GPUCC-KEY-01"}
    BY <2>1, <2>6 DEF Reads
  <2>7. CASE c \in {"GPUCC-CUDA-01", "GPUCC-VMM-META-01", "GPUCC-MODEL-01"}
    BY <2>1, <2>7 DEF Reads
  <2>8. QED
    BY <2>2, <2>3, <2>4, <2>5, <2>6, <2>7, Registered
<1>2. /\ \A f \in Files : <<f>> \in Seq(Files)
      /\ <<"policy", "report">> \in Seq(Files)
      /\ <<"policy", "report", "raw", "raw">> \in Seq(Files)
      /\ <<"report", "run_receipt", "run_receipt", "run_raw", "run_raw">> \in Seq(Files)
  <2>1. {"policy", "report", "raw", "run_receipt", "run_raw"} \subseteq Files
    BY DEF Files
  <2>2. QED
    BY <2>1
<1>3. Reads(c) \in Seq(Files)
  BY <1>1, <1>2
<1>4. Len(Reads(c)) >= 1
  <2>1. CASE \E f \in Files : Reads(c) = <<f>>
    BY <2>1
  <2>2. CASE Reads(c) = <<"policy", "report">>
    BY <2>2
  <2>3. CASE Reads(c) = <<"policy", "report", "raw", "raw">>
    BY <2>3
  <2>4. CASE Reads(c) = <<"report", "run_receipt", "run_receipt", "run_raw", "run_raw">>
    BY <2>4
  <2>5. QED
    BY <1>1, <2>1, <2>2, <2>3, <2>4
<1>5. QED
  BY <1>3, <1>4

LEMMA Positioned ==
  /\ \A i, j \in Positions : Checks[i] = Checks[j] => i = j
  /\ \A i \in Positions : Position(Checks[i]) = i
<1>1. \A i, j \in Positions : Checks[i] = Checks[j] => i = j
  BY Registered DEF Checks, Gpu!GpuChecks
<1>2. QED
  BY <1>1 DEF Position

LEMMA Tiers ==
  \A c \in Gpu!Ids : Gpu!GpuTier[c] \in {"report-derived", "probed", "operator-declared"}
BY DEF Gpu!GpuTier

-------------------------------------------------------------------------------
\* Options are not given or taken back while a scan runs.
LEMMA SameReads ==
  ASSUME Given("report")' <=> Given("report")
  PROVE  \A c : Reads(c)' = Reads(c)
BY DEF Reads

LEMMA InitIInv == Init => IInv
<1> SUFFICES ASSUME Init PROVE IInv
  OBVIOUS
<1>1. DOMAIN files = Files /\ \A f \in Files : files[f] \in Held(f)
  BY DirectoriesAssumption DEF Init, Held
<1>2. findings = [i \in Positions |-> Scan!NoFinding] /\ pc = "start" /\ got = <<>>
      /\ DOMAIN evidence = Positions
  BY DEF Init
<1>3. Scan!NoFinding \in Scan!FindingSet
  BY DEF Scan!NoFinding, Scan!FindingSet, Scan!Tiers
<1>4. Types
  BY <1>1, <1>2, <1>3 DEF Types
<1>5. \A i \in Positions : Judged(i) /\ ~Running(i)
  BY <1>2 DEF Judged, Running
<1>6. QED
  BY <1>2, <1>4, <1>5 DEF IInv

\* At most one check runs.
LEMMA RunsAlone ==
  ASSUME NEW i \in Positions, NEW j \in Positions, Running(i), Running(j)
  PROVE  i = j
<1>1. i \in 1..18 /\ j \in 1..18
  BY Registered
<1>2. ~(i < j) /\ ~(j < i)
  BY <1>1 DEF Running
<1>3. QED
  BY <1>1, <1>2

\* A check that has read nothing has something to read.
LEMMA BeginsAnew ==
  \A i \in Positions : Fits(<<>>, Checks[i]) /\ 0 < Len(Reads(Checks[i]))
<1>1. <<>> \in Seq(HeldByAny) /\ Len(<<>>) = 0
  OBVIOUS
<1>2. \A i \in Positions : Reads(Checks[i]) \in Seq(Files) /\ Len(Reads(Checks[i])) >= 1
  BY Registered, ReadsFiles
<1>3. \A i \in Positions : Len(Reads(Checks[i])) \in Nat
  BY <1>2
<1>4. QED
  BY <1>1, <1>2, <1>3 DEF Fits

\* A check that ends leaves a verdict of its own, and the next one begins anew.
LEMMA FinishIInv ==
  ASSUME IInv, NEW i \in Positions, Running(i), NEW outcome, NEW read,
         \/ outcome \in {Gpu!Returns("SKIP", "none"), Gpu!Returns("ERROR", "none")}
         \/ /\ Fits(read, Checks[i]) /\ Len(read) = Len(Reads(Checks[i]))
            /\ outcome = Judgement(Checks[i], read),
         Finish(i, outcome, read)
  PROVE  IInv'
<1>1. /\ findings' = [findings EXCEPT ![i] = Scan!Stamped(i, outcome)]
      /\ evidence' = [evidence EXCEPT ![i] = read]
      /\ got' = <<>> /\ files' = files /\ pc' = pc /\ pc = "run"
  BY DEF Finish, Running
<1>2. Types
  BY DEF IInv
<1>3. \A c : Reads(c)' = Reads(c)
  BY <1>1, SameReads DEF Given
<1>4. \A c, r : Fits(r, c)' <=> Fits(r, c)
  BY <1>3 DEF Fits
<1>5. Scan!Stamped(i, outcome) =
        [status |-> outcome.status,
         tier |-> IF outcome.tier = "none" THEN Gpu!GpuTier[Checks[i]] ELSE outcome.tier,
         note |-> {}, seen |-> "files"]
  <2>1. ~outcome.raised
    BY DEF Gpu!Returns, Judgement
  <2>2. QED
    BY <2>1 DEF Scan!Stamped
<1>6. Scan!Stamped(i, outcome) \in Scan!FindingSet /\ Scan!Stamped(i, outcome) # Scan!NoFinding
      /\ Scan!Stamped(i, outcome).status # "NONE"
  <2>1. /\ outcome.status \in {"PASS", "FAIL", "SKIP", "ERROR"}
        /\ outcome.tier \in {"none", "report-derived"}
    BY DEF Gpu!Returns, Judgement
  <2>2. Gpu!GpuTier[Checks[i]] \in {"report-derived", "probed", "operator-declared"}
    BY Registered, Tiers
  <2>3. QED
    BY <1>5, <2>1, <2>2 DEF Scan!FindingSet, Scan!NoFinding, Scan!Statuses, Scan!Tiers
<1>7. Types'
  BY <1>1, <1>2, <1>6 DEF Types
<1>8. \A j \in Positions : findings'[j] = IF j = i THEN Scan!Stamped(i, outcome) ELSE findings[j]
  BY <1>1, <1>2 DEF Types
<1>9. \A j \in Positions : evidence'[j] = IF j = i THEN read ELSE evidence[j]
  BY <1>1, <1>2 DEF Types
<1>10. ASSUME NEW j \in Positions PROVE Judged(j)'
  <2>1. CASE j # i
    <3>1. Judged(j)
      BY DEF IInv
    <3>2. QED
      BY <1>3, <1>4, <1>8, <1>9, <2>1, <3>1 DEF Judged
  <2>2. CASE j = i
    <3>1. findings'[i] = Scan!Stamped(i, outcome) /\ evidence'[i] = read
      BY <1>8, <1>9
    <3>2. CASE outcome \in {Gpu!Returns("SKIP", "none"), Gpu!Returns("ERROR", "none")}
      BY <1>5, <2>2, <3>1, <3>2 DEF Judged, Gpu!Returns
    <3>3. CASE /\ Fits(read, Checks[i]) /\ Len(read) = Len(Reads(Checks[i]))
               /\ outcome = Judgement(Checks[i], read)
      <4>1. /\ outcome.status = (IF Passes(Checks[i], read) THEN "PASS" ELSE "FAIL")
            /\ outcome.tier = (IF Promoted(Checks[i], read) THEN "report-derived" ELSE "none")
        BY <3>3 DEF Judgement, Gpu!Returns
      <4>2. Fits(read, Checks[i])' /\ Len(read) = Len(Reads(Checks[i])')
        BY <1>3, <1>4, <3>3
      <4>3. QED
        BY <1>5, <2>2, <3>1, <4>1, <4>2 DEF Judged
    <3>4. QED
      BY <3>2, <3>3
  <2>3. QED
    BY <2>1, <2>2
<1>11. \A j \in Positions : Fits(<<>>, Checks[j]) /\ 0 < Len(Reads(Checks[j]))
  BY BeginsAnew
<1>12. \A j \in Positions : Running(j)' => Fits(got, Checks[j])' /\ Len(got') < Len(Reads(Checks[j])')
  BY <1>1, <1>3, <1>4, <1>11
<1>13. QED
  BY <1>1, <1>6, <1>7, <1>8, <1>10, <1>12 DEF IInv

LEMMA NextIInv == IInv /\ [Next]_vars => IInv'
<1> SUFFICES ASSUME IInv, [Next]_vars PROVE IInv'
  OBVIOUS
<1> USE DEF IInv
<1>1. Types
  OBVIOUS
<1>2. ASSUME files' = files PROVE \A c, r : Reads(c)' = Reads(c) /\ (Fits(r, c)' <=> Fits(r, c))
  <2>1. \A c : Reads(c)' = Reads(c)
    BY <1>2, SameReads DEF Given
  <2>2. QED
    BY <2>1 DEF Fits
<1>3. ASSUME UNCHANGED <<files, findings, evidence>> PROVE \A i \in Positions : Judged(i)'
  BY <1>2, <1>3 DEF Judged
<1>4. CASE Select
  <2>1. UNCHANGED <<files, refreshes, got, findings, evidence>> /\ pc = "start" /\ pc' = "run"
    BY <1>4 DEF Select
  <2>2. Types'
    BY <1>1, <2>1 DEF Types
  <2>3. \A i \in Positions : Fits(<<>>, Checks[i]) /\ 0 < Len(Reads(Checks[i]))
    BY BeginsAnew
  <2>4. \A i \in Positions : Fits(got, Checks[i])' /\ Len(got') < Len(Reads(Checks[i])')
    BY <1>2, <2>1, <2>3
  <2>5. QED
    BY <1>3, <2>1, <2>2, <2>4
<1>5. ASSUME NEW i \in Positions, Skip(i) PROVE IInv'
  BY <1>5, FinishIInv DEF Skip
<1>6. ASSUME NEW i \in Positions, Read(i) PROVE IInv'
  <2> DEFINE c == Checks[i]
             file == Reads(c)[Len(got) + 1]
             read == Append(got, files[file])
  <2>1. Running(i) /\ Fits(got, c) /\ Len(got) < Len(Reads(c)) /\ c \in Gpu!Ids
    BY <1>6, Registered DEF Read
  <2>2. Reads(c) \in Seq(Files) /\ got \in Seq(HeldByAny)
    BY <2>1, ReadsFiles DEF Fits
  <2>3. Len(got) \in Nat /\ Len(Reads(c)) \in Nat /\ Len(got) + 1 \in 1..Len(Reads(c))
    BY <2>1, <2>2
  <2>4. file \in Files
    BY <2>2, <2>3
  <2>5. files[file] \in Held(file)
    BY <1>1, <2>4 DEF Types
  <2>6. files[file] \in HeldByAny
    BY <2>4, <2>5 DEF HeldByAny
  <2>7. read \in Seq(HeldByAny) /\ Len(read) = Len(got) + 1
        /\ \A k \in 1..Len(read) : read[k] = IF k = Len(got) + 1 THEN files[file] ELSE got[k]
    BY <2>2, <2>6
  <2>8. \A k \in 1..Len(read) : read[k] \in Held(Reads(c)[k])
    <3>1. \A k \in 1..Len(got) : got[k] \in Held(Reads(c)[k])
      BY <2>1 DEF Fits
    <3>2. QED
      BY <2>3, <2>5, <2>7, <3>1
  <2>9. Fits(read, c)
    BY <2>3, <2>7, <2>8 DEF Fits
  <2>10. CASE file \in Documents /\ files[file] \in {NotThere, Garbled}
    <3>1. Finish(i, Gpu!Returns("ERROR", "none"), read)
      BY <1>6, <2>10 DEF Read
    <3>2. QED
      BY <2>1, <3>1, FinishIInv
  <2>11. CASE ~(file \in Documents /\ files[file] \in {NotThere, Garbled}) /\ Len(read) = Len(Reads(c))
    <3>1. Finish(i, Judgement(c, read), read)
      BY <1>6, <2>11 DEF Read
    <3>2. QED
      BY <2>1, <2>9, <2>11, <3>1, FinishIInv
  <2>12. CASE ~(file \in Documents /\ files[file] \in {NotThere, Garbled}) /\ Len(read) # Len(Reads(c))
    <3>1. got' = read /\ UNCHANGED <<files, pc, findings, evidence>>
      BY <1>6, <2>12 DEF Read
    <3>2. Types'
      BY <1>1, <3>1 DEF Types
    <3>3. Len(read) < Len(Reads(c))
      BY <2>3, <2>7, <2>12
    <3>4. ASSUME NEW j \in Positions, Running(j)'
          PROVE  Fits(got, Checks[j])' /\ Len(got') < Len(Reads(Checks[j])')
      <4>1. Running(j)
        BY <3>1, <3>4 DEF Running
      <4>2. j = i
        BY <2>1, <4>1, RunsAlone
      <4>3. QED
        BY <1>2, <2>9, <3>1, <3>3, <4>2
    <3>5. pc = "run"
      BY <2>1 DEF Running
    <3>6. QED
      BY <1>3, <3>1, <3>2, <3>4, <3>5
  <2>13. QED
    BY <2>10, <2>11, <2>12
<1>7. ASSUME UNCHANGED <<files, got, findings, evidence>>, pc' # "run", pc # "start", pc' # "start",
             pc' \in {"annotate", "report", "done"},
             \A i \in Positions : findings[i] # Scan!NoFinding,
             pc' # "annotate" => \A i \in Positions : findings[i].note = Scan!Missing(i)
      PROVE  IInv'
  <2>1. Types'
    BY <1>1, <1>7 DEF Types
  <2>2. \A i \in Positions : ~Running(i)'
    BY <1>7 DEF Running
  <2>3. \A i \in Positions : Scan!Missing(i)' = Scan!Missing(i)
    BY <1>7 DEF Scan!Missing, Scan!PassedIds
  <2>4. QED
    BY <1>3, <1>7, <2>1, <2>2, <2>3
<1>8. CASE LoopDone
  BY <1>7, <1>8 DEF LoopDone
<1>9. CASE Annotate
  <2>1. findings' = [i \in Positions |-> [findings[i] EXCEPT !.note = Scan!Missing(i)]]
        /\ UNCHANGED <<files, got, evidence>> /\ pc = "annotate" /\ pc' = "report"
    BY <1>9 DEF Annotate
  <2>2. ASSUME NEW i \in Positions
        PROVE  /\ findings[i] \in Scan!FindingSet /\ findings'[i] \in Scan!FindingSet
               /\ findings'[i].status = findings[i].status
               /\ findings'[i].tier = findings[i].tier
               /\ findings'[i].note = Scan!Missing(i)
    <3>1. findings[i] \in Scan!FindingSet
      BY <1>1 DEF Types
    <3>2. Scan!Missing(i) \subseteq Scan!Ids
      <4>1. Gpu!GpuDependsOn[Checks[i]] \subseteq Scan!Ids
        <5>1. "GPUCC-SIGVERIFY-01" = Checks[4] /\ 4 \in Positions
          BY Registered DEF Checks, Gpu!GpuChecks
        <5>2. "GPUCC-SIGVERIFY-01" \in Scan!Ids
          BY <5>1 DEF Scan!Ids, Scan!Positions, Positions
        <5>3. QED
          BY <5>2, Registered DEF Gpu!GpuDependsOn
      <4>2. QED
        BY <4>1 DEF Scan!Missing
    <3>3. QED
      BY <2>1, <3>1, <3>2 DEF Scan!FindingSet
  <2>3. Types'
    BY <1>1, <2>1, <2>2 DEF Types
  <2>4. \A i \in Positions : ~Running(i)'
    BY <2>1 DEF Running
  <2>5. \A i \in Positions : findings[i] # Scan!NoFinding /\ findings[i].status # "NONE"
    BY <2>1
  <2>6. \A i \in Positions : findings'[i].status # "NONE" /\ findings'[i] # Scan!NoFinding
    BY <2>2, <2>5 DEF Scan!NoFinding
  <2>7. ASSUME NEW i \in Positions PROVE Judged(i)'
    <3>1. /\ Judged(i) /\ findings[i] # Scan!NoFinding
          /\ findings'[i].status = findings[i].status /\ findings'[i].tier = findings[i].tier
          /\ evidence' = evidence
      BY <2>1, <2>2, <2>5
    <3>2. \A c, r : Reads(c)' = Reads(c) /\ (Fits(r, c)' <=> Fits(r, c))
      BY <1>2, <2>1
    <3>3. QED
      BY <3>1, <3>2 DEF Judged
  <2>8. \A i \in Positions : findings'[i].note = Scan!Missing(i)'
    <3>1. \A i \in Positions : Scan!Missing(i)' = Scan!Missing(i)
      BY <2>1, <2>2 DEF Scan!Missing, Scan!PassedIds, Positions, Scan!Positions
    <3>2. QED
      BY <2>2, <3>1
  <2>9. QED
    BY <2>1, <2>3, <2>4, <2>6, <2>7, <2>8
<1>10. CASE Report
  BY <1>7, <1>10 DEF Report
<1>11. CASE Refresh
  <2>1. PICK f \in DOMAIN Versions : \E v \in Versions[f] : Given(f) /\ files' = [files EXCEPT ![f] = v]
    BY <1>11 DEF Refresh
  <2>2. PICK v \in Versions[f] : Given(f) /\ files' = [files EXCEPT ![f] = v]
    BY <2>1
  <2>3. f \in Files /\ v \in Held(f) /\ v # NotGiven
    BY <2>2, VersionsAssumption DEF Held
  <2>4. DOMAIN files' = Files /\ \A g \in Files : files'[g] \in Held(g) /\ (Given(g)' <=> Given(g))
    BY <1>1, <2>2, <2>3 DEF Types, Given
  <2>5. \A c : Reads(c)' = Reads(c)
    <3>1. "report" \in Files
      BY DEF Files
    <3>2. QED
      BY <2>4, <3>1, SameReads
  <2>6. \A c, r : Fits(r, c)' <=> Fits(r, c)
    BY <2>5 DEF Fits
  <2>7. UNCHANGED <<pc, got, findings, evidence>> /\ pc = "run"
    BY <1>11 DEF Refresh
  <2>8. Types'
    BY <1>1, <2>4, <2>7 DEF Types
  <2>9. \A i \in Positions : Judged(i)'
    BY <2>5, <2>6, <2>7 DEF Judged
  <2>10. \A i \in Positions : Running(i)' <=> Running(i)
    BY <2>7 DEF Running
  <2>11. QED
    BY <2>5, <2>6, <2>7, <2>8, <2>9, <2>10
<1>12. CASE UNCHANGED vars
  <2>1. UNCHANGED <<files, got, findings, evidence, pc>>
    BY <1>12 DEF vars
  <2>2. Types'
    BY <1>1, <2>1 DEF Types
  <2>3. \A i \in Positions : Scan!Missing(i)' = Scan!Missing(i) /\ (Running(i)' <=> Running(i))
    BY <2>1 DEF Scan!Missing, Scan!PassedIds, Running
  <2>4. QED
    BY <1>2, <1>3, <2>1, <2>2, <2>3
<1>13. QED
  BY <1>4, <1>5, <1>6, <1>8, <1>9, <1>10, <1>11, <1>12 DEF Next, Step

LEMMA Invariance == Spec => []IInv
  BY InitIInv, NextIInv, PTL DEF Spec

-------------------------------------------------------------------------------
\* A pass is the check's, of everything it opens.
LEMMA PassIsJudged ==
  ASSUME IInv, NEW i \in Positions, findings[i].status = "PASS"
  PROVE  /\ Fits(evidence[i], Checks[i]) /\ Len(evidence[i]) = Len(Reads(Checks[i]))
         /\ Passes(Checks[i], evidence[i])
         /\ findings[i].tier = (IF Promoted(Checks[i], evidence[i])
                                THEN "report-derived" ELSE Gpu!GpuTier[Checks[i]])
<1>1. Judged(i)
  BY DEF IInv
<1>2. findings[i] # Scan!NoFinding
  BY DEF Scan!NoFinding
<1>3. QED
  BY <1>1, <1>2 DEF Judged

LEMMA Numbered ==
  /\ Checks[1] = "GPUCC-ATT-01" /\ 1 \in Positions
  /\ Position("GPUCC-RIM-01") = 2 /\ Checks[2] = "GPUCC-RIM-01" /\ 2 \in Positions
  /\ Position("GPUCC-SIGVERIFY-01") = 4 /\ Checks[4] = "GPUCC-SIGVERIFY-01" /\ 4 \in Positions
  /\ Position("GPUCC-CUDA-01") = 9 /\ Checks[9] = "GPUCC-CUDA-01" /\ 9 \in Positions
<1>1. /\ Checks[1] = "GPUCC-ATT-01" /\ Checks[2] = "GPUCC-RIM-01"
      /\ Checks[4] = "GPUCC-SIGVERIFY-01" /\ Checks[9] = "GPUCC-CUDA-01"
  BY DEF Checks, Gpu!GpuChecks
<1>2. 1 \in Positions /\ 2 \in Positions /\ 4 \in Positions /\ 9 \in Positions
  BY Registered
<1>3. QED
  BY <1>1, <1>2, Positioned

\* GPUCC-RIM-01 passes as report-derived only if each required measurement is
\* pinned and was compared with its golden value, whatever policies and reports the
\* directory holds (rim_measurement.py:42); a null agrees with a null.
THEOREM PromotionEarned == Spec => []PromotionIsEarned
<1>1. ASSUME IInv PROVE PromotionIsEarned
  <2>1. SUFFICES ASSUME findings[2].status = "PASS", findings[2].tier = "report-derived"
                 PROVE  \A m \in Required(evidence[2][1]) :
                          /\ m \in evidence[2][1].pinned_measurements
                          /\ evidence[2][2].measurements[m] # Absent
                          /\ evidence[2][2].measurements[m] =
                               evidence[2][1].expected_measurements[m]
    BY Numbered DEF PromotionIsEarned
  <2> DEFINE read == evidence[2]
  <2>2. Passes("GPUCC-RIM-01", read) /\ Promoted("GPUCC-RIM-01", read)
    <3>1. Gpu!GpuTier["GPUCC-RIM-01"] = "operator-declared"
      BY Registered DEF Gpu!GpuTier, Gpu!ReportDerived, Gpu!Probed
    <3>2. QED
      BY <1>1, <2>1, <3>1, Numbered, PassIsJudged
  <2>3. RimPinned(read[1], Measured(read)) /\ ValuesChecked(read[1], Measured(read))
    BY <2>2 DEF Passes, Promoted
  <2>4. Present(Measured(read)) # {}
    BY <2>3 DEF ValuesChecked
  <2>5. Measured(read) = read[2].measurements
    BY <2>4 DEF Measured, Present
  <2>6. QED
    BY <2>3, <2>4, <2>5 DEF RimPinned
<1>2. QED
  BY <1>1, Invariance, PTL

\* A raw result that matches a receipt is a success of nvattest's.
LEMMA MatchedWasAttested ==
  ASSUME NothingForged, NEW f \in {"raw", "run_raw"}, NEW content \in Held(f),
         NEW receipt, NEW hashed, NEW report,
         Matches(receipt, hashed, Parsed(content, NoResult), report)
  PROVE  Attested(report.ueid, receipt.nonce)
<1>1. content \notin {NotThere, Garbled}
  BY AbsentAssumption DEF Texts, Matches, Succeeded, Parsed, NoResult
<1>2. /\ Succeeded(content) /\ content.claims = "1"
      /\ content.dbg = "disabled" /\ content.measres = "success"
      /\ content.nonce = receipt.nonce /\ content.ueid = report.ueid
  BY <1>1 DEF Matches, Parsed, Binds
<1>3. content \in Successes
  BY <1>1, <1>2 DEF NothingForged
<1>4. QED
  BY <1>2, <1>3 DEF Attested

\* When GPUCC-SIGVERIFY-01 passes on a report, nvattest had attested the GPU of
\* that report under its nonce.
LEMMA SignatureAttests ==
  ASSUME NothingForged, IInv, findings[4].status = "PASS", Given("report")
  PROVE  /\ ReportAt(4) = {evidence[4][2]}
         /\ Attested(evidence[4][2].ueid, evidence[4][2].verification.nonce)
<1> DEFINE read == evidence[4]
<1>1. Reads("GPUCC-SIGVERIFY-01") = <<"policy", "report", "raw", "raw">>
  BY DEF Reads
<1>2. /\ Fits(read, "GPUCC-SIGVERIFY-01") /\ Len(read) = 4
      /\ Passes("GPUCC-SIGVERIFY-01", read)
  BY <1>1, Numbered, PassIsJudged
<1>3. read[4] \in Held("raw") /\ DOMAIN read = 1..4
  BY <1>1, <1>2 DEF Fits
<1>4. SignatureVerified(read)
  BY <1>2 DEF Passes
<1>5. Attested(read[2].ueid, read[2].verification.nonce)
  BY <1>3, <1>4, MatchedWasAttested DEF SignatureVerified, ReceiptValid
<1>6. ReportAt(4) = {read[2]}
  BY <1>1, <1>3, Numbered DEF ReportAt
<1>7. QED
  BY <1>5, <1>6

\* Whatever the report and its receipts say, wherever they come from and however
\* often they are replaced: a pass tallied as verified was read from a report
\* whose GPU nvattest had attested, or from one GPUCC-SIGVERIFY-01 did not see.
THEOREM VerifiedAttested ==
  ASSUME NothingForged
  PROVE  Spec => []VerifiedReportWasAttested
<1>1. ASSUME IInv PROVE VerifiedReportWasAttested
  <2>1. SUFFICES ASSUME pc = "done", NEW i \in Scan!Verified,
                        findings[i].tier = "report-derived",
                        NEW r \in ReportAt(i) \cap ReportAt(4)
                 PROVE  Attested(r.ueid, r.verification.nonce)
    BY Numbered DEF VerifiedReportWasAttested
  <2>2. i \in Positions /\ findings[i].status = "PASS"
    BY <2>1 DEF Scan!Verified, Scan!WithStatus
  <2>3. findings[4].status = "PASS"
    <3>1. CASE i = 4
      BY <2>2, <3>1
    <3>2. CASE i # 4
      <4>1. findings[i].note = {} /\ findings[i].note = Scan!Missing(i)
        BY <1>1, <2>1, <2>2 DEF IInv, Scan!Verified
      <4>2. Gpu!GpuDependsOn[Checks[i]] \subseteq Scan!PassedIds
        BY <2>1, <2>2, <4>1 DEF Scan!Missing
      <4>3. Checks[i] \in Gpu!ReportDerived \cup {"GPUCC-RIM-01"}
        <5>1. Checks[i] # "GPUCC-SIGVERIFY-01"
          BY <2>2, <3>2, Numbered, Positioned
        <5>2. Promoted(Checks[i], evidence[i]) \/ Gpu!GpuTier[Checks[i]] = "report-derived"
          BY <1>1, <2>1, <2>2, PassIsJudged
        <5>3. Promoted(Checks[i], evidence[i]) => Checks[i] = "GPUCC-RIM-01"
          BY <5>1 DEF Promoted
        <5>4. Gpu!GpuTier[Checks[i]] = "report-derived" => Checks[i] \in Gpu!ReportDerived
          BY <2>2, Registered DEF Gpu!GpuTier
        <5>5. QED
          BY <5>2, <5>3, <5>4
      <4>4. "GPUCC-SIGVERIFY-01" \in Gpu!GpuDependsOn[Checks[i]]
        BY <2>2, <4>3, Registered DEF Gpu!GpuDependsOn
      <4>5. PICK j \in Positions : Checks[j] = "GPUCC-SIGVERIFY-01" /\ findings[j].status = "PASS"
        BY <2>1, <4>2, <4>4 DEF Scan!PassedIds
      <4>6. j = 4
        BY <4>5, Numbered, Positioned
      <4>7. QED
        BY <4>5, <4>6
    <3>3. QED
      BY <3>1, <3>2
  <2>4. Given("report")
    <3>1. SUFFICES ASSUME ~Given("report") PROVE FALSE
      OBVIOUS
    <3>2. Reads(Checks[4]) = <<"policy">>
      BY <3>1, Numbered DEF Reads
    <3>3. evidence[4] \in Seq(HeldByAny) /\ Len(evidence[4]) = 1
      BY <1>1, <2>3, <3>2, Numbered, PassIsJudged DEF Fits
    <3>4. DOMAIN evidence[4] = 1..1
      BY <3>3
    <3>5. QED
      BY <2>1, <3>2, <3>4, Numbered DEF ReportAt
  <2>5. QED
    BY <1>1, <2>1, <2>3, <2>4, SignatureAttests
<1>2. QED
  BY <1>1, Invariance, PTL

\* GPUCC-CUDA-01 passes only on a run linked to an attestation of the very GPU of
\* the report, and on that GPU; the receipt it names is, field by field, the one
\* written for a success of nvattest's, whatever receipts and results the
\* directory holds, unless one was replaced between being loaded and being hashed.
THEOREM RunFollowed ==
  ASSUME NothingForged
  PROVE  Spec => []RunFollowedAttestation
<1>1. ASSUME IInv, findings[9].status = "PASS"
      PROVE  LET read == evidence[9]
             IN /\ Attested(read[1].ueid, read[2].nonce)
                /\ read[1].cuda.uuid = read[1].uuid
                /\ read[2] = read[3] /\ read[4] = read[5] =>
                     \E raw \in Successes : read[1].cuda.digest = ReceiptOf(raw)
  <2> DEFINE read == evidence[9]
             receipt == Parsed(read[2], NoReceipt)
             raw == Parsed(read[5], NoResult)
  <2>1. Reads("GPUCC-CUDA-01") = <<"report", "run_receipt", "run_receipt", "run_raw", "run_raw">>
    BY DEF Reads
  <2>2. Fits(read, "GPUCC-CUDA-01") /\ Len(read) = 5 /\ Passes("GPUCC-CUDA-01", read)
    BY <1>1, <2>1, Numbered, PassIsJudged
  <2>3. read[2] \in Held("run_receipt") /\ read[5] \in Held("run_raw")
    BY <2>1, <2>2 DEF Fits
  <2>4. RunAttested(read)
    BY <2>2 DEF Passes
  <2>5. receipt.schema = "v1" /\ SaysVerified(receipt)
        /\ Matches(receipt, read[4], raw, read[1])
        /\ read[1].cuda.uuid = read[1].uuid
        /\ read[3] = read[1].cuda.digest
    BY <2>4 DEF RunAttested, RunIsAttested, Executed
  <2>6. receipt = read[2] /\ read[2] \notin {NotThere, Garbled}
    <3>1. Absent # "v1"
      BY AbsentAssumption DEF Texts
    <3>2. NoReceipt.schema = Absent
      BY DEF NoReceipt
    <3>3. QED
      BY <2>5, <3>1, <3>2 DEF Parsed
  <2>7. raw = read[5] /\ read[5] \notin {NotThere, Garbled}
    <3>1. Absent # "0" /\ raw.code = "0"
      BY <2>5, AbsentAssumption DEF Texts, Matches, Succeeded
    <3>2. NoResult.code = Absent
      BY DEF NoResult
    <3>3. QED
      BY <3>1, <3>2 DEF Parsed
  <2>8. Attested(read[1].ueid, read[2].nonce)
    BY <2>3, <2>5, <2>6, MatchedWasAttested
  <2>9. ASSUME read[2] = read[3], read[4] = read[5]
        PROVE  \E x \in Successes : read[1].cuda.digest = ReceiptOf(x)
    <3>1. /\ receipt.schema = "v1" /\ receipt.tool = "nvattest" /\ receipt.verified = "true"
          /\ receipt.code = raw.code /\ receipt.claims = raw.claims /\ receipt.eat = raw.eat
          /\ receipt.nonce = raw.command /\ receipt.digest = raw /\ raw.code = "0"
      BY <2>5, <2>7, <2>9 DEF SaysVerified, Matches, Succeeded
    <3>2. receipt = [f \in ReceiptFields |-> receipt[f]]
      BY <2>3, <2>6, ReceiptsAssumption
    <3>3. \A f \in ReceiptFields : receipt[f] = ReceiptOf(raw)[f]
      BY <3>1 DEF ReceiptFields, ReceiptOf
    <3>4. ReceiptOf(raw) = [f \in ReceiptFields |-> ReceiptOf(raw)[f]]
      BY DEF ReceiptFields, ReceiptOf
    <3>5. receipt = ReceiptOf(raw)
      BY <3>2, <3>3, <3>4
    <3>6. raw \in Successes
      <4>1. Succeeded(raw) /\ raw.claims = "1" /\ raw.dbg = "disabled" /\ raw.measres = "success"
        BY <2>5 DEF Matches, Binds
      <4>2. QED
        BY <2>3, <2>7, <4>1 DEF NothingForged
    <3>7. QED
      BY <2>5, <2>6, <2>9, <3>5, <3>6
  <2>10. QED
    BY <2>5, <2>8, <2>9
<1>2. IInv => RunFollowedAttestation
  BY <1>1, Numbered DEF RunFollowedAttestation, PassOf
<1>3. QED
  BY <1>2, Invariance, PTL

(***************************************************************************)
(* The invariant about what was read: options stay given; a check that     *)
(* skips had not been given its file; one that judges had its documents,   *)
(* decoded, and one that ends in ERROR had not; and while nothing was      *)
(* replaced, everything read is what is there.                             *)
(***************************************************************************)
Unreadable == {NotThere, Garbled}

Clean(read, c) ==
  \A k \in DOMAIN read : Reads(c)[k] \in Documents => read[k] \notin Unreadable \cup {NotGiven}

Current(read, c) == \A k \in DOMAIN read : read[k] = files[Reads(c)[k]]

ReadBy(i) ==
  LET c == Checks[i]  status == findings[i].status  read == evidence[i] IN
  /\ status \in {"PASS", "FAIL"} => ~Skips(c) /\ Clean(read, c)
  /\ status = "SKIP" => Skips(c) /\ read = <<>>
  /\ status = "ERROR" =>
       \E k \in DOMAIN read : Reads(c)[k] \in Documents /\ read[k] \in Unreadable
  /\ refreshes = 0 => Current(read, c)

ReadsInv ==
  /\ refreshes \in Nat
  /\ files["bucket"] = NotGiven
  /\ \A i \in Positions : Running(i) =>
       Clean(got, Checks[i]) /\ (refreshes = 0 => Current(got, Checks[i]))
  /\ \A i \in Positions : ReadBy(i)

LEMMA InitReadsInv == Init => ReadsInv
<1> SUFFICES ASSUME Init PROVE ReadsInv
  OBVIOUS
<1>1. refreshes \in Nat /\ files["bucket"] = NotGiven
  BY BoundAssumption, DirectoriesAssumption DEF Init
<1>2. \A i \in Positions : ~Running(i)
  BY DEF Init, Running
<1>3. ASSUME NEW i \in Positions PROVE ReadBy(i)
  <2>1. evidence[i] = <<>> /\ findings[i].status = "NONE"
    BY DEF Init, Scan!NoFinding
  <2>2. DOMAIN evidence[i] = {}
    BY <2>1
  <2>3. QED
    BY <2>1, <2>2 DEF ReadBy, Current
<1>4. QED
  BY <1>1, <1>2, <1>3 DEF ReadsInv

\* Nothing the invariant is about changes but what it says of the check that ends.
LEMMA FinishReadsInv ==
  ASSUME IInv, ReadsInv, NEW i \in Positions, Running(i), NEW outcome, NEW read,
         Finish(i, outcome, read),
         outcome.raised = FALSE,
         outcome.status \in {"PASS", "FAIL"} => ~Skips(Checks[i]) /\ Clean(read, Checks[i]),
         outcome.status = "SKIP" => Skips(Checks[i]) /\ read = <<>>,
         outcome.status = "ERROR" =>
           \E k \in DOMAIN read : Reads(Checks[i])[k] \in Documents /\ read[k] \in Unreadable,
         refreshes = 0 => Current(read, Checks[i])
  PROVE  ReadsInv'
<1>1. /\ findings' = [findings EXCEPT ![i] = Scan!Stamped(i, outcome)]
      /\ evidence' = [evidence EXCEPT ![i] = read]
      /\ got' = <<>> /\ UNCHANGED <<files, refreshes>>
  BY DEF Finish
<1>2. Scan!Stamped(i, outcome).status = outcome.status
  BY DEF Scan!Stamped
<1>3. \A c : Reads(c)' = Reads(c) /\ (Skips(c)' <=> Skips(c))
  BY <1>1 DEF Reads, Skips, Given
<1>4. \A c, r : (Clean(r, c)' <=> Clean(r, c)) /\ (Current(r, c)' <=> Current(r, c))
  BY <1>1, <1>3 DEF Clean, Current
<1>5. ASSUME NEW j \in Positions PROVE ReadBy(j)'
  <2>1. CASE j = i
    <3>1. findings'[j].status = outcome.status /\ evidence'[j] = read
      BY <1>1, <1>2, <2>1 DEF IInv, Types
    <3>2. QED
      BY <1>1, <1>3, <1>4, <2>1, <3>1 DEF ReadBy
  <2>2. CASE j # i
    <3>1. findings'[j] = findings[j] /\ evidence'[j] = evidence[j]
      BY <1>1, <2>2 DEF IInv, Types
    <3>2. ReadBy(j)
      BY DEF ReadsInv
    <3>3. QED
      BY <1>1, <1>3, <1>4, <3>1, <3>2 DEF ReadBy
  <2>3. QED
    BY <2>1, <2>2
<1>6. DOMAIN got' = {}
  BY <1>1
<1>7. \A c : Clean(got, c)' /\ Current(got, c)'
  BY <1>6 DEF Clean, Current
<1>8. QED
  BY <1>1, <1>5, <1>7 DEF ReadsInv

\* A check that does not skip is given every document it opens.
LEMMA DocumentsGiven ==
  ASSUME Types, NEW c \in Gpu!Ids, ~Skips(c), NEW k \in 1..Len(Reads(c)),
         Reads(c)[k] \in Documents
  PROVE  Given(Reads(c)[k])
<1>1. Given(Reads(c)[1])
  BY DEF Skips
<1>2. CASE k = 1
  BY <1>1, <1>2
<1>3. CASE k # 1 /\ c = "GPUCC-RIM-01"
  <2>1. CASE Given("report")
    <3>1. Reads(c) = <<"policy", "report">>
      BY <1>3, <2>1 DEF Reads
    <3>2. k = 2
      BY <1>3, <3>1
    <3>3. QED
      BY <2>1, <3>1, <3>2
  <2>2. CASE ~Given("report")
    <3>1. Reads(c) = <<"policy">>
      BY <1>3, <2>2 DEF Reads
    <3>2. QED
      BY <1>3, <3>1
  <2>3. QED
    BY <2>1, <2>2
<1>4. CASE k # 1 /\ c = "GPUCC-SIGVERIFY-01"
  <2>1. CASE Given("report")
    <3>1. Reads(c) = <<"policy", "report", "raw", "raw">>
      BY <1>4, <2>1 DEF Reads
    <3>2. k = 2 \/ Reads(c)[k] = "raw"
      BY <1>4, <3>1
    <3>3. QED
      BY <2>1, <3>1, <3>2 DEF Documents
  <2>2. CASE ~Given("report")
    <3>1. Reads(c) = <<"policy">>
      BY <1>4, <2>2 DEF Reads
    <3>2. QED
      BY <1>4, <3>1
  <2>3. QED
    BY <2>1, <2>2
<1>5. CASE k # 1 /\ c = "GPUCC-CUDA-01"
  <2>1. Reads(c) = <<"report", "run_receipt", "run_receipt", "run_raw", "run_raw">>
    BY <1>5 DEF Reads
  <2>2. Reads(c)[k] \in {"run_receipt", "run_raw"}
    BY <1>5, <2>1
  <2>3. QED
    BY <2>2 DEF Documents
<1>6. CASE k # 1 /\ c \notin {"GPUCC-RIM-01", "GPUCC-SIGVERIFY-01", "GPUCC-CUDA-01"}
  <2>1. \E f \in {"report", "policy", "mode", "kbs", "launch", "bucket"} : Reads(c) = <<f>>
    BY <1>6, Registered DEF Reads
  <2>2. QED
    BY <1>6, <2>1
<1>7. QED
  BY <1>2, <1>3, <1>4, <1>5, <1>6

LEMMA NextReadsInv == IInv /\ ReadsInv /\ [Next]_vars => ReadsInv'
<1> SUFFICES ASSUME IInv, ReadsInv, [Next]_vars PROVE ReadsInv'
  OBVIOUS
<1>1. Types
  BY DEF IInv
<1>2. ASSUME UNCHANGED <<files, refreshes>>
      PROVE  /\ \A c : Reads(c)' = Reads(c) /\ (Skips(c)' <=> Skips(c))
             /\ \A c, r : (Clean(r, c)' <=> Clean(r, c)) /\ (Current(r, c)' <=> Current(r, c))
  <2>1. \A c : Reads(c)' = Reads(c) /\ (Skips(c)' <=> Skips(c))
    BY <1>2 DEF Reads, Skips, Given
  <2>2. QED
    BY <1>2, <2>1 DEF Clean, Current
<1>3. ASSUME NEW i \in Positions, Skip(i) PROVE ReadsInv'
  <2> DEFINE outcome == Gpu!Returns("SKIP", "none")
  <2>1. Running(i) /\ Skips(Checks[i]) /\ Finish(i, outcome, <<>>)
    BY <1>3 DEF Skip
  <2>2. outcome.raised = FALSE /\ outcome.status = "SKIP"
    BY DEF Gpu!Returns
  <2>3. DOMAIN <<>> = {}
    OBVIOUS
  <2>4. Current(<<>>, Checks[i])
    BY <2>3 DEF Current
  <2> HIDE DEF outcome
  <2>5. QED
    BY <2>1, <2>2, <2>4, FinishReadsInv
<1>4. ASSUME NEW i \in Positions, Read(i) PROVE ReadsInv'
  <2> DEFINE c == Checks[i]
             n == Len(got) + 1
             file == Reads(c)[n]
             read == Append(got, files[file])
  <2>1. /\ Running(i) /\ ~Skips(c) /\ Fits(got, c) /\ Len(got) < Len(Reads(c)) /\ c \in Gpu!Ids
    BY <1>4, Registered DEF Read, IInv
  <2>2. Reads(c) \in Seq(Files) /\ got \in Seq(HeldByAny)
    BY <2>1, ReadsFiles DEF Fits
  <2>3. Len(got) \in Nat /\ Len(Reads(c)) \in Nat /\ n \in 1..Len(Reads(c))
    BY <2>1, <2>2
  <2>4. files[file] \in HeldByAny
    <3>1. file \in Files
      BY <2>2, <2>3
    <3>2. QED
      BY <1>1, <3>1 DEF Types, HeldByAny
  <2>5. /\ DOMAIN read = 1..n /\ DOMAIN got = 1..(n - 1) /\ n \in Nat /\ n \in 1..n
        /\ read[n] = files[file]
        /\ \A k \in 1..(n - 1) : k \in 1..n /\ read[k] = got[k]
        /\ \A k \in 1..n : k = n \/ k \in 1..(n - 1)
    BY <2>2, <2>3, <2>4
  <2>6. Clean(got, c) /\ (refreshes = 0 => Current(got, c))
    BY <2>1 DEF ReadsInv
  <2>7. refreshes = 0 => Current(read, c)
    BY <2>5, <2>6 DEF Current
  <2>8. file \in Documents => Given(file)
    BY <1>1, <2>1, <2>3, DocumentsGiven
  <2>9. ~(file \in Documents /\ files[file] \in Unreadable) => Clean(read, c)
    BY <2>5, <2>6, <2>8 DEF Clean, Given
  <2> HIDE DEF c, n, read
  <2>10. CASE file \in Documents /\ files[file] \in Unreadable
    <3> DEFINE outcome == Gpu!Returns("ERROR", "none")
    <3>1. Finish(i, outcome, read)
      BY <1>4, <2>10 DEF Read, Unreadable, c, n, read
    <3>2. outcome.raised = FALSE /\ outcome.status = "ERROR"
      BY DEF Gpu!Returns
    <3>3. n \in DOMAIN read /\ Reads(c)[n] \in Documents /\ read[n] \in Unreadable
      BY <2>5, <2>10
    <3> HIDE DEF outcome
    <3>4. \E k \in DOMAIN read : Reads(Checks[i])[k] \in Documents /\ read[k] \in Unreadable
      BY <3>3 DEF c
    <3>5. refreshes = 0 => Current(read, Checks[i])
      BY <2>7 DEF c
    <3>6. QED
      BY <2>1, <3>1, <3>2, <3>4, <3>5, FinishReadsInv
  <2>11. CASE ~(file \in Documents /\ files[file] \in Unreadable) /\ Len(read) = Len(Reads(c))
    <3> DEFINE outcome == Judgement(c, read)
    <3>1. Finish(i, outcome, read)
      BY <1>4, <2>11 DEF Read, Unreadable, c, n, read
    <3>2. outcome.raised = FALSE /\ outcome.status \in {"PASS", "FAIL"}
      BY DEF Judgement, Gpu!Returns
    <3> HIDE DEF outcome
    <3>3. ~Skips(Checks[i]) /\ Clean(read, Checks[i]) /\ (refreshes = 0 => Current(read, Checks[i]))
      BY <2>1, <2>7, <2>9, <2>11 DEF c
    <3>4. QED
      BY <2>1, <3>1, <3>2, <3>3, FinishReadsInv
  <2>12. CASE ~(file \in Documents /\ files[file] \in Unreadable) /\ Len(read) # Len(Reads(c))
    <3>1. got' = read /\ UNCHANGED <<files, refreshes, pc, findings, evidence>>
      BY <1>4, <2>12 DEF Read, Unreadable, c, n, read
    <3>2. Clean(got, Checks[i])' /\ (refreshes' = 0 => Current(got, Checks[i])')
      <4>1. Clean(read, Checks[i]) /\ (refreshes = 0 => Current(read, Checks[i]))
        BY <2>7, <2>9, <2>12 DEF c
      <4>2. QED
        BY <3>1, <4>1 DEF Clean, Current, Reads, Given
    <3>3. ASSUME NEW j \in Positions, Running(j)' PROVE j = i
      <4>1. Running(j)
        BY <3>1, <3>3 DEF Running
      <4>2. QED
        BY <2>1, <4>1, RunsAlone
    <3>4. \A j \in Positions : Running(j)' =>
            Clean(got, Checks[j])' /\ (refreshes' = 0 => Current(got, Checks[j])')
      BY <3>2, <3>3
    <3>5. \A j \in Positions : ReadBy(j)'
      BY <1>2, <3>1 DEF ReadsInv, ReadBy
    <3>6. QED
      BY <3>1, <3>4, <3>5 DEF ReadsInv
  <2>13. QED
    BY <2>10, <2>11, <2>12
<1>5. ASSUME UNCHANGED <<files, refreshes, got, evidence>>,
             \A i \in Positions : findings'[i].status = findings[i].status,
             \/ got = <<>>
             \/ \A i \in Positions : Running(i)' => Running(i)
      PROVE  ReadsInv'
  <2>1. \A i \in Positions : ReadBy(i)'
    BY <1>2, <1>5 DEF ReadsInv, ReadBy
  <2>2. CASE got = <<>>
    <3>1. DOMAIN got' = {}
      BY <1>5, <2>2
    <3>2. \A c : Clean(got, c)' /\ Current(got, c)'
      BY <3>1 DEF Clean, Current
    <3>3. QED
      BY <1>5, <2>1, <3>2 DEF ReadsInv
  <2>3. CASE \A i \in Positions : Running(i)' => Running(i)
    BY <1>2, <1>5, <2>1, <2>3 DEF ReadsInv
  <2>4. QED
    BY <1>5, <2>2, <2>3
<1>6. CASE Select
  BY <1>5, <1>6 DEF Select, IInv
<1>7. CASE LoopDone
  BY <1>5, <1>7 DEF LoopDone, Running
<1>8. CASE Report
  BY <1>5, <1>8 DEF Report, Running
<1>9. CASE UNCHANGED vars
  BY <1>5, <1>9 DEF vars, Running
<1>10. CASE Annotate
  <2>1. \A i \in Positions : findings'[i].status = findings[i].status
    <3>1. \A i \in Positions : findings'[i] = [findings[i] EXCEPT !.note = Scan!Missing(i)]
          /\ findings[i] \in Scan!FindingSet
      BY <1>1, <1>10 DEF Annotate, Types
    <3>2. QED
      BY <3>1 DEF Scan!FindingSet
  <2>2. QED
    BY <1>5, <1>10, <2>1 DEF Annotate, Running
<1>11. CASE Refresh
  <2>1. PICK f \in DOMAIN Versions : \E v \in Versions[f] : Given(f) /\ files' = [files EXCEPT ![f] = v]
    BY <1>11 DEF Refresh
  <2>2. PICK v \in Versions[f] : Given(f) /\ files' = [files EXCEPT ![f] = v]
    BY <2>1
  <2>3. f \in Files /\ f # "bucket" /\ v # NotGiven
    BY <2>2, VersionsAssumption
  <2>4. \A g \in Files : (Given(g)' <=> Given(g)) /\ (g # f => files'[g] = files[g])
    BY <1>1, <2>2, <2>3 DEF Types, Given
  <2>5. \A c : Reads(c)' = Reads(c)
    BY <2>4, SameReads DEF Files
  <2>6. refreshes' = refreshes + 1 /\ UNCHANGED <<pc, got, findings, evidence>>
    BY <1>11 DEF Refresh
  <2>7. refreshes' \in Nat /\ refreshes' # 0
    BY <2>6 DEF ReadsInv
  <2>8. ASSUME NEW i \in Positions PROVE Skips(Checks[i])' <=> Skips(Checks[i])
    <3>1. Reads(Checks[i]) \in Seq(Files) /\ Len(Reads(Checks[i])) >= 1
      BY Registered, ReadsFiles
    <3>2. Reads(Checks[i])[1] \in Files /\ "report" \in Files
      BY <3>1 DEF Files
    <3>3. QED
      BY <2>4, <2>5, <3>2 DEF Skips
  <2>9. \A c, r : Clean(r, c)' <=> Clean(r, c)
    BY <2>5 DEF Clean
  <2>10. \A i \in Positions : ReadBy(i)'
    BY <2>5, <2>6, <2>7, <2>8, <2>9 DEF ReadsInv, ReadBy
  <2>11. \A i \in Positions : Running(i)' => Clean(got, Checks[i])'
    BY <2>6, <2>9 DEF ReadsInv, Running
  <2>12. files'["bucket"] = NotGiven
    BY <2>3, <2>4 DEF ReadsInv, Files
  <2>13. QED
    BY <2>7, <2>10, <2>11, <2>12 DEF ReadsInv
<1>12. QED
  BY <1>3, <1>4, <1>6, <1>7, <1>8, <1>9, <1>10, <1>11 DEF Next, Step

LEMMA ReadsInvariance == Spec => []ReadsInv
<1>1. IInv /\ ReadsInv /\ [Next]_vars => ReadsInv'
  BY NextReadsInv
<1>2. QED
  BY <1>1, InitReadsInv, Invariance, PTL DEF Spec

-------------------------------------------------------------------------------
\* Leaving something out

\* What a check that passes found in the document it opens first, and
\* GPUCC-SIGVERIFY-01 in the report.
Needs(c) ==
  CASE c = "GPUCC-ATT-01"       -> DOMAIN AttestationWants
    [] c = "GPUCC-VRAM-01"      -> DOMAIN VramWants
    [] c = "GPUCC-DMA-01"       -> DOMAIN DmaWants
    [] c = "GPUCC-CVM-01"       -> DOMAIN CvmWants
    [] c = "GPUCC-BIND-01"      -> DOMAIN BindWants
    [] c = "GPUCC-CUDA-01"      -> {"ueid", "uuid"}
    [] c = "GPUCC-CERT-01"      -> DOMAIN CertWants
    [] c = "GPUCC-SIGVERIFY-01" -> {"verify_signature"}
    [] c = "GPUCC-REATTEST-01"  -> DOMAIN ReattestWants
    [] c = "GPUCC-FAILOPEN-01"  -> DOMAIN FailOpenWants
    [] c = "GPUCC-READY-01"     -> DOMAIN ReadyWants
    [] c = "GPUCC-INPUT-01"     -> DOMAIN InputWants
    [] c = "GPUCC-DECRYPT-01"   -> DOMAIN DecryptWants
    [] c = "GPUCC-KEY-01"       -> DOMAIN KeyWants
    [] c = "GPUCC-VMM-META-01"  -> DOMAIN LaunchWants
    [] OTHER                    -> {}

LEMMA PassNeeds ==
  ASSUME NEW c \in Gpu!Ids, NEW read, Passes(c, read), NEW x \in Needs(c) \ Optional
  PROVE  read[1][x] # Absent
<1> USE AbsentAssumption DEF Texts, Optional, Set, Unset, Truthy, Falsy
<1>1. CASE c = "GPUCC-ATT-01"
  BY <1>1 DEF Passes, Needs, Meets, AttestationWants
<1>2. CASE c = "GPUCC-VRAM-01"
  BY <1>2 DEF Passes, Needs, Meets, VramWants
<1>3. CASE c = "GPUCC-DMA-01"
  BY <1>3 DEF Passes, Needs, Meets, DmaWants
<1>4. CASE c = "GPUCC-CVM-01"
  BY <1>4 DEF Passes, Needs, Meets, CvmWants
<1>5. CASE c = "GPUCC-BIND-01"
  BY <1>5 DEF Passes, Needs, Meets, BindWants
<1>6. CASE c = "GPUCC-CUDA-01"
  BY <1>6 DEF Passes, Needs, RunAttested, RunIsAttested, Executed, Matches, Binds
<1>7. CASE c = "GPUCC-CERT-01"
  BY <1>7 DEF Passes, Needs, Meets, CertWants
<1>8. CASE c = "GPUCC-SIGVERIFY-01"
  BY <1>8 DEF Passes, Needs
<1>9. CASE c = "GPUCC-REATTEST-01"
  BY <1>9 DEF Passes, Needs, Meets, ReattestWants
<1>10. CASE c = "GPUCC-FAILOPEN-01"
  BY <1>10 DEF Passes, Needs, Meets, FailOpenWants
<1>11. CASE c = "GPUCC-READY-01"
  BY <1>11 DEF Passes, Needs, Meets, ReadyWants
<1>12. CASE c = "GPUCC-INPUT-01"
  BY <1>12 DEF Passes, Needs, Meets, InputWants
<1>13. CASE c = "GPUCC-DECRYPT-01"
  BY <1>13 DEF Passes, Needs, Meets, DecryptWants
<1>14. CASE c = "GPUCC-KEY-01"
  BY <1>14 DEF Passes, Needs, Meets, KeyWants
<1>15. CASE c = "GPUCC-VMM-META-01"
  BY <1>15 DEF Passes, Needs, Meets, LaunchWants
<1>16. CASE c \in {"GPUCC-RIM-01", "GPUCC-MODE-01", "GPUCC-MODEL-01"}
  BY <1>16 DEF Needs
<1>17. QED
  BY <1>1, <1>2, <1>3, <1>4, <1>5, <1>6, <1>7, <1>8, <1>9, <1>10, <1>11, <1>12, <1>13, <1>14,
     <1>15, <1>16, Registered

\* The fields that hold objects and lists.
Objects ==
  {"measurements", "verification", "cuda",
   "required_measurements", "pinned_measurements", "expected_measurements"}

\* Every field of a document that is no object and may not be left out is needed by
\* a check that opens the document first, but for the report's sig_verified.
LEMMA FieldIsNeeded ==
  ASSUME NEW f \in Documents, NEW x \in Fields(f), x \notin Objects, x # "sig_verified"
  PROVE  \E j \in Positions :
           /\ x \in Needs(Checks[j])
           /\ Reads(Checks[j])[1] = f
           /\ Checks[j] # "GPUCC-MODE-01"
<1> DEFINE NeededBy(c) == x \in Needs(c) /\ Reads(c)[1] = f
<1>1. /\ Reads("GPUCC-ATT-01")[1] = "report" /\ Reads("GPUCC-VRAM-01")[1] = "report"
      /\ Reads("GPUCC-DMA-01")[1] = "report" /\ Reads("GPUCC-CVM-01")[1] = "report"
      /\ Reads("GPUCC-BIND-01")[1] = "report" /\ Reads("GPUCC-CUDA-01")[1] = "report"
      /\ Reads("GPUCC-CERT-01")[1] = "policy" /\ Reads("GPUCC-SIGVERIFY-01")[1] = "policy"
      /\ Reads("GPUCC-REATTEST-01")[1] = "policy" /\ Reads("GPUCC-FAILOPEN-01")[1] = "policy"
      /\ Reads("GPUCC-READY-01")[1] = "kbs" /\ Reads("GPUCC-INPUT-01")[1] = "kbs"
      /\ Reads("GPUCC-DECRYPT-01")[1] = "kbs" /\ Reads("GPUCC-KEY-01")[1] = "kbs"
      /\ Reads("GPUCC-VMM-META-01")[1] = "launch"
  BY DEF Reads
<1>2. \E c \in Gpu!Ids \ {"GPUCC-MODE-01"} : NeededBy(c)
  <2>1. CASE f = "report"
    <3>1. \/ x \in DOMAIN AttestationWants \/ x \in DOMAIN VramWants \/ x \in DOMAIN DmaWants
          \/ x \in DOMAIN CvmWants \/ x \in DOMAIN BindWants \/ x \in {"ueid", "uuid"}
      BY <2>1 DEF Fields, Objects
    <3>2. QED
      BY <1>1, <2>1, <3>1, Registered DEF Needs
  <2>2. CASE f = "policy"
    <3>1. \/ x \in DOMAIN CertWants \/ x \in DOMAIN ReattestWants \/ x \in DOMAIN FailOpenWants
          \/ x = "verify_signature"
      BY <2>2 DEF Fields, Objects
    <3>2. QED
      BY <1>1, <2>2, <3>1, Registered DEF Needs
  <2>3. CASE f = "kbs"
    <3>1. \/ x \in DOMAIN ReadyWants \/ x \in DOMAIN InputWants \/ x \in DOMAIN DecryptWants
          \/ x \in DOMAIN KeyWants
      BY <2>3 DEF Fields
    <3>2. QED
      BY <1>1, <2>3, <3>1, Registered DEF Needs
  <2>4. CASE f = "launch"
    BY <1>1, <2>4, Registered DEF Fields, Needs
  <2>5. QED
    BY <2>1, <2>2, <2>3, <2>4 DEF Documents
<1>3. \A c \in Gpu!Ids : \E j \in Positions : Checks[j] = c
  BY Registered DEF Gpu!Ids, Positions, Checks
<1>4. QED
  BY <1>2, <1>3

\* An object, or a list, that is empty fails the check that looks into it.
LEMMA ObjectIsNeeded ==
  ASSUME NEW read
  PROVE  /\ Passes("GPUCC-ATT-01", read) => ~LeftOut(read[1], "measurements")
         /\ Passes("GPUCC-RIM-01", read) => ~LeftOut(read[1], "pinned_measurements")
         /\ Passes("GPUCC-SIGVERIFY-01", read) /\ Len(read) > 1 =>
              ~LeftOut(read[2], "verification")
         /\ Passes("GPUCC-CUDA-01", read) => ~LeftOut(read[1], "cuda")
<1>1. Passes("GPUCC-ATT-01", read) => ~LeftOut(read[1], "measurements")
  BY DEF Passes, LeftOut
<1>2. Passes("GPUCC-RIM-01", read) => ~LeftOut(read[1], "pinned_measurements")
  BY DEF Passes, RimPinned, LeftOut
<1>3. Passes("GPUCC-SIGVERIFY-01", read) /\ Len(read) > 1 => ~LeftOut(read[2], "verification")
  <2>1. Passes("GPUCC-SIGVERIFY-01", read) /\ Len(read) > 1 =>
          read[2].verification.tool = "nvattest"
    BY DEF Passes, SignatureVerified, ReceiptValid, SaysVerified
  <2>2. NoReceipt.tool = Absent /\ Absent # "nvattest"
    BY AbsentAssumption DEF NoReceipt, Texts
  <2>3. QED
    BY <2>1, <2>2 DEF LeftOut
<1>4. Passes("GPUCC-CUDA-01", read) => ~LeftOut(read[1], "cuda")
  <2>1. Passes("GPUCC-CUDA-01", read) => read[1].cuda.schema = "v1"
    BY DEF Passes, RunAttested, RunIsAttested, Executed
  <2>2. NoRun.schema = Absent /\ Absent # "v1"
    BY AbsentAssumption DEF NoRun, Texts
  <2>3. QED
    BY <2>1, <2>2 DEF LeftOut
<1>5. QED
  BY <1>1, <1>2, <1>3, <1>4

\* A check whose document was given passed, when none failed.
LEMMA PassedUnlessSkipped ==
  ASSUME ReadsInv, NEW j \in Positions, findings[j].status \in {"PASS", "SKIP"},
         ~Skips(Checks[j])
  PROVE  findings[j].status = "PASS"
BY DEF ReadsInv, ReadBy

\* No field can be left out of what the checks read without one of them failing,
\* but for those that only ever count against a document: whatever the documents
\* hold, as long as the policy is given and the checks find the same in a document.
THEOREM LeavingOutNeverHelps == Spec => []NothingLeftOutPasses
<1>1. ASSUME IInv, ReadsInv PROVE NothingLeftOutPasses
  <2> SUFFICES ASSUME \A i \in Positions : findings[i].status \in {"PASS", "SKIP"},
                      Given("policy"), ReadOnce,
                      NEW i \in Positions, NEW k \in DOMAIN evidence[i],
                      Reads(Checks[i])[k] \in Documents,
                      NEW x \in DOMAIN evidence[i][k] \ Optional
               PROVE  ~LeftOut(evidence[i][k], x)
    BY DEF NothingLeftOutPasses
  <2> DEFINE f == Reads(Checks[i])[k]
             d == evidence[i][k]
  <2>1. findings[i].status = "PASS"
    <3>1. CASE findings[i].status = "SKIP"
      <4>1. DOMAIN evidence[i] = {}
        BY <1>1, <3>1 DEF ReadsInv, ReadBy
      <4>2. QED
        BY <4>1
    <3>2. QED
      BY <3>1
  <2>2. /\ Fits(evidence[i], Checks[i]) /\ Len(evidence[i]) = Len(Reads(Checks[i]))
        /\ ~Skips(Checks[i]) /\ Clean(evidence[i], Checks[i])
    BY <1>1, <2>1, PassIsJudged DEF ReadsInv, ReadBy
  <2>3. k \in 1..Len(Reads(Checks[i])) /\ d \in Held(f)
    BY <2>2 DEF Fits
  <2>4. Given(f)
    <3>1. Types /\ Checks[i] \in Gpu!Ids
      BY <1>1, Registered DEF IInv
    <3>2. QED
      BY <2>2, <2>3, <3>1, DocumentsGiven
  <2>5. d \notin {NotGiven, NotThere, Garbled}
    BY <2>2 DEF Clean, Unreadable
  <2>6. x \in Fields(f)
    BY <2>3, <2>5, DocumentsAssumption
  <2>7. ASSUME NEW j \in Positions, findings[j].status = "PASS",
               NEW l \in 1..Len(Reads(Checks[j])), Reads(Checks[j])[l] = f
        PROVE  evidence[j][l] = d
    <3>1. Fits(evidence[j], Checks[j]) /\ Len(evidence[j]) = Len(Reads(Checks[j]))
      BY <1>1, <2>7, PassIsJudged
    <3>2. l \in DOMAIN evidence[j]
      BY <2>7, <3>1 DEF Fits
    <3>3. QED
      BY <2>7, <3>2 DEF ReadOnce
  <2>8. CASE x \notin Objects /\ x # "sig_verified"
    <3>1. PICK j \in Positions : /\ x \in Needs(Checks[j]) /\ Reads(Checks[j])[1] = f
                                /\ Checks[j] # "GPUCC-MODE-01"
      BY <2>6, <2>8, FieldIsNeeded
    <3>2. findings[j].status = "PASS"
      BY <1>1, <2>4, <3>1, PassedUnlessSkipped DEF Skips
    <3>3. Passes(Checks[j], evidence[j]) /\ Checks[j] \in Gpu!Ids
      BY <1>1, <3>2, PassIsJudged, Registered
    <3>4. evidence[j][1][x] # Absent
      BY <3>1, <3>3, PassNeeds
    <3>5. 1 \in 1..Len(Reads(Checks[j]))
      <4>1. Reads(Checks[j]) \in Seq(Files) /\ Len(Reads(Checks[j])) >= 1
        BY <3>3, ReadsFiles
      <4>2. QED
        BY <4>1
    <3>6. evidence[j][1] = d
      BY <2>7, <3>1, <3>2, <3>5
    <3>7. QED
      BY <2>8, <3>4, <3>6 DEF LeftOut, Objects
  <2>9. CASE x = "sig_verified"
    <3>1. f = "report"
      BY <2>6, <2>9 DEF Fields, Documents, CertWants, ReattestWants, FailOpenWants, ReadyWants,
         InputWants, DecryptWants, KeyWants, LaunchWants
    <3>2. Reads(Checks[4]) = <<"policy", "report", "raw", "raw">> /\ ~Skips(Checks[4])
      BY <2>4, <3>1, Numbered DEF Reads, Skips
    <3>3. findings[4].status = "PASS"
      BY <1>1, <3>2, Numbered, PassedUnlessSkipped
    <3>4. Passes(Checks[4], evidence[4]) /\ Len(evidence[4]) = 4
      BY <1>1, <3>2, <3>3, Numbered, PassIsJudged
    <3>5. evidence[4][2].sig_verified \in {"true", "text"}
      BY <3>4, Numbered DEF Passes, SignatureVerified, ReceiptValid
    <3>6. evidence[4][2] = d
      BY <2>7, <3>1, <3>2, <3>3, Numbered
    <3>7. QED
      BY <2>9, <3>5, <3>6, AbsentAssumption DEF Texts, LeftOut
  <2>10. CASE x = "measurements"
    <3>1. f = "report"
      BY <2>6, <2>10 DEF Fields, Documents, CertWants, ReattestWants, FailOpenWants, ReadyWants,
         InputWants, DecryptWants, KeyWants, LaunchWants
    <3>2. /\ Reads(Checks[1])[1] = "report" /\ 1 \in 1..Len(Reads(Checks[1]))
          /\ ~Skips(Checks[1])
      <4>1. Reads(Checks[1]) = <<"report">>
        BY Numbered DEF Reads
      <4>2. QED
        BY <2>4, <3>1, <4>1, Numbered DEF Skips
    <3>3. findings[1].status = "PASS"
      BY <1>1, <3>2, Numbered, PassedUnlessSkipped
    <3>4. Passes(Checks[1], evidence[1])
      BY <1>1, <3>3, Numbered, PassIsJudged
    <3>5. evidence[1][1] = d
      BY <2>7, <3>1, <3>2, <3>3, Numbered
    <3>6. QED
      BY <2>10, <3>4, <3>5, Numbered, ObjectIsNeeded
  <2>11. CASE x = "cuda"
    <3>1. f = "report"
      BY <2>6, <2>11 DEF Fields, Documents, CertWants, ReattestWants, FailOpenWants, ReadyWants,
         InputWants, DecryptWants, KeyWants, LaunchWants
    <3>2. /\ Reads(Checks[9])[1] = "report" /\ 1 \in 1..Len(Reads(Checks[9]))
          /\ ~Skips(Checks[9])
      <4>1. Reads(Checks[9]) = <<"report", "run_receipt", "run_receipt", "run_raw", "run_raw">>
        BY Numbered DEF Reads
      <4>2. QED
        BY <2>4, <3>1, <4>1, Numbered DEF Skips
    <3>3. findings[9].status = "PASS"
      BY <1>1, <3>2, Numbered, PassedUnlessSkipped
    <3>4. Passes(Checks[9], evidence[9])
      BY <1>1, <3>3, Numbered, PassIsJudged
    <3>5. evidence[9][1] = d
      BY <2>7, <3>1, <3>2, <3>3, Numbered
    <3>6. QED
      BY <2>11, <3>4, <3>5, Numbered, ObjectIsNeeded
  <2>12. CASE x = "verification"
    <3>1. f = "report"
      BY <2>6, <2>12 DEF Fields, Documents, CertWants, ReattestWants, FailOpenWants, ReadyWants,
         InputWants, DecryptWants, KeyWants, LaunchWants
    <3>2. Reads(Checks[4]) = <<"policy", "report", "raw", "raw">> /\ ~Skips(Checks[4])
      BY <2>4, <3>1, Numbered DEF Reads, Skips
    <3>3. findings[4].status = "PASS"
      BY <1>1, <3>2, Numbered, PassedUnlessSkipped
    <3>4. Passes(Checks[4], evidence[4]) /\ Len(evidence[4]) = 4
      BY <1>1, <3>2, <3>3, Numbered, PassIsJudged
    <3>5. evidence[4][2] = d
      BY <2>7, <3>1, <3>2, <3>3, Numbered
    <3>6. QED
      BY <2>12, <3>4, <3>5, Numbered, ObjectIsNeeded
  <2>13. CASE x = "pinned_measurements"
    <3>1. f = "policy"
      BY <2>6, <2>13 DEF Fields, Documents, AttestationWants, VramWants, DmaWants, CvmWants,
         BindWants, ReadyWants, InputWants, DecryptWants, KeyWants, LaunchWants
    <3>2. /\ Reads(Checks[2])[1] = "policy" /\ 1 \in 1..Len(Reads(Checks[2]))
          /\ ~Skips(Checks[2])
      BY <2>4, <3>1, Numbered DEF Reads, Skips
    <3>3. findings[2].status = "PASS"
      BY <1>1, <3>2, Numbered, PassedUnlessSkipped
    <3>4. Passes(Checks[2], evidence[2])
      BY <1>1, <3>3, Numbered, PassIsJudged
    <3>5. evidence[2][1] = d
      BY <2>7, <3>1, <3>2, <3>3, Numbered
    <3>6. QED
      BY <2>13, <3>4, <3>5, Numbered, ObjectIsNeeded
  <2>14. QED
    BY <2>6, <2>8, <2>9, <2>10, <2>11, <2>12, <2>13 DEF Objects, Optional
<1>2. QED
  BY <1>1, Invariance, ReadsInvariance, PTL

-------------------------------------------------------------------------------
\* An honest capture

\* The receipt of a success says verified, and matches it.
LEMMA HonestReceipt ==
  ASSUME NEW raw \in Successes, NEW report,
         report.ueid = raw.ueid, report.debug # "true"
  PROVE  LET receipt == ReceiptOf(raw)
         IN receipt.schema = "v1" /\ SaysVerified(receipt) /\ Matches(receipt, raw, raw, report)
<1>1. /\ Succeeded(raw) /\ raw.claims = "1" /\ raw.dbg = "disabled" /\ raw.measres = "success"
      /\ raw.command = raw.nonce /\ raw.nonce \in Nonces
      /\ raw # Absent /\ raw.nonce # Absent /\ raw.ueid # Absent
  BY SuccessesAssumption
<1>2. raw.code = "0" /\ raw.eat = "true"
  BY <1>1 DEF Succeeded
<1>3. SaysVerified(ReceiptOf(raw))
  BY <1>1, <1>2 DEF SaysVerified, ReceiptOf
<1>4. Binds(raw, ReceiptOf(raw).nonce, report)
  BY <1>1 DEF Binds, ReceiptOf
<1>5. Matches(ReceiptOf(raw), raw, raw, report)
  BY <1>1, <1>4 DEF Matches, ReceiptOf
<1>6. QED
  BY <1>3, <1>5 DEF ReceiptOf

\* What the checks that do not skip read of an honest directory.
LEMMA HonestJudgement ==
  ASSUME HonestDirectory(files), NEW c \in Gpu!Ids, c # "GPUCC-MODEL-01", NEW read,
         Len(read) = Len(Reads(c)), \A k \in 1..Len(read) : read[k] = files[Reads(c)[k]]
  PROVE  Passes(c, read)
<1> DEFINE report == files.report
           policy == files.policy
<1>1. /\ Given("report") /\ files["run_receipt"] \notin {NotThere, Garbled}
      /\ files["raw"] \notin {NotThere, Garbled} /\ files["run_raw"] \notin {NotThere, Garbled}
  BY DEF HonestDirectory, Given, Files
<1>2. Len(Reads(c)) \in Nat /\ Len(Reads(c)) >= 1
  <2>1. Reads(c) \in Seq(Files) /\ Len(Reads(c)) >= 1
    BY ReadsFiles
  <2>2. QED
    BY <2>1
<1>3. read[1] = files[Reads(c)[1]]
  BY <1>2
<1>4. report.debug # "true"
  <2>1. Meets(report, AttestationWants)
    BY DEF HonestDirectory
  <2>2. report["debug"] \in {"false", Absent}
    BY <2>1 DEF Meets, AttestationWants, Unset, Falsy
  <2>3. Absent # "true"
    BY AbsentAssumption DEF Texts
  <2>4. QED
    BY <2>2, <2>3
<1>5. CASE c \in {"GPUCC-ATT-01", "GPUCC-VRAM-01", "GPUCC-DMA-01", "GPUCC-CVM-01", "GPUCC-BIND-01"}
  <2>1. read[1] = report
    BY <1>3, <1>5 DEF Reads
  <2>2. Present(report.measurements) # {}
    BY DEF HonestDirectory
  <2>3. /\ Meets(report, AttestationWants) /\ Meets(report, VramWants)
        /\ Meets(report, DmaWants) /\ Meets(report, CvmWants) /\ Meets(report, BindWants)
    BY DEF HonestDirectory
  <2>4. QED
    BY <1>5, <2>1, <2>2, <2>3 DEF Passes
<1>6. CASE c \in {"GPUCC-CERT-01", "GPUCC-REATTEST-01", "GPUCC-FAILOPEN-01"}
  <2>1. read[1] = policy
    BY <1>3, <1>6 DEF Reads
  <2>2. Meets(policy, CertWants) /\ Meets(policy, ReattestWants) /\ Meets(policy, FailOpenWants)
    BY DEF HonestDirectory
  <2>3. QED
    BY <1>6, <2>1, <2>2 DEF Passes
<1>7. CASE c \in {"GPUCC-READY-01", "GPUCC-INPUT-01", "GPUCC-DECRYPT-01", "GPUCC-KEY-01"}
  <2>1. read[1] = files.kbs
    BY <1>3, <1>7 DEF Reads
  <2>2. /\ Meets(files.kbs, ReadyWants) /\ Meets(files.kbs, InputWants)
        /\ Meets(files.kbs, DecryptWants) /\ Meets(files.kbs, KeyWants)
    BY DEF HonestDirectory
  <2>3. QED
    BY <1>7, <2>1, <2>2 DEF Passes
<1>8. CASE c = "GPUCC-VMM-META-01"
  <2>1. read[1] = files.launch /\ Meets(files.launch, LaunchWants)
    BY <1>3, <1>8 DEF Reads, HonestDirectory
  <2>2. QED
    BY <1>8, <2>1 DEF Passes
<1>9. CASE c = "GPUCC-MODE-01"
  <2>1. read[1] = files.mode /\ files.mode = "on"
    BY <1>3, <1>9 DEF Reads, HonestDirectory
  <2>2. QED
    BY <1>9, <2>1 DEF Passes
<1>10. CASE c = "GPUCC-RIM-01"
  <2>1. Reads(c) = <<"policy", "report">>
    BY <1>1, <1>10 DEF Reads
  <2>2. Len(read) = 2 /\ read[1] = policy /\ read[2] = report
    BY <2>1
  <2>3. /\ policy.required_measurements = {}
        /\ policy.pinned_measurements = Present(report.measurements)
        /\ policy.expected_measurements = report.measurements
        /\ {"driver", "vbios"} \subseteq Present(report.measurements)
    BY DEF HonestDirectory
  <2>4. RimPinned(policy, report.measurements)
    BY <2>3 DEF RimPinned, Required, Present
  <2>5. QED
    BY <1>10, <2>2, <2>4 DEF Passes, Measured
<1>11. CASE c = "GPUCC-SIGVERIFY-01"
  <2>1. Reads(c) = <<"policy", "report", "raw", "raw">>
    BY <1>1, <1>11 DEF Reads
  <2>2. read[1] = policy /\ read[2] = report /\ read[3] = files.raw /\ read[4] = files.raw
    BY <2>1
  <2>3. /\ files.raw \in Successes /\ report.ueid = files.raw.ueid
        /\ report.verification = ReceiptOf(files.raw) /\ report.sig_verified = "true"
        /\ policy.verify_signature = "true"
    BY DEF HonestDirectory
  <2>4. ReceiptValid(report, files.raw, files.raw)
    BY <1>4, <2>3, HonestReceipt DEF ReceiptValid
  <2>5. Parsed(read[4], NoResult) = files.raw
    BY <1>1, <2>2 DEF Parsed
  <2>6. SignatureVerified(read)
    BY <2>2, <2>4, <2>5 DEF SignatureVerified
  <2>7. QED
    BY <1>11, <2>2, <2>3, <2>6 DEF Passes, Truthy
<1>12. CASE c = "GPUCC-CUDA-01"
  <2> DEFINE raw == files.run_raw
             receipt == files.run_receipt
  <2>1. Reads(c) = <<"report", "run_receipt", "run_receipt", "run_raw", "run_raw">>
    BY <1>12 DEF Reads
  <2>2. /\ read[1] = report /\ read[2] = receipt /\ read[3] = receipt
        /\ read[4] = raw /\ read[5] = raw
    BY <2>1
  <2>3. raw \in Successes /\ report.ueid = raw.ueid /\ receipt = ReceiptOf(raw)
    BY DEF HonestDirectory
  <2>4. receipt.schema = "v1" /\ SaysVerified(receipt) /\ Matches(receipt, raw, raw, report)
    BY <1>4, <2>3, HonestReceipt
  <2>5. Executed(report) /\ receipt = report.cuda.digest
    BY DEF HonestDirectory, Executed
  <2>6. Parsed(read[2], NoReceipt) = receipt /\ Parsed(read[5], NoResult) = raw
    BY <1>1, <2>2 DEF Parsed
  <2>7. RunAttested(read)
    BY <2>2, <2>4, <2>5, <2>6 DEF RunAttested, RunIsAttested
  <2>8. QED
    BY <1>12, <2>7 DEF Passes
<1>13. QED
  BY <1>5, <1>6, <1>7, <1>8, <1>9, <1>10, <1>11, <1>12, Registered

\* The evidence of one successful capture that nobody replaces is passed by every
\* check that is given its file, and GPUCC-SIGVERIFY-01 with the others, so that no
\* report-derived pass is called unverified.
THEOREM HonestCapturesAreVerified == Spec => []HonestCaptureIsVerified
<1>1. ASSUME IInv, ReadsInv PROVE HonestCaptureIsVerified
  <2> SUFFICES ASSUME pc = "done", refreshes = 0, HonestDirectory(files)
               PROVE  \A i \in Positions :
                        findings[i].status \in {"PASS", "SKIP"} /\ findings[i].note = {}
    BY DEF HonestCaptureIsVerified
  <2>1. ASSUME NEW i \in Positions PROVE findings[i].status \in {"PASS", "SKIP"}
    <3>1. findings[i].status \in {"PASS", "FAIL", "SKIP", "ERROR"}
      <4>1. findings[i] # Scan!NoFinding /\ findings[i] \in Scan!FindingSet
        BY <1>1 DEF IInv, Types
      <4>2. findings[i].status # "NONE"
        BY <1>1, <4>1 DEF IInv
      <4>3. QED
        BY <4>1, <4>2 DEF Scan!FindingSet, Scan!Statuses
    <3>2. Current(evidence[i], Checks[i])
      BY <1>1 DEF ReadsInv, ReadBy
    <3>3. findings[i].status # "ERROR"
      <4>1. ASSUME NEW k \in DOMAIN evidence[i], Reads(Checks[i])[k] \in Documents,
                   evidence[i][k] \in Unreadable
            PROVE  FALSE
        <5>1. files[Reads(Checks[i])[k]] \notin {NotThere, Garbled}
          BY <4>1 DEF HonestDirectory, Documents, Files
        <5>2. QED
          BY <3>2, <4>1, <5>1 DEF Current, Unreadable
      <4>2. QED
        BY <1>1, <4>1 DEF ReadsInv, ReadBy
    <3>4. findings[i].status # "FAIL"
      <4> SUFFICES ASSUME findings[i].status = "FAIL" PROVE FALSE
        OBVIOUS
      <4>1. ~Skips(Checks[i]) /\ Checks[i] \in Gpu!Ids
        BY <1>1, Registered DEF ReadsInv, ReadBy
      <4>2. /\ Fits(evidence[i], Checks[i]) /\ Len(evidence[i]) = Len(Reads(Checks[i]))
            /\ ~Passes(Checks[i], evidence[i])
        <5>1. Judged(i)
          BY <1>1 DEF IInv
        <5>2. QED
          BY <5>1 DEF Judged, Scan!NoFinding
      <4>3. \A k \in 1..Len(evidence[i]) : evidence[i][k] = files[Reads(Checks[i])[k]]
        BY <3>2, <4>2 DEF Current, Fits
      <4>4. Checks[i] # "GPUCC-MODEL-01"
        BY <1>1, <4>1 DEF ReadsInv, Skips, Reads, Given
      <4>5. QED
        BY <4>1, <4>2, <4>3, <4>4, HonestJudgement
    <3>5. QED
      BY <3>1, <3>3, <3>4
  <2>2. findings[4].status = "PASS" /\ Checks[4] = "GPUCC-SIGVERIFY-01" /\ 4 \in Positions
    <3>1. ~Skips(Checks[4])
      <4>1. Reads(Checks[4])[1] = "policy"
        BY Numbered DEF Reads
      <4>2. Given("policy")
        BY DEF HonestDirectory, Given, Files
      <4>3. QED
        BY <4>1, <4>2, Numbered DEF Skips
    <3>2. QED
      BY <1>1, <2>1, <3>1, Numbered, PassedUnlessSkipped
  <2>3. "GPUCC-SIGVERIFY-01" \in Scan!PassedIds
    BY <2>2 DEF Scan!PassedIds, Scan!WithStatus
  <2>4. ASSUME NEW i \in Positions PROVE findings[i].note = {}
    <3>1. Gpu!GpuDependsOn[Checks[i]] \subseteq {"GPUCC-SIGVERIFY-01"}
      BY Registered DEF Gpu!GpuDependsOn
    <3>2. Scan!Missing(i) = {}
      BY <2>3, <3>1 DEF Scan!Missing
    <3>3. QED
      BY <1>1, <3>2 DEF IInv
  <2>5. QED
    BY <2>1, <2>4
<1>2. QED
  BY <1>1, Invariance, ReadsInvariance, PTL

-------------------------------------------------------------------------------
\* What a check of the scan returns is among what the registry leaves open.
LEMMA OutcomesAreKnown ==
  ASSUME NEW c \in Gpu!Ids, NEW read
  PROVE  /\ Judgement(c, read) \in Gpu!GpuOutcomes[c]["files"]
         /\ Gpu!Returns("SKIP", "none") \in Gpu!GpuOutcomes[c]["files"]
         /\ Gpu!Returns("ERROR", "none") \in Gpu!GpuOutcomes[c]["files"]
<1>1. Gpu!GpuOutcomes[c]["files"] =
        {Gpu!Raises} \cup Gpu!Promotes(c)
          \cup {Gpu!Returns(s, "none") : s \in {"PASS", "FAIL", "SKIP", "ERROR"}}
  BY DEF Gpu!GpuOutcomes
<1>2. Promoted(c, read) =>
        Gpu!Promotes(c) = {Gpu!Returns(s, "report-derived") : s \in {"PASS", "FAIL"}}
  BY DEF Promoted, Gpu!Promotes
<1>3. QED
  BY <1>1, <1>2 DEF Judgement

\* A check that ends is the runner's turn of its loop.
LEMMA FinishSimulates ==
  ASSUME IInv, NEW i \in Positions, Running(i), NEW outcome, NEW read,
         outcome \in Gpu!GpuOutcomes[Checks[i]]["files"],
         Finish(i, outcome, read)
  PROVE  Scan!RunCheck(i)
<1>1. pc = "run" /\ pc' = "run" /\ findings' = [findings EXCEPT ![i] = Scan!Stamped(i, outcome)]
  BY DEF Running, Finish
<1>2. findings[i] = Scan!NoFinding /\ \A j \in 1..(i - 1) : findings[j] # Scan!NoFinding
  BY DEF Running
<1>3. i \in Scan!Pending
  BY <1>1, <1>2 DEF Scan!Pending, Scan!Found, Scan!NoFinding
<1>4. ASSUME NEW j \in Scan!Pending PROVE i <= j
  <2>1. j \in Positions /\ findings[j].status = "NONE"
    BY <1>1 DEF Scan!Pending, Scan!Found
  <2>2. findings[j] = Scan!NoFinding
    BY <2>1 DEF IInv
  <2>3. i \in 1..18 /\ j \in 1..18
    BY <2>1, Registered
  <2>4. QED
    BY <1>2, <2>2, <2>3
<1>5. QED
  BY <1>1, <1>3, <1>4 DEF Scan!RunCheck

LEMMA StepSimulation ==
  ASSUME IInv, [Next]_vars
  PROVE  [Scan!Next]_(Scan!vars)
<1>1. CASE Select
  BY <1>1 DEF Select, Scan!Next, Scan!Step, Scan!Select, Scan!Positions, Positions
<1>2. ASSUME NEW i \in Positions, Scan!RunCheck(i) PROVE [Scan!Next]_(Scan!vars)
  BY <1>2 DEF Scan!Next, Scan!Step, Scan!Positions, Positions
<1>3. ASSUME NEW i \in Positions, Skip(i) PROVE [Scan!Next]_(Scan!vars)
  BY <1>2, <1>3, Registered, OutcomesAreKnown, FinishSimulates DEF Skip
<1>4. ASSUME NEW i \in Positions, Read(i) PROVE [Scan!Next]_(Scan!vars)
  <2> DEFINE read == Append(got, files[Reads(Checks[i])[Len(got) + 1]])
  <2>1. Checks[i] \in Gpu!Ids /\ Running(i)
    BY <1>4, Registered DEF Read
  <2>2. \/ Finish(i, Gpu!Returns("ERROR", "none"), read)
        \/ Finish(i, Judgement(Checks[i], read), read)
        \/ UNCHANGED <<pc, findings, written>>
    BY <1>4 DEF Read
  <2>3. CASE UNCHANGED <<pc, findings, written>>
    BY <2>3 DEF Scan!vars
  <2>4. QED
    BY <1>2, <2>1, <2>2, <2>3, OutcomesAreKnown, FinishSimulates
<1>5. CASE LoopDone
  <2>1. pc = "run" /\ pc' = "annotate" /\ findings' = findings
        /\ \A i \in Positions : findings[i].status # "NONE"
    BY <1>5 DEF LoopDone, IInv
  <2>2. Scan!LoopDone
    BY <2>1 DEF Scan!LoopDone, Scan!Pending, Scan!Found
  <2>3. QED
    BY <2>2 DEF Scan!Next, Scan!Step
<1>6. CASE Annotate
  <2>1. Scan!Annotate
    BY <1>6 DEF Annotate, Scan!Annotate, Scan!Positions, Positions
  <2>2. QED
    BY <2>1 DEF Scan!Next, Scan!Step
<1>7. CASE Report
  <2>1. written' \in BOOLEAN /\ pc = "report" /\ pc' = "done" /\ findings' = findings
    BY <1>7 DEF Report
  <2>2. \E w \in BOOLEAN : Scan!Report(w)
    BY <2>1 DEF Scan!Report, Scan!WithStatus
  <2>3. QED
    BY <2>2 DEF Scan!Next, Scan!Step
<1>8. CASE Refresh
  BY <1>8 DEF Refresh, Scan!vars
<1>9. CASE UNCHANGED vars
  BY <1>9 DEF vars, Scan!vars
<1>10. QED
  BY <1>1, <1>3, <1>4, <1>5, <1>6, <1>7, <1>8, <1>9 DEF Next, Step

\* The safety half of ImplementsRunner: whatever the files hold and however they
\* change, the scan's steps are ScanRunner's over the GPU registry, so that what
\* ScanRunnerProofs proves of a runner holds of it.
THEOREM RunsAsScanRunner == Spec => Scan!Init /\ [][Scan!Next]_(Scan!vars)
<1>1. Init => Scan!Init
  BY DEF Init, Scan!Init, Scan!Positions, Positions
<1>2. QED
  BY <1>1, StepSimulation, Invariance, PTL DEF Spec

===============================================================================
