------------------------- MODULE ReceiptStoreProofs -------------------------
(* Theorems about ReceiptStore, for every value of its constants. *)
EXTENDS ReceiptStore, SequenceTheorems, TLAPS

-----------------------------------------------------------------------------
(*                     Lemmas about manifest sequences                     *)

(* What _write_manifest_with_active_record builds: each old record in its  *)
(* place, possibly superseded, and the new one at the end.                 *)
LEMMA WithActiveRecordShape ==
    ASSUME NEW lines \in Seq(ManifestRecord), NEW record \in ManifestRecord
    PROVE  LET W == WithActiveRecord(lines, record) IN
           /\ W \in Seq(ManifestRecord)
           /\ Len(W) = Len(lines) + 1
           /\ \A i \in 1..Len(lines) : W[i] = Supersede(lines[i], record)
           /\ W[Len(lines) + 1] = record
<1> DEFINE M == [i \in DOMAIN lines |-> Supersede(lines[i], record)]
<1>1. ASSUME NEW i \in 1..Len(lines)
      PROVE  Supersede(lines[i], record) \in ManifestRecord
  <2>1. lines[i] \in ManifestRecord
    BY ElementOfSeq
  <2>2. record.receiptRaw \in FileState
    BY DEF ManifestRecord
  <2> QED BY <2>1, <2>2 DEF Supersede, ManifestRecord
<1>2. Len(lines) \in Nat /\ DOMAIN lines = 1..Len(lines)
  BY LenProperties
<1>3. M \in Seq(ManifestRecord)
  BY <1>1, <1>2, IsASeq
<1>4. Len(M) = Len(lines)
  BY <1>2, <1>3, LenProperties
<1>5. \A i \in 1..Len(lines) : M[i] = Supersede(lines[i], record)
  BY <1>2
<1> HIDE DEF M
<1>6. /\ Append(M, record) \in Seq(ManifestRecord)
      /\ Len(Append(M, record)) = Len(M) + 1
      /\ \A i \in 1..Len(M) : Append(M, record)[i] = M[i]
      /\ Append(M, record)[Len(M) + 1] = record
  BY <1>3
<1>7. WithActiveRecord(lines, record) = Append(M, record)
  BY DEF WithActiveRecord, M
<1> QED BY <1>4, <1>5, <1>6, <1>7

(* What writing new at the beginning of the manifest leaves: new, then     *)
(* nothing or records the file already held, each in the place it had.     *)
LEMMA OverwrittenShape ==
    ASSUME manifest \in Manifest, NEW new \in Seq(ManifestRecord),
           NEW m \in Overwritten(new)
    PROVE  /\ m \in Manifest
           /\ Len(m.lines) >= Len(new)
           /\ \A i \in 1..Len(new) : m.lines[i] = new[i]
           /\ \A i \in Len(new) + 1..Len(m.lines) :
                i \in 1..Len(manifest.lines) /\ m.lines[i] = manifest.lines[i]
<1> DEFINE old == manifest.lines
           tail == SubSeq(old, Len(new) + 1, Len(old))
<1>1. old \in Seq(ManifestRecord) /\ Len(old) \in Nat /\ Len(new) \in Nat
  <2>1. old \in Seq(ManifestRecord)
    BY DEF Manifest
  <2> QED BY <2>1, LenProperties
<1>2. \A i \in Len(new) + 1..Len(old) : old[i] \in ManifestRecord
  BY <1>1, ElementOfSeq
<1>3. /\ tail \in Seq(ManifestRecord)
      /\ Len(tail) = IF Len(new) + 1 <= Len(old) THEN Len(old) - Len(new) ELSE 0
      /\ \A i \in 1..Len(old) - Len(new) : tail[i] = old[Len(new) + i]
  <2> HIDE DEF old
  <2>1. /\ tail \in Seq(ManifestRecord)
        /\ Len(tail) = IF Len(new) + 1 <= Len(old)
                         THEN Len(old) - (Len(new) + 1) + 1 ELSE 0
        /\ \A i \in 1..Len(old) - (Len(new) + 1) + 1 :
             tail[i] = old[(Len(new) + 1) + i - 1]
    BY <1>1, <1>2, SubSeqProperties, Len(new) + 1 \in Int, Len(old) \in Int
  <2> QED BY <2>1, <1>1
<1> HIDE DEF tail
<1>4. /\ new \o tail \in Seq(ManifestRecord)
      /\ Len(new \o tail) = Len(new) + Len(tail)
      /\ \A i \in 1..Len(new) + Len(tail) :
           (new \o tail)[i] = IF i <= Len(new) THEN new[i] ELSE tail[i - Len(new)]
  BY <1>3, ConcatProperties
<1>5. CASE m = [exists |-> TRUE, lines |-> new \o tail, torn |-> manifest.torn]
  <2>1. m.lines = new \o tail /\ m \in Manifest
    BY <1>5, <1>4 DEF Manifest
  <2>2. ASSUME NEW i \in Len(new) + 1..Len(m.lines)
        PROVE  i \in 1..Len(old) /\ m.lines[i] = old[i]
    BY <2>1, <1>1, <1>3, <1>4
  <2> QED BY <2>1, <2>2, <1>1, <1>3, <1>4
<1>6. CASE m = [exists |-> TRUE, lines |-> new, torn |-> TRUE]
  BY <1>6, <1>1 DEF Manifest
<1> QED BY <1>5, <1>6 DEF Overwritten, tail

LEMMA PrefixShape ==
    ASSUME NEW s \in Seq(ManifestRecord), NEW n \in 0..Len(s)
    PROVE  /\ SubSeq(s, 1, n) \in Seq(ManifestRecord)
           /\ Len(SubSeq(s, 1, n)) = n
           /\ \A i \in 1..n : SubSeq(s, 1, n)[i] = s[i]
<1>1. Len(s) \in Nat
  BY LenProperties
<1>2. \A i \in 1..n : s[i] \in ManifestRecord
  BY <1>1, ElementOfSeq
<1> QED BY <1>1, <1>2, SubSeqProperties, 1 \in Int, n \in Int

-----------------------------------------------------------------------------
(*                            Type correctness                             *)

(* An issuer that is not idle has a run of the gate in hand. *)
ArtInHand == \A p \in Issuers : pc[p] # "idle" => art[p] \in Artifact

TypeInv == TypeOK /\ ArtInHand

LEMMA ArtifactFields ==
    ASSUME NEW a \in Artifact
    PROVE  a.rid \in Rids /\ a.contract \in Contracts /\ a.serial \in 1..MaxIssues
BY DEF Artifact

LEMMA RecordType ==
    ASSUME NEW a \in Artifact, NEW x \in FileState, NEW y \in FileState
    PROVE  RecordOf(a, x, y) \in ManifestRecord
BY ArtifactFields DEF RecordOf, ManifestRecord, FileState

LEMMA SiblingType ==
    ASSUME decisionFile \in [Slots -> FileState], NEW rid
    PROVE  SiblingDecision(rid) \in FileState
BY DEF SiblingDecision, Slots

LEMMA InitType == Init => TypeInv
<1> SUFFICES ASSUME Init PROVE TypeInv
  OBVIOUS
<1>1. EmptyManifest \in Manifest
  BY EmptySeq DEF EmptyManifest, Manifest
<1>2. NoReplay \in ReplayState
  BY <1>1 DEF NoReplay, ReplayState, FileState
<1>3. <<>> \in Seq(ManifestRecord)
  BY EmptySeq
<1> QED BY <1>1, <1>2, <1>3, BoundsAssumption
        DEF Init, TypeInv, TypeOK, ArtInHand, FileState, Steps

LEMMA EvaluateType ==
    ASSUME TypeInv, NEW p \in Issuers, NEW d \in Drafts, NEW k \in Kinds,
           NEW v \in Contracts, Evaluate(p, d, k, v)
    PROVE  TypeInv'
<1> DEFINE a == [rid |-> [draft |-> d, content |-> content[d], purpose |-> k],
                 contract |-> v, serial |-> issued + 1]
<1>1. a \in Artifact
  <2>1. issued + 1 \in 1..MaxIssues
    BY BoundsAssumption DEF TypeInv, TypeOK, Evaluate
  <2>2. content[d] \in Contents
    BY DEF TypeInv, TypeOK
  <2> QED BY <2>1, <2>2 DEF Artifact, Rids
<1>2. issued' \in 0..MaxIssues
  BY BoundsAssumption DEF TypeInv, TypeOK, Evaluate
<1>3. art' = [art EXCEPT ![p] = a] /\ pc' = [pc EXCEPT ![p] = "openDecision"]
      /\ outcome' = [outcome EXCEPT ![p] = "none"]
  BY DEF Evaluate, Goto
<1> HIDE DEF a
<1>4. TypeOK'
  BY <1>1, <1>2, <1>3 DEF TypeInv, TypeOK, Evaluate, FileState, Steps, world, files
<1>5. ArtInHand'
  BY <1>1, <1>3 DEF TypeInv, TypeOK, ArtInHand
<1> QED BY <1>4, <1>5 DEF TypeInv

LEMMA WriteStepType ==
    ASSUME TypeInv, NEW p \in Issuers, WriteStep(p)
    PROVE  TypeInv'
<1> USE DEF TypeInv, TypeOK, ArtInHand, Goto, world, files, Steps
<1>1. CASE OpenDecision(p)
  BY <1>1 DEF OpenDecision, FileState
<1>2. CASE FillDecision(p)
  BY <1>2 DEF FillDecision, Written, FileState
<1>3. CASE OpenReceipt(p)
  BY <1>3 DEF OpenReceipt, FileState
<1>4. CASE FillReceipt(p)
  BY <1>4 DEF FillReceipt, Written, FileState
<1>5. ASSUME pc[p] # "idle"
      PROVE  SlotOf(art[p].rid) \in Slots
  <2>1. art[p].rid \in Rids
    BY <1>5, ArtifactFields
  <2> QED BY <2>1 DEF SlotOf, Slots, IssueRids
<1>6. CASE HashReceipt(p)
  BY <1>6, <1>5 DEF HashReceipt
<1>7. CASE HashDecision(p)
  <2> DEFINE bytes == decisionFile[SlotOf(art[p].rid)]
  <2>1. bytes \in FileState /\ RecordOf(art[p], rawReceipt[p], bytes) \in ManifestRecord
    BY <1>7, <1>5, RecordType DEF HashDecision
  <2>2. <<RecordOf(art[p], rawReceipt[p], bytes)>> \in Seq(ManifestRecord)
    BY <2>1
  <2> QED BY <1>7, <2>1, <2>2 DEF HashDecision
<1>8. CASE RefuseDefective(p)
  BY <1>8 DEF RefuseDefective
<1>9. CASE LoadManifest(p)
  <2> DEFINE r == RecordOf(art[p], rawReceipt[p], rawDecision[p])
  <2>1. r \in ManifestRecord
    BY <1>9, RecordType DEF LoadManifest
  <2>2. manifest.lines \in Seq(ManifestRecord)
    BY DEF Manifest
  <2>3. WithActiveRecord(manifest.lines, r) \in Seq(ManifestRecord)
    BY <2>1, <2>2, WithActiveRecordShape
  <2> QED BY <1>9, <2>3 DEF LoadManifest
<1>10. CASE OpenManifest(p)
  <2>1. <<>> \in Seq(ManifestRecord)
    BY EmptySeq
  <2> QED BY <1>10, <2>1 DEF OpenManifest, Manifest
<1>11. CASE FillManifest(p)
  <2>1. manifest' \in Manifest
    BY <1>11, OverwrittenShape DEF FillManifest
  <2>2. completed' \subseteq Artifact
    BY <1>11 DEF FillManifest
  <2> QED BY <1>11, <2>1, <2>2 DEF FillManifest
<1> QED BY <1>1, <1>2, <1>3, <1>4, <1>6, <1>7, <1>8, <1>9, <1>10, <1>11
        DEF WriteStep

LEMMA DieType ==
    ASSUME TypeInv, NEW p \in Issuers, Die(p)
    PROVE  TypeInv'
<1>1. crashes' \in 0..MaxCrashes
  BY BoundsAssumption DEF TypeInv, TypeOK, Die
<1>2. manifest' \in Manifest
  <2>1. CASE UNCHANGED manifest
    BY <2>1 DEF TypeInv, TypeOK
  <2>2. CASE \E n \in 0..Len(text[p]) - 1 :
                LET whole == SubSeq(text[p], 1, n) IN
                manifest' \in Overwritten(whole)
                      \cup {[exists |-> TRUE, lines |-> whole, torn |-> TRUE]}
    <3>1. PICK n \in 0..Len(text[p]) - 1 :
             \/ manifest' \in Overwritten(SubSeq(text[p], 1, n))
             \/ manifest' = [exists |-> TRUE, lines |-> SubSeq(text[p], 1, n),
                             torn |-> TRUE]
      BY <2>2
    <3>2. text[p] \in Seq(ManifestRecord) /\ Len(text[p]) \in Nat
      BY LenProperties DEF TypeInv, TypeOK
    <3>3. n \in 0..Len(text[p])
      BY <3>2
    <3>4. SubSeq(text[p], 1, n) \in Seq(ManifestRecord)
      BY <3>2, <3>3, PrefixShape
    <3>5. manifest \in Manifest
      BY DEF TypeInv, TypeOK
    <3>6. CASE manifest' \in Overwritten(SubSeq(text[p], 1, n))
      BY <3>4, <3>5, <3>6, OverwrittenShape
    <3>7. CASE manifest' = [exists |-> TRUE, lines |-> SubSeq(text[p], 1, n),
                            torn |-> TRUE]
      BY <3>4, <3>7 DEF Manifest
    <3> QED BY <3>1, <3>6, <3>7
  <2> QED BY <2>1, <2>2 DEF Die
<1> QED BY <1>1, <1>2
        DEF Die, TypeInv, TypeOK, ArtInHand, Goto, world, files, Steps

LEMMA ReplayType ==
    ASSUME TypeInv, NEW q \in Replayers,
           \/ \E s \in Slots : ReadReceipt(q, s)
           \/ EvaluateFresh(q) \/ ReadDecision(q) \/ ReadManifest(q) \/ FinishReplay(q)
    PROVE  TypeInv'
<1>1. NoReplay \in ReplayState /\ replay[q] \in ReplayState
  <2>1. EmptyManifest \in Manifest
    BY EmptySeq DEF EmptyManifest, Manifest
  <2> QED BY <2>1 DEF NoReplay, ReplayState, FileState, TypeInv, TypeOK
<1>2. ASSUME NEW state \in ReplayState, ReplayStep(q, state),
             UNCHANGED <<world, issued, crashes, files, manifest, issuerVars, completed>>
      PROVE  TypeInv'
  BY <1>2 DEF ReplayStep, TypeInv, TypeOK, ArtInHand, world, files, issuerVars
<1>3. ASSUME NEW s \in Slots, ReadReceipt(q, s) PROVE TypeInv'
  <2> DEFINE st == [NoReplay EXCEPT
                      !.pc = IF receiptFile[s] = Torn THEN "failed" ELSE "evaluate",
                      !.slot = s, !.first = receiptFile[s]]
  <2>1. receiptFile[s] \in FileState
    BY DEF TypeInv, TypeOK
  <2>2. st \in ReplayState
    BY <1>1, <2>1 DEF ReplayState
  <2> QED BY <1>3, <2>2, <1>2 DEF ReadReceipt
<1>4. CASE EvaluateFresh(q)
  <2>1. [replay[q] EXCEPT !.pc = "decision",
                          !.fresh = Reproduced(replay[q].first)] \in ReplayState
    BY <1>1 DEF ReplayState, Reproduced
  <2> QED BY <1>4, <2>1, <1>2 DEF EvaluateFresh
<1>5. CASE ReadDecision(q)
  <2>1. SiblingDecision(replay[q].first.rid) \in FileState
    BY SiblingType DEF TypeInv, TypeOK
  <2>2. [replay[q] EXCEPT !.pc = "manifest",
           !.decision = SiblingDecision(replay[q].first.rid)] \in ReplayState
    BY <1>1, <2>1 DEF ReplayState
  <2> QED BY <1>5, <2>2, <1>2 DEF ReadDecision
<1>6. CASE ReadManifest(q)
  <2>1. manifest \in Manifest
    BY DEF TypeInv, TypeOK
  <2>2. [replay[q] EXCEPT !.pc = "reread", !.manifest = manifest] \in ReplayState
    BY <1>1, <2>1 DEF ReplayState
  <2> QED BY <1>6, <2>2, <1>2 DEF ReadManifest
<1>7. CASE FinishReplay(q)
  <2>1. PICK v \in {"passed", "failed"} : ReplayStep(q, [replay[q] EXCEPT !.pc = v])
    BY <1>7 DEF FinishReplay
  <2>2. [replay[q] EXCEPT !.pc = v] \in ReplayState
    BY <1>1 DEF ReplayState
  <2> QED BY <1>7, <2>1, <2>2, <1>2 DEF FinishReplay
<1> QED BY <1>3, <1>4, <1>5, <1>6, <1>7

(* Every step keeps the types. *)
LEMMA NextType == TypeInv /\ [Next]_vars => TypeInv'
<1> SUFFICES ASSUME TypeInv, [Next]_vars PROVE TypeInv'
  OBVIOUS
<1>1. ASSUME NEW d \in Drafts, NEW c \in Contents, EditContent(d, c)
      PROVE  TypeInv'
  BY <1>1, BoundsAssumption
     DEF EditContent, TypeInv, TypeOK, ArtInHand, files, issuerVars
<1>2. CASE UNCHANGED vars
  BY <1>2 DEF vars, TypeInv, TypeOK, ArtInHand
<1> QED BY <1>1, <1>2, EvaluateType, WriteStepType, DieType, ReplayType DEF Next

(* The values of every variable stay in their sets, and an issuer that is  *)
(* running always has the decision it persists.                            *)
THEOREM TypeCorrect == Spec => []TypeOK
<1>1. TypeInv => TypeOK
  BY DEF TypeInv
<1> QED BY <1>1, InitType, NextType, PTL DEF Spec

-----------------------------------------------------------------------------
(*              Passing replays, whatever runs concurrently                *)

(* A decision file is opened before the receipt file beside it, and a      *)
(* receipt lies in the slot of its own id.                                 *)
FilesInv ==
    /\ \A s \in Slots : receiptFile[s] # NoFile => decisionFile[s] # NoFile
    /\ \A p \in Issuers : pc[p] \notin {"idle", "openDecision"} =>
         decisionFile[SlotOf(art[p].rid)] # NoFile
    /\ \A s \in Slots : receiptFile[s] \in Artifact => SlotOf(receiptFile[s].rid) = s

(* A record binds the canonical decision and receipt of one run, and that  *)
(* run is finished.                                                        *)
OneRun(record) == record.receiptCanonical = record.decisionCanonical
Finished(record, done) == OneRun(record) /\ record.receiptCanonical \in done

RecordsInv ==
    /\ \A i \in 1..Len(manifest.lines) : Finished(manifest.lines[i], completed)
    /\ \A p \in Issuers : pc[p] \in {"openManifest", "fillManifest"} =>
         \A i \in 1..Len(text[p]) :
           \/ i < Len(text[p]) /\ Finished(text[p][i], completed)
           \/ /\ i = Len(text[p]) /\ OneRun(text[p][i])
              /\ text[p][i].receiptCanonical = art[p]

Reading == {"evaluate", "decision", "manifest", "reread", "passed"}

ReplaysInv ==
    \A q \in Replayers :
        /\ replay[q].pc \in Reading =>
             /\ replay[q].first \in Artifact
             /\ receiptFile[SlotOf(replay[q].first.rid)] # NoFile
        /\ replay[q].pc \in {"manifest", "reread", "passed"} => replay[q].decision # NoFile
        /\ replay[q].pc \in {"reread", "passed"} =>
             \A i \in 1..Len(replay[q].manifest.lines) : Finished(replay[q].manifest.lines[i], completed)
        /\ replay[q].pc = "passed" =>
             replay[q].decision = replay[q].first /\ replay[q].first \in completed

LEMMA SlotType ==
    ASSUME NEW rid \in Rids
    PROVE  SlotOf(rid) \in Slots
BY DEF SlotOf, Slots, IssueRids

LEMMA FilesInvStep ==
    ASSUME TypeInv, FilesInv, [Next]_vars
    PROVE  FilesInv'
<1> USE DEF FilesInv, TypeInv, TypeOK, ArtInHand, Goto
<1>1. CASE UNCHANGED <<decisionFile, receiptFile, pc, art>>
  BY <1>1
<1>2. ASSUME NEW p \in Issuers, NEW d \in Drafts, NEW k \in Kinds, NEW v \in Contracts,
             Evaluate(p, d, k, v)
      PROVE  FilesInv'
  BY <1>2 DEF Evaluate, files
<1>3. ASSUME NEW p \in Issuers, WriteStep(p)
      PROVE  FilesInv'
  <2>1. pc[p] # "idle"
    BY <1>3 DEF WriteStep, OpenDecision, FillDecision, OpenReceipt, FillReceipt,
                HashReceipt, HashDecision, RefuseDefective, LoadManifest,
                OpenManifest, FillManifest
  <2>2. /\ art[p] \in Artifact
        /\ SlotOf(art[p].rid) \in Slots
    BY <2>1, ArtifactFields, SlotType
  <2>3. art[p] # NoFile /\ Torn # NoFile /\ Torn \notin Artifact
    BY <2>2, ConstantsDistinct
  <2>4. CASE OpenDecision(p)
    BY <2>4, <2>2, <2>3 DEF OpenDecision
  <2>5. CASE FillDecision(p)
    BY <2>5, <2>2, <2>3 DEF FillDecision, Written
  <2>6. CASE OpenReceipt(p)
    BY <2>6, <2>2, <2>3 DEF OpenReceipt
  <2>7. CASE FillReceipt(p)
    <3> DEFINE slot == SlotOf(art[p].rid)
    <3>1. PICK new \in {art[p], Torn} : receiptFile' = [receiptFile EXCEPT ![slot] = new]
      BY <2>7 DEF FillReceipt, Written
    <3>2. /\ pc[p] = "fillReceipt" /\ pc' = [pc EXCEPT ![p] = "hashReceipt"]
          /\ UNCHANGED <<decisionFile, art>>
      BY <2>7 DEF FillReceipt
    <3>3. decisionFile[slot] # NoFile
      BY <3>2
    <3>4. new \in Artifact => SlotOf(new.rid) = slot
      BY <2>3
    <3> HIDE DEF slot
    <3>5. \A s \in Slots : receiptFile'[s] = IF s = slot THEN new ELSE receiptFile[s]
      BY <3>1
    <3> QED BY <3>2, <3>3, <3>4, <3>5
  <2>8. CASE HashReceipt(p) \/ HashDecision(p) \/ RefuseDefective(p) \/ LoadManifest(p)
             \/ OpenManifest(p) \/ FillManifest(p)
    BY <2>8 DEF HashReceipt, HashDecision, RefuseDefective, LoadManifest,
                OpenManifest, FillManifest, files
  <2> QED BY <1>3, <2>4, <2>5, <2>6, <2>7, <2>8 DEF WriteStep
<1>4. ASSUME NEW p \in Issuers, Die(p)
      PROVE  FilesInv'
  BY <1>4 DEF Die, files
<1>5. ASSUME NEW d \in Drafts, NEW c \in Contents, EditContent(d, c)
      PROVE  FilesInv'
  BY <1>5, <1>1 DEF EditContent, files, issuerVars
<1>6. ASSUME NEW q \in Replayers,
             \/ \E s \in Slots : ReadReceipt(q, s)
             \/ EvaluateFresh(q) \/ ReadDecision(q) \/ ReadManifest(q) \/ FinishReplay(q)
      PROVE  FilesInv'
  BY <1>6, <1>1 DEF ReadReceipt, EvaluateFresh, ReadDecision, ReadManifest,
                    FinishReplay, files, issuerVars
<1> QED BY <1>1, <1>2, <1>3, <1>4, <1>5, <1>6 DEF Next, vars

(* A step that leaves a record's run finished leaves the record finished.  *)
LEMMA CompletedGrows ==
    ASSUME [Next]_vars
    PROVE  completed \subseteq completed'
BY DEF Next, vars, EditContent, Evaluate, WriteStep, OpenDecision, FillDecision,
       OpenReceipt, FillReceipt, HashReceipt, HashDecision, RefuseDefective,
       LoadManifest, OpenManifest, FillManifest, Die, ReadReceipt, EvaluateFresh,
       ReadDecision, ReadManifest, FinishReplay

LEMMA RecordsInvStep ==
    ASSUME TypeInv, RecordsInv, [Next]_vars
    PROVE  RecordsInv'
<1> USE DEF Goto
<1>1. completed \subseteq completed'
  BY CompletedGrows
<1>2. CASE UNCHANGED <<manifest, pc, art, text>>
  BY <1>1, <1>2 DEF RecordsInv, Finished, OneRun
<1>3. ASSUME UNCHANGED <<manifest, text, completed>>, NEW p \in Issuers,
             UNCHANGED art \/ \E a : art' = [art EXCEPT ![p] = a],
             NEW step \in Steps \ {"openManifest", "fillManifest"},
             pc' = [pc EXCEPT ![p] = step]
      PROVE  RecordsInv'
  BY <1>3 DEF RecordsInv, Finished, OneRun, TypeInv, TypeOK
<1>4. ASSUME NEW p \in Issuers, NEW d \in Drafts, NEW k \in Kinds, NEW v \in Contracts,
             Evaluate(p, d, k, v)
      PROVE  RecordsInv'
  BY <1>4, <1>3 DEF Evaluate, Steps
<1>5. ASSUME NEW p \in Issuers,
             \/ OpenDecision(p) \/ FillDecision(p) \/ OpenReceipt(p) \/ FillReceipt(p)
             \/ HashReceipt(p) \/ RefuseDefective(p)
      PROVE  RecordsInv'
  BY <1>5, <1>3 DEF OpenDecision, FillDecision, OpenReceipt, FillReceipt, HashReceipt,
                    RefuseDefective, Steps
<1>6. ASSUME NEW p \in Issuers, HashDecision(p)
      PROVE  RecordsInv'
  <2> DEFINE r == RecordOf(art[p], rawReceipt[p], decisionFile[SlotOf(art[p].rid)])
  <2>1. CASE art[p].rid.purpose = "issue"
    BY <1>6, <2>1, <1>3 DEF HashDecision, Steps
  <2>2. CASE art[p].rid.purpose # "issue"
    <3>1. /\ text' = [text EXCEPT ![p] = <<r>>] /\ pc' = [pc EXCEPT ![p] = "openManifest"]
          /\ UNCHANGED <<manifest, art, completed>>
      BY <1>6, <2>2 DEF HashDecision
    <3>2. OneRun(r) /\ r.receiptCanonical = art[p]
      BY DEF RecordOf, OneRun
    <3> HIDE DEF r
    <3>3. \A i \in 1..Len(<<r>>) : i = Len(<<r>>) /\ <<r>>[i] = r
      OBVIOUS
    <3> DEFINE one == <<r>>
    <3>4. text' = [text EXCEPT ![p] = one] /\ \A i \in 1..Len(one) : i = Len(one) /\ one[i] = r
      BY <3>1, <3>3
    <3> HIDE DEF one
    <3>5. ASSUME NEW o \in Issuers, pc'[o] \in {"openManifest", "fillManifest"},
                 NEW i \in 1..Len(text'[o])
          PROVE  \/ i < Len(text'[o]) /\ Finished(text'[o][i], completed')
                 \/ i = Len(text'[o]) /\ OneRun(text'[o][i])
                    /\ text'[o][i].receiptCanonical = art'[o]
      <4>1. CASE o = p
        <5>1. text'[o] = one /\ art'[o] = art[p]
          BY <3>1, <3>4, <4>1 DEF TypeInv, TypeOK
        <5>2. i = Len(one) /\ one[i] = r
          BY <3>4, <5>1
        <5> QED BY <3>2, <5>1, <5>2
      <4>2. CASE o # p
        <5>1. text'[o] = text[o] /\ pc'[o] = pc[o] /\ art'[o] = art[o]
              /\ completed' = completed
          BY <3>1, <4>2 DEF TypeInv, TypeOK
        <5> QED BY <3>5, <5>1 DEF RecordsInv, Finished
      <4> QED BY <4>1, <4>2
    <3>6. \A i \in 1..Len(manifest'.lines) : Finished(manifest'.lines[i], completed')
      BY <3>1 DEF RecordsInv
    <3> QED BY <3>5, <3>6 DEF RecordsInv, OneRun
  <2> QED BY <2>1, <2>2
<1>7. ASSUME NEW p \in Issuers, LoadManifest(p)
      PROVE  RecordsInv'
  <2> DEFINE r == RecordOf(art[p], rawReceipt[p], rawDecision[p])
             lines == manifest.lines
             W == WithActiveRecord(lines, r)
  <2>1. r \in ManifestRecord
    BY <1>7, RecordType DEF LoadManifest, TypeInv, TypeOK, ArtInHand
  <2>2. lines \in Seq(ManifestRecord)
    BY DEF TypeInv, TypeOK, Manifest
  <2>3. OneRun(r) /\ r.receiptCanonical = art[p]
    BY DEF RecordOf, OneRun
  <2>4. /\ text' = [text EXCEPT ![p] = W] /\ pc' = [pc EXCEPT ![p] = "openManifest"]
        /\ UNCHANGED <<manifest, art, completed>>
    BY <1>7 DEF LoadManifest
  <2>5. ASSUME NEW i \in 1..Len(lines)
        PROVE  Finished(Supersede(lines[i], r), completed)
    <3>1. Finished(lines[i], completed) /\ lines[i] \in ManifestRecord
      BY <2>2, ElementOfSeq DEF RecordsInv
    <3> QED BY <3>1 DEF Supersede, Finished, OneRun, ManifestRecord
  <2> HIDE DEF r, lines
  <2>6. /\ Len(W) = Len(lines) + 1
        /\ \A i \in 1..Len(lines) : W[i] = Supersede(lines[i], r)
        /\ W[Len(lines) + 1] = r
    BY <2>1, <2>2, WithActiveRecordShape
  <2>7. Len(lines) \in Nat
    BY <2>2, LenProperties
  <2> HIDE DEF W
  <2>8. \A i \in 1..Len(W) :
          \/ i < Len(W) /\ Finished(W[i], completed)
          \/ i = Len(W) /\ OneRun(W[i]) /\ W[i].receiptCanonical = art[p]
    BY <2>3, <2>5, <2>6, <2>7
  <2> QED BY <2>4, <2>8 DEF RecordsInv, Finished, OneRun, TypeInv, TypeOK
<1>8. ASSUME NEW p \in Issuers, OpenManifest(p)
      PROVE  RecordsInv'
  <2>1. Len(manifest'.lines) = 0
    BY <1>8, EmptySeq DEF OpenManifest
  <2> QED BY <1>8, <2>1 DEF OpenManifest, RecordsInv, Finished, OneRun, TypeInv, TypeOK
<1>9. ASSUME NEW new \in Seq(ManifestRecord), manifest' \in Overwritten(new),
             \A i \in 1..Len(new) : Finished(new[i], completed')
      PROVE  \A i \in 1..Len(manifest'.lines) : Finished(manifest'.lines[i], completed')
  <2>1. /\ manifest' \in Manifest
        /\ \A i \in 1..Len(new) : manifest'.lines[i] = new[i]
        /\ \A i \in Len(new) + 1..Len(manifest'.lines) :
             i \in 1..Len(manifest.lines) /\ manifest'.lines[i] = manifest.lines[i]
    BY <1>9, OverwrittenShape DEF TypeInv, TypeOK
  <2>2. Len(new) \in Nat /\ Len(manifest'.lines) \in Nat
    BY <2>1, LenProperties DEF Manifest
  <2>3. \A i \in 1..Len(manifest.lines) : Finished(manifest.lines[i], completed')
    BY <1>1 DEF RecordsInv, Finished
  <2> QED BY <1>9, <2>1, <2>2, <2>3
<1>10. ASSUME NEW p \in Issuers, FillManifest(p)
       PROVE  RecordsInv'
  <2>1. /\ pc[p] = "fillManifest" /\ pc' = [pc EXCEPT ![p] = "idle"]
        /\ manifest' \in Overwritten(text[p])
        /\ completed' = completed \cup {art[p]}
        /\ UNCHANGED <<art, text>>
    BY <1>10 DEF FillManifest
  <2>2. text[p] \in Seq(ManifestRecord)
    BY DEF TypeInv, TypeOK
  <2>3. \A i \in 1..Len(text[p]) : Finished(text[p][i], completed')
    BY <2>1 DEF RecordsInv, Finished
  <2>4. \A i \in 1..Len(manifest'.lines) : Finished(manifest'.lines[i], completed')
    BY <2>1, <2>2, <2>3, <1>9
  <2>5. \A o \in Issuers : pc'[o] \in {"openManifest", "fillManifest"} =>
          o # p /\ pc[o] \in {"openManifest", "fillManifest"}
    BY <2>1 DEF TypeInv, TypeOK
  <2> QED BY <1>1, <2>1, <2>4, <2>5 DEF RecordsInv, Finished
<1>11. ASSUME NEW p \in Issuers, Die(p)
       PROVE  RecordsInv'
  <2>1. /\ pc' = [pc EXCEPT ![p] = "idle"] /\ UNCHANGED <<art, text, completed>>
    BY <1>11 DEF Die
  <2>2. \A o \in Issuers : pc'[o] \in {"openManifest", "fillManifest"} =>
          pc[o] \in {"openManifest", "fillManifest"}
    BY <2>1 DEF TypeInv, TypeOK
  <2>3. CASE UNCHANGED manifest
    BY <2>1, <2>2, <2>3 DEF RecordsInv, Finished
  <2>4. CASE /\ pc[p] = "fillManifest"
             /\ \E n \in 0..Len(text[p]) - 1 :
                  LET whole == SubSeq(text[p], 1, n) IN
                  manifest' \in Overwritten(whole)
                        \cup {[exists |-> TRUE, lines |-> whole, torn |-> TRUE]}
    <3>1. PICK n \in 0..Len(text[p]) - 1 :
             \/ manifest' \in Overwritten(SubSeq(text[p], 1, n))
             \/ manifest' = [exists |-> TRUE, lines |-> SubSeq(text[p], 1, n),
                             torn |-> TRUE]
      BY <2>4
    <3>2. text[p] \in Seq(ManifestRecord) /\ Len(text[p]) \in Nat
      BY LenProperties DEF TypeInv, TypeOK
    <3> DEFINE whole == SubSeq(text[p], 1, n)
    <3>3. n \in 0..Len(text[p])
      BY <3>2
    <3>4. /\ whole \in Seq(ManifestRecord) /\ Len(whole) = n
          /\ \A i \in 1..n : whole[i] = text[p][i]
      BY <3>2, <3>3, PrefixShape
    <3>5. \A i \in 1..Len(whole) : Finished(whole[i], completed')
      <4>1. \A i \in 1..Len(text[p]) : i < Len(text[p]) => Finished(text[p][i], completed)
        BY <2>4 DEF RecordsInv
      <4>2. n < Len(text[p])
        BY <3>2
      <4>3. ASSUME NEW i \in 1..n PROVE Finished(text[p][i], completed)
        BY <3>2, <4>1, <4>2
      <4> HIDE DEF whole
      <4> QED BY <2>1, <3>4, <4>3
    <3> HIDE DEF whole
    <3>6. \A i \in 1..Len(manifest'.lines) : Finished(manifest'.lines[i], completed')
      <4>1. CASE manifest' \in Overwritten(whole)
        BY <4>1, <3>4, <3>5, <1>9
      <4>2. CASE manifest' = [exists |-> TRUE, lines |-> whole, torn |-> TRUE]
        BY <4>2, <3>5
      <4> QED BY <3>1, <4>1, <4>2 DEF whole
    <3> QED BY <2>1, <2>2, <3>6 DEF RecordsInv, Finished
  <2> QED BY <1>11, <2>3, <2>4 DEF Die
<1>12. ASSUME NEW d \in Drafts, NEW c \in Contents, EditContent(d, c)
       PROVE  RecordsInv'
  BY <1>12, <1>2 DEF EditContent, issuerVars
<1>13. ASSUME NEW q \in Replayers,
             \/ \E s \in Slots : ReadReceipt(q, s)
             \/ EvaluateFresh(q) \/ ReadDecision(q) \/ ReadManifest(q) \/ FinishReplay(q)
       PROVE  RecordsInv'
  BY <1>13, <1>2 DEF ReadReceipt, EvaluateFresh, ReadDecision, ReadManifest,
                     FinishReplay, issuerVars
<1>14. ASSUME NEW p \in Issuers, WriteStep(p) PROVE RecordsInv'
  BY <1>14, <1>5, <1>6, <1>7, <1>8, <1>10 DEF WriteStep
<1>15. CASE UNCHANGED vars
  BY <1>15, <1>2 DEF vars
<1> QED BY <1>4, <1>11, <1>12, <1>13, <1>14, <1>15 DEF Next

LEMMA ReplaysInvStep ==
    ASSUME TypeInv, FilesInv, RecordsInv, ReplaysInv, [Next]_vars
    PROVE  ReplaysInv'
<1>1. completed \subseteq completed'
  BY CompletedGrows
<1>2. \A s \in Slots : receiptFile[s] # NoFile => receiptFile'[s] # NoFile
  <2>1. CASE UNCHANGED receiptFile
    BY <2>1
  <2>2. ASSUME NEW p \in Issuers, OpenReceipt(p)
        PROVE  \A s \in Slots : receiptFile[s] # NoFile => receiptFile'[s] # NoFile
    BY <2>2, ConstantsDistinct DEF OpenReceipt, TypeInv, TypeOK
  <2>3. ASSUME NEW p \in Issuers, FillReceipt(p)
        PROVE  \A s \in Slots : receiptFile[s] # NoFile => receiptFile'[s] # NoFile
    <3>1. art[p] # NoFile /\ Torn # NoFile
      BY <2>3, ConstantsDistinct DEF FillReceipt, TypeInv, ArtInHand
    <3> QED BY <2>3, <3>1 DEF FillReceipt, Written, TypeInv, TypeOK
  <2> QED BY <2>1, <2>2, <2>3 DEF Next, vars, EditContent, Evaluate, WriteStep,
        OpenDecision, FillDecision, HashReceipt, HashDecision, RefuseDefective,
        LoadManifest, OpenManifest, FillManifest, Die, ReadReceipt, EvaluateFresh,
        ReadDecision, ReadManifest, FinishReplay, files
<1>3. \A q \in Replayers : replay[q].pc \in Reading => SlotOf(replay[q].first.rid) \in Slots
  BY ArtifactFields, SlotType DEF ReplaysInv
<1>4. CASE UNCHANGED replay
  BY <1>1, <1>2, <1>3, <1>4 DEF ReplaysInv, Finished, Reading
<1>5. ASSUME NEW q \in Replayers, NEW state, ReplayStep(q, state),
             UNCHANGED <<receiptFile, completed>>,
             /\ state.pc \in Reading =>
                  /\ state.first \in Artifact
                  /\ receiptFile[SlotOf(state.first.rid)] # NoFile
             /\ state.pc \in {"manifest", "reread", "passed"} => state.decision # NoFile
             /\ state.pc \in {"reread", "passed"} =>
                  \A i \in 1..Len(state.manifest.lines) :
                    Finished(state.manifest.lines[i], completed)
             /\ state.pc = "passed" =>
                  state.decision = state.first /\ state.first \in completed
      PROVE  ReplaysInv'
  <2>1. \A o \in Replayers : replay'[o] = IF o = q THEN state ELSE replay[o]
    BY <1>5 DEF ReplayStep, TypeInv, TypeOK
  <2> QED BY <1>5, <2>1 DEF ReplaysInv, Reading
<1>6. ASSUME NEW q \in Replayers, NEW s \in Slots, ReadReceipt(q, s)
      PROVE  ReplaysInv'
  <2> DEFINE st == [NoReplay EXCEPT
                      !.pc = IF receiptFile[s] = Torn THEN "failed" ELSE "evaluate",
                      !.slot = s, !.first = receiptFile[s]]
  <2>1. /\ st.pc = IF receiptFile[s] = Torn THEN "failed" ELSE "evaluate"
        /\ st.first = receiptFile[s]
    BY DEF NoReplay
  <2>2. receiptFile[s] # Torn => receiptFile[s] \in Artifact /\ SlotOf(receiptFile[s].rid) = s
    BY <1>6 DEF ReadReceipt, TypeInv, TypeOK, FileState, FilesInv
  <2>3. receiptFile[s] # NoFile /\ ReplayStep(q, st) /\ UNCHANGED <<receiptFile, completed>>
    BY <1>6 DEF ReadReceipt, files
  <2> HIDE DEF st
  <2> QED BY <2>1, <2>2, <2>3, <1>5 DEF Reading
<1>7. ASSUME NEW q \in Replayers, EvaluateFresh(q)
      PROVE  ReplaysInv'
  <2> DEFINE st == [replay[q] EXCEPT !.pc = "decision",
                                     !.fresh = Reproduced(replay[q].first)]
  <2>1. st.pc = "decision" /\ st.first = replay[q].first
    BY DEF TypeInv, TypeOK, ReplayState
  <2>2. replay[q].pc \in Reading /\ ReplayStep(q, st) /\ UNCHANGED <<receiptFile, completed>>
    BY <1>7 DEF EvaluateFresh, files, Reading
  <2> HIDE DEF st
  <2> QED BY <2>1, <2>2, <1>5 DEF ReplaysInv, Reading
<1>8. ASSUME NEW q \in Replayers, ReadDecision(q)
      PROVE  ReplaysInv'
  <2> DEFINE rid == replay[q].first.rid
             st == [replay[q] EXCEPT !.pc = "manifest", !.decision = SiblingDecision(rid)]
  <2>1. st.pc = "manifest" /\ st.first = replay[q].first /\ st.decision = SiblingDecision(rid)
    BY DEF TypeInv, TypeOK, ReplayState
  <2>2. replay[q].pc \in Reading /\ ReplayStep(q, st) /\ UNCHANGED <<receiptFile, completed>>
    BY <1>8 DEF ReadDecision, files, Reading
  <2>3. SiblingDecision(rid) # NoFile
    <3>1. rid \in Rids /\ decisionFile[SlotOf(rid)] # NoFile
      BY <2>2, <1>3, ArtifactFields DEF ReplaysInv, FilesInv
    <3> QED BY <3>1 DEF SiblingDecision, SlotOf, IssueRids
  <2> HIDE DEF st, rid
  <2> QED BY <2>1, <2>2, <2>3, <1>5 DEF ReplaysInv, Reading
<1>9. ASSUME NEW q \in Replayers, ReadManifest(q)
      PROVE  ReplaysInv'
  <2> DEFINE st == [replay[q] EXCEPT !.pc = "reread", !.manifest = manifest]
  <2>1. /\ st.pc = "reread" /\ st.first = replay[q].first
        /\ st.decision = replay[q].decision /\ st.manifest = manifest
    BY DEF TypeInv, TypeOK, ReplayState
  <2>2. replay[q].pc = "manifest" /\ ReplayStep(q, st) /\ UNCHANGED <<receiptFile, completed>>
    BY <1>9 DEF ReadManifest, files
  <2> HIDE DEF st
  <2> QED BY <2>1, <2>2, <1>5 DEF ReplaysInv, RecordsInv, Reading
<1>10. ASSUME NEW q \in Replayers, FinishReplay(q)
       PROVE  ReplaysInv'
  <2> DEFINE r == replay[q]
             ok == r.fresh /\ BundleIntact(r.first, receiptFile[r.slot], r.decision, r.manifest)
             st == [r EXCEPT !.pc = IF ok THEN "passed" ELSE "failed"]
  <2>1. r \in ReplayState /\ r.pc = "reread"
    BY <1>10 DEF FinishReplay, TypeInv, TypeOK
  <2>2. /\ st.pc = IF ok THEN "passed" ELSE "failed"
        /\ st.first = r.first /\ st.decision = r.decision /\ st.manifest = r.manifest
    BY <2>1 DEF ReplayState
  <2>3. ReplayStep(q, st) /\ UNCHANGED <<receiptFile, completed>>
    BY <1>10 DEF FinishReplay, files
  <2>4. ASSUME ok PROVE r.decision = r.first /\ r.first \in completed
    <3>1. r.decision # NoFile /\ \A i \in 1..Len(r.manifest.lines) :
                                   Finished(r.manifest.lines[i], completed)
      BY <2>1 DEF ReplaysInv
    <3>2. PICK i \in ActiveOf(r.manifest.lines, r.first.rid) :
             RecordMatches(r.manifest.lines[i], r.first, receiptFile[r.slot], r.decision)
      BY <2>4, <3>1 DEF BundleIntact
    <3>3. i \in 1..Len(r.manifest.lines)
      <4>1. r.manifest.lines \in Seq(ManifestRecord)
        BY <2>1 DEF ReplayState, Manifest
      <4> QED BY <3>2, <4>1, LenProperties DEF ActiveOf
    <3> QED BY <3>1, <3>2, <3>3 DEF RecordMatches, Finished, OneRun
  <2>5. /\ r.first \in Artifact /\ receiptFile[SlotOf(r.first.rid)] # NoFile
        /\ r.decision # NoFile
        /\ \A i \in 1..Len(r.manifest.lines) : Finished(r.manifest.lines[i], completed)
    BY <2>1 DEF ReplaysInv, Reading
  <2> HIDE DEF st, ok, r
  <2> QED BY <2>2, <2>3, <2>4, <2>5, <1>5
<1>11. ASSUME NEW q \in Replayers,
             \/ \E s \in Slots : ReadReceipt(q, s)
             \/ EvaluateFresh(q) \/ ReadDecision(q) \/ ReadManifest(q) \/ FinishReplay(q)
       PROVE  ReplaysInv'
  BY <1>6, <1>7, <1>8, <1>9, <1>10, <1>11
<1>12. CASE \/ \E d \in Drafts, c \in Contents : EditContent(d, c)
            \/ \E p \in Issuers, d \in Drafts, k \in Kinds, v \in Contracts :
                 Evaluate(p, d, k, v)
            \/ \E p \in Issuers : WriteStep(p) \/ Die(p)
            \/ UNCHANGED vars
  <2>1. UNCHANGED replay
    BY <1>12 DEF vars, EditContent, Evaluate, WriteStep, OpenDecision, FillDecision,
          OpenReceipt, FillReceipt, HashReceipt, HashDecision, RefuseDefective,
          LoadManifest, OpenManifest, FillManifest, Die
  <2> QED BY <2>1, <1>4
<1> QED BY <1>11, <1>12 DEF Next

(* The conjunction is inductive: FilesInv says that a receipt is never seen *)
(* without a decision beside it, so that no replay falls back to the        *)
(* standalone case; RecordsInv that a record binds one run; ReplaysInv      *)
(* carries both through the reads of a replay.                              *)
PassInv == TypeInv /\ FilesInv /\ RecordsInv /\ ReplaysInv

LEMMA InitPass == Init => PassInv
<1> SUFFICES ASSUME Init PROVE PassInv
  OBVIOUS
<1>1. TypeInv
  BY InitType
<1>2. FilesInv
  BY ConstantsDistinct DEF Init, FilesInv
<1>3. RecordsInv
  BY EmptySeq DEF Init, RecordsInv, EmptyManifest
<1>4. ReplaysInv
  BY DEF Init, ReplaysInv, NoReplay, Reading
<1> QED BY <1>1, <1>2, <1>3, <1>4 DEF PassInv

LEMMA NextPass == PassInv /\ [Next]_vars => PassInv'
BY NextType, FilesInvStep, RecordsInvStep, ReplaysInvStep DEF PassInv

(* A passing replay has read the decision and the receipt of one run. *)
THEOREM NoMixedBundlePasses == Spec => []NoMixedBundle
<1>1. PassInv => NoMixedBundle
  BY DEF PassInv, ReplaysInv, NoMixedBundle
<1> QED BY <1>1, InitPass, NextPass, PTL DEF Spec

(* A passing replay is of a bundle that was written to its end. *)
THEOREM NoUnfinishedBundlePasses == Spec => []OnlyFinishedIssuesPass
<1>1. PassInv => OnlyFinishedIssuesPass
  BY DEF PassInv, ReplaysInv, OnlyFinishedIssuesPass
<1> QED BY <1>1, InitPass, NextPass, PTL DEF Spec

-----------------------------------------------------------------------------
(*                      One issuer at a time                               *)

(* What of a bundle is on disk when its issuer is at one of these steps. *)
DecisionIsThere == {"openReceipt", "fillReceipt", "hashReceipt", "hashDecision", "load",
                    "openManifest", "fillManifest"}
ReceiptIsThere == {"hashReceipt", "hashDecision", "load", "openManifest", "fillManifest"}

(* Active records are the only ones of their id, and no finished run of it *)
(* is newer.                                                               *)
Latest(lines, done) ==
    \A i \in 1..Len(lines) : lines[i].status = "active" =>
        /\ \A j \in 1..Len(lines) :
             lines[j].status = "active" /\ lines[j].rid = lines[i].rid => j = i
        /\ \A a \in done : a.rid = lines[i].rid =>
             a.serial <= lines[i].receiptCanonical.serial

(* The last record is of the run a, and of its bytes.                      *)
EndsWith(lines, a) == Len(lines) > 0 /\ lines[Len(lines)] = RecordOf(a, a, a)

Kept(lines, done) == \A a \in done : \E i \in 1..Len(lines) : lines[i].receiptCanonical = a

(* How far the issuer p, which is alone, has come with its bundle.         *)
BundleInv(p) ==
    LET slot == SlotOf(art[p].rid) IN
    /\ pc[p] # "idle" => art[p].serial = issued /\ outcome[p] # "issued"
    /\ pc[p] = "fillDecision" => decisionFile[slot] = Torn
    /\ pc[p] \in DecisionIsThere => decisionFile[slot] = art[p]
    /\ pc[p] = "fillReceipt" => receiptFile[slot] = Torn
    /\ pc[p] \in ReceiptIsThere => receiptFile[slot] = art[p]
    /\ pc[p] \in {"hashDecision", "load"} => rawReceipt[p] = art[p]
    /\ pc[p] = "load" => rawDecision[p] = art[p]
    /\ outcome[p] = "issued" =>
         /\ art[p] \in Artifact /\ decisionFile[slot] = art[p] /\ receiptFile[slot] = art[p]
         /\ manifest.exists /\ ~manifest.torn /\ EndsWith(manifest.lines, art[p])

ManifestInv(p) ==
    /\ Latest(manifest.lines, completed)
    /\ pc[p] \in {"openManifest", "fillManifest"} =>
         EndsWith(text[p], art[p]) /\ Latest(text[p], completed)
    /\ pc[p] = "openManifest" /\ art[p].rid.purpose = "issue" => ~manifest.torn
    /\ pc[p] = "fillManifest" => manifest = [exists |-> TRUE, lines |-> <<>>, torn |-> FALSE]

LogInv(p) ==
    crashes = 0 /\ (\A a \in completed : a.rid.purpose = "issue") =>
        /\ pc[p] # "fillManifest" => Kept(manifest.lines, completed)
        /\ pc[p] \in {"openManifest", "fillManifest"} /\ art[p].rid.purpose = "issue" =>
             Kept(text[p], completed)

(* Runs are numbered in the order of their evaluations.                    *)
SerialsInv == \A a \in completed : a.serial <= issued

SerialInv(p) == TypeInv /\ SerialsInv /\ BundleInv(p) /\ ManifestInv(p) /\ LogInv(p)

(* What an extended manifest says, its first n lines, and the bytes of one *)
(* write over an empty file.                                               *)
LEMMA ExtensionIsLatest ==
    ASSUME NEW lines \in Seq(ManifestRecord), NEW record \in ManifestRecord,
           Latest(lines, completed), record.status = "active",
           \A a \in completed : a.rid = record.rid => a.serial <= record.receiptCanonical.serial
    PROVE  Latest(WithActiveRecord(lines, record), completed)
<1> DEFINE W == WithActiveRecord(lines, record)
           n == Len(lines)
<1>1. /\ Len(W) = n + 1 /\ n \in Nat /\ W[n + 1] = record
      /\ \A i \in 1..n : W[i] = Supersede(lines[i], record)
  BY WithActiveRecordShape, LenProperties
<1>2. \A i \in 1..n : lines[i] \in ManifestRecord
  BY ElementOfSeq
<1> HIDE DEF W
<1>3. ASSUME NEW i \in 1..n, W[i].status = "active"
      PROVE  W[i] = lines[i] /\ lines[i].rid # record.rid
  <2>1. W[i] = Supersede(lines[i], record) /\ lines[i] \in ManifestRecord
    BY <1>1, <1>2
  <2>2. CASE lines[i].rid = record.rid /\ lines[i].status # "superseded"
    <3>1. W[i].status = "superseded"
      BY <2>1, <2>2 DEF Supersede, ManifestRecord
    <3> QED BY <1>3, <3>1
  <2>3. CASE ~(lines[i].rid = record.rid /\ lines[i].status # "superseded")
    <3>1. W[i] = lines[i]
      BY <2>1, <2>3 DEF Supersede
    <3> QED BY <1>3, <2>3, <3>1
  <2> QED BY <2>2, <2>3
<1>4. \A i \in 1..Len(W) : i \in 1..n \/ i = n + 1
  BY <1>1
<1>5. ASSUME NEW i \in 1..Len(W), W[i].status = "active",
             NEW j \in 1..Len(W), W[j].status = "active", W[j].rid = W[i].rid
      PROVE  j = i
  <2>1. CASE i \in 1..n /\ j \in 1..n
    BY <1>3, <1>5, <2>1 DEF Latest
  <2>2. CASE i = n + 1 \/ j = n + 1
    BY <1>1, <1>3, <1>4, <1>5, <2>2
  <2> QED BY <1>4, <2>1, <2>2
<1>6. ASSUME NEW i \in 1..Len(W), W[i].status = "active",
             NEW a \in completed, a.rid = W[i].rid
      PROVE  a.serial <= W[i].receiptCanonical.serial
  <2>1. CASE i \in 1..n
    BY <1>3, <1>6, <2>1 DEF Latest
  <2>2. CASE i = n + 1
    BY <1>1, <1>6, <2>2
  <2> QED BY <1>4, <2>1, <2>2
<1>7. Latest(W, completed)
  BY <1>5, <1>6 DEF Latest
<1> QED BY <1>7 DEF W

LEMMA PrefixIsLatest ==
    ASSUME NEW s \in Seq(ManifestRecord), Latest(s, completed), NEW n \in 0..Len(s)
    PROVE  Latest(SubSeq(s, 1, n), completed)
<1> DEFINE whole == SubSeq(s, 1, n)
<1>1. Len(whole) = n /\ \A i \in 1..n : whole[i] = s[i]
  BY PrefixShape
<1>2. \A i \in 1..n : i \in 1..Len(s)
  BY LenProperties
<1> HIDE DEF whole
<1>3. Latest(whole, completed)
  BY <1>1, <1>2 DEF Latest
<1> QED BY <1>3 DEF whole

LEMMA FirstWrite ==
    ASSUME manifest = [exists |-> TRUE, lines |-> <<>>, torn |-> FALSE],
           NEW new \in Seq(ManifestRecord), NEW m \in Overwritten(new)
    PROVE  m = [exists |-> TRUE, lines |-> new, torn |-> FALSE]
<1>1. manifest.lines = <<>> /\ manifest.torn = FALSE
  OBVIOUS
<1>2. Len(new) \in Nat
  BY LenProperties
<1>3. new \o SubSeq(<<>>, Len(new) + 1, Len(<<>>)) = new
  BY <1>2
<1> QED BY <1>1, <1>3 DEF Overwritten

(* A bundle whose parts are in place replays.                              *)
LEMMA WholeBundleReplays ==
    ASSUME TypeInv, NEW a \in Artifact, decisionFile[SlotOf(a.rid)] = a,
           receiptFile[SlotOf(a.rid)] = a, manifest.exists, ~manifest.torn,
           EndsWith(manifest.lines, a), Latest(manifest.lines, completed), Reproduced(a)
    PROVE  ReplaysNow(SlotOf(a.rid))
<1> DEFINE n == Len(manifest.lines)
           active == ActiveOf(manifest.lines, a.rid)
<1>1. manifest.lines \in Seq(ManifestRecord) /\ n \in Nat /\ n \in 1..n
      /\ DOMAIN manifest.lines = 1..n
  <2>1. manifest.lines \in Seq(ManifestRecord)
    BY DEF TypeInv, TypeOK, Manifest
  <2> QED BY <2>1, LenProperties DEF EndsWith
<1>2. manifest.lines[n] = RecordOf(a, a, a)
  BY DEF EndsWith
<1>3. n \in active
  BY <1>1, <1>2 DEF ActiveOf, RecordOf
<1>4. \A i \in active : i = n
  BY <1>1, <1>2 DEF ActiveOf, RecordOf, Latest
<1>5. SiblingDecision(a.rid) = a
  BY ConstantsDistinct, ArtifactFields DEF SiblingDecision, SlotOf, IssueRids
<1>6. RecordMatches(manifest.lines[n], a, a, a)
  BY <1>2 DEF RecordMatches, RecordOf
<1>7. BundleIntact(a, a, a, manifest)
  BY <1>3, <1>4, <1>6 DEF BundleIntact
<1> QED BY <1>5, <1>7 DEF ReplaysNow

(* Steps of replayers and of editors leave all of this alone.              *)
LEMMA BystandersKeepIt ==
    ASSUME NEW p, SerialInv(p), TypeInv',
           UNCHANGED <<issued, crashes, files, manifest, issuerVars, completed>>
    PROVE  SerialInv(p)'
<1>1. /\ pc' = pc /\ art' = art /\ rawReceipt' = rawReceipt /\ rawDecision' = rawDecision
      /\ text' = text /\ outcome' = outcome
      /\ decisionFile' = decisionFile /\ receiptFile' = receiptFile
      /\ manifest' = manifest /\ completed' = completed /\ issued' = issued /\ crashes' = crashes
  BY DEF files, issuerVars
<1>2. SerialsInv' /\ LogInv(p)'
  BY <1>1 DEF SerialInv, SerialsInv, LogInv
<1>3. BundleInv(p)'
  BY <1>1 DEF SerialInv, BundleInv
<1>4. ManifestInv(p)'
  BY <1>1 DEF SerialInv, ManifestInv
<1> QED BY <1>2, <1>3, <1>4 DEF SerialInv

LEMMA EvaluateKeepsIt ==
    ASSUME NEW p \in Issuers, SerialInv(p), TypeInv', NEW d \in Drafts, NEW k \in Kinds,
           NEW v \in Contracts, Evaluate(p, d, k, v)
    PROVE  SerialInv(p)'
<1>1. /\ pc[p] = "idle" /\ pc'[p] = "openDecision" /\ outcome'[p] = "none"
      /\ art'[p].serial = issued + 1 /\ issued' = issued + 1
      /\ manifest' = manifest /\ completed' = completed /\ crashes' = crashes
  BY DEF Evaluate, Goto, SerialInv, TypeInv, TypeOK
<1>2. SerialsInv'
  <2>1. issued \in Nat /\ \A a \in completed : a.serial \in Nat
    BY BoundsAssumption, ArtifactFields DEF SerialInv, TypeInv, TypeOK
  <2> QED BY <1>1, <2>1 DEF SerialInv, SerialsInv
<1>3. BundleInv(p)' /\ ManifestInv(p)' /\ LogInv(p)'
  BY <1>1 DEF SerialInv, BundleInv, ManifestInv, LogInv, DecisionIsThere, ReceiptIsThere
<1> QED BY <1>2, <1>3 DEF SerialInv

(* Writing and reading back the decision and the receipt.                  *)
LEMMA FileStepsKeepIt ==
    ASSUME NEW p \in Issuers, SerialInv(p), TypeInv',
           \/ OpenDecision(p) \/ FillDecision(p) \/ OpenReceipt(p)
           \/ FillReceipt(p) \/ HashReceipt(p)
    PROVE  SerialInv(p)'
<1> DEFINE a == art[p]
           slot == SlotOf(a.rid)
<1>1. pc[p] # "idle" /\ outcome[p] # "issued" /\ a \in Artifact /\ slot \in Slots
      /\ a.serial = issued /\ Torn \notin Artifact
  <2>1. pc[p] # "idle"
    BY DEF OpenDecision, FillDecision, OpenReceipt, FillReceipt, HashReceipt
  <2>2. a \in Artifact
    BY <2>1 DEF SerialInv, TypeInv, ArtInHand
  <2> QED BY <2>1, <2>2, ArtifactFields, SlotType, ConstantsDistinct DEF SerialInv, BundleInv
<1>2. /\ manifest' = manifest /\ completed' = completed /\ issued' = issued /\ crashes' = crashes
      /\ art' = art /\ text' = text /\ outcome' = outcome
  BY DEF OpenDecision, FillDecision, OpenReceipt, FillReceipt, HashReceipt, world
<1>3. pc'[p] \in {"fillDecision", "openReceipt", "fillReceipt", "hashReceipt", "hashDecision"}
      /\ pc[p] \notin {"openManifest", "fillManifest"}
  BY DEF OpenDecision, FillDecision, OpenReceipt, FillReceipt, HashReceipt, Goto,
         SerialInv, TypeInv, TypeOK
<1>4. SerialsInv' /\ ManifestInv(p)' /\ LogInv(p)'
  BY <1>2, <1>3 DEF SerialInv, SerialsInv, ManifestInv, LogInv
<1>5. CASE OpenDecision(p)
  <2>1. decisionFile'[slot] = Torn /\ pc'[p] = "fillDecision"
    BY <1>1, <1>5 DEF OpenDecision, Goto, SerialInv, TypeInv, TypeOK
  <2> QED BY <1>1, <1>2, <1>4, <2>1
          DEF SerialInv, BundleInv, DecisionIsThere, ReceiptIsThere
<1>6. CASE FillDecision(p)
  <2>1. decisionFile'[slot] = a /\ pc'[p] = "openReceipt"
    BY <1>1, <1>6 DEF FillDecision, Written, Goto, SerialInv, BundleInv, TypeInv, TypeOK
  <2> QED BY <1>1, <1>2, <1>4, <2>1
          DEF SerialInv, BundleInv, DecisionIsThere, ReceiptIsThere
<1>7. CASE OpenReceipt(p)
  <2>1. decisionFile'[slot] = a /\ receiptFile'[slot] = Torn /\ pc'[p] = "fillReceipt"
    BY <1>1, <1>7 DEF OpenReceipt, Goto, SerialInv, BundleInv, DecisionIsThere, TypeInv, TypeOK
  <2> QED BY <1>1, <1>2, <1>4, <2>1
          DEF SerialInv, BundleInv, DecisionIsThere, ReceiptIsThere
<1>8. CASE FillReceipt(p)
  <2>1. decisionFile'[slot] = a /\ receiptFile'[slot] = a /\ pc'[p] = "hashReceipt"
    BY <1>1, <1>8 DEF FillReceipt, Written, Goto, SerialInv, BundleInv, DecisionIsThere,
                      TypeInv, TypeOK
  <2> QED BY <1>1, <1>2, <1>4, <2>1
          DEF SerialInv, BundleInv, DecisionIsThere, ReceiptIsThere
<1>9. CASE HashReceipt(p)
  <2>1. /\ decisionFile'[slot] = a /\ receiptFile'[slot] = a /\ rawReceipt'[p] = a
        /\ pc'[p] = "hashDecision"
    BY <1>1, <1>9 DEF HashReceipt, Goto, files, SerialInv, BundleInv, DecisionIsThere,
                      ReceiptIsThere, TypeInv, TypeOK
  <2> QED BY <1>1, <1>2, <1>4, <2>1
          DEF SerialInv, BundleInv, DecisionIsThere, ReceiptIsThere
<1> QED BY <1>5, <1>6, <1>7, <1>8, <1>9

LEMMA HashDecisionKeepsIt ==
    ASSUME NEW p \in Issuers, SerialInv(p), TypeInv', HashDecision(p)
    PROVE  SerialInv(p)'
<1> DEFINE a == art[p]
           slot == SlotOf(a.rid)
           r == RecordOf(a, a, a)
<1>1. /\ pc[p] = "hashDecision" /\ outcome[p] # "issued" /\ a \in Artifact
      /\ a.serial = issued /\ decisionFile[slot] = a /\ receiptFile[slot] = a
      /\ rawReceipt[p] = a
  BY DEF HashDecision, SerialInv, BundleInv, DecisionIsThere, ReceiptIsThere, TypeInv, ArtInHand
<1>2. /\ manifest' = manifest /\ completed' = completed /\ issued' = issued /\ crashes' = crashes
      /\ art' = art /\ outcome' = outcome /\ rawReceipt' = rawReceipt
      /\ decisionFile' = decisionFile /\ receiptFile' = receiptFile /\ rawDecision'[p] = a
  BY <1>1 DEF HashDecision, files, SerialInv, TypeInv, TypeOK
<1>3. \/ a.rid.purpose = "issue" /\ pc'[p] = "load"
      \/ a.rid.purpose # "issue" /\ pc'[p] = "openManifest" /\ text'[p] = <<r>>
  BY <1>1 DEF HashDecision, Goto, SerialInv, TypeInv, TypeOK
<1>4. SerialsInv' /\ BundleInv(p)'
  BY <1>1, <1>2, <1>3 DEF SerialInv, SerialsInv, BundleInv, DecisionIsThere, ReceiptIsThere
<1>5. EndsWith(<<r>>, a)
  <2> HIDE DEF r
  <2>1. Len(<<r>>) = 1 /\ <<r>>[1] = r
    OBVIOUS
  <2> QED BY <2>1 DEF EndsWith, r
<1>6. Latest(<<r>>, completed)
  <2>1. Len(<<r>>) = 1 /\ <<r>>[1] = r
    OBVIOUS
  <2>2. \A b \in completed : b.serial <= r.receiptCanonical.serial
    BY <1>1 DEF SerialInv, SerialsInv, RecordOf
  <2> HIDE DEF r
  <2>3. \A i \in 1..Len(<<r>>) : i = 1
    BY <2>1
  <2> QED BY <2>1, <2>2, <2>3 DEF Latest
<1>7. ManifestInv(p)' /\ LogInv(p)'
  BY <1>1, <1>2, <1>3, <1>5, <1>6 DEF SerialInv, ManifestInv, LogInv
<1> QED BY <1>4, <1>7 DEF SerialInv

LEMMA LoadKeepsIt ==
    ASSUME NEW p \in Issuers, SerialInv(p), TypeInv', RefuseDefective(p) \/ LoadManifest(p)
    PROVE  SerialInv(p)'
<1> DEFINE a == art[p]
           slot == SlotOf(a.rid)
           r == RecordOf(a, a, a)
<1>1. /\ pc[p] = "load" /\ outcome[p] # "issued" /\ a \in Artifact
      /\ a.serial = issued /\ decisionFile[slot] = a /\ receiptFile[slot] = a
      /\ rawReceipt[p] = a /\ rawDecision[p] = a
  BY DEF RefuseDefective, LoadManifest, SerialInv, BundleInv, DecisionIsThere, ReceiptIsThere,
         TypeInv, ArtInHand
<1>2. /\ manifest' = manifest /\ completed' = completed /\ issued' = issued /\ crashes' = crashes
      /\ art' = art /\ decisionFile' = decisionFile /\ receiptFile' = receiptFile
  BY DEF RefuseDefective, LoadManifest, files
<1>3. CASE RefuseDefective(p)
  <2>1. pc'[p] = "idle" /\ outcome'[p] = "refused"
    BY <1>3 DEF RefuseDefective, Goto, SerialInv, TypeInv, TypeOK
  <2> QED BY <1>1, <1>2, <2>1
          DEF SerialInv, SerialsInv, BundleInv, ManifestInv, LogInv, DecisionIsThere,
              ReceiptIsThere
<1>4. CASE LoadManifest(p)
  <2> DEFINE W == WithActiveRecord(manifest.lines, r)
             n == Len(manifest.lines)
  <2>1. pc'[p] = "openManifest" /\ outcome' = outcome /\ text'[p] = W /\ ~manifest.torn
    BY <1>1, <1>4 DEF LoadManifest, Goto, SerialInv, TypeInv, TypeOK
  <2>2. manifest.lines \in Seq(ManifestRecord) /\ r \in ManifestRecord
    BY <1>1, RecordType DEF SerialInv, TypeInv, TypeOK, Manifest, FileState
  <2>3. /\ r.status = "active" /\ r.receiptCanonical = a
        /\ \A b \in completed : b.serial <= r.receiptCanonical.serial
    BY <1>1 DEF SerialInv, SerialsInv, RecordOf
  <2> HIDE DEF r
  <2>4. /\ Len(W) = n + 1 /\ n \in Nat /\ W[n + 1] = r
        /\ \A i \in 1..n : W[i] = Supersede(manifest.lines[i], r)
    BY <2>2, WithActiveRecordShape, LenProperties
  <2>5. Latest(W, completed)
    BY <2>2, <2>3, ExtensionIsLatest DEF SerialInv, ManifestInv
  <2>6. EndsWith(W, a)
    BY <2>4 DEF EndsWith, r
  <2>7. Kept(manifest.lines, completed) => Kept(W, completed)
    <3>1. \A i \in 1..n : W[i].receiptCanonical = manifest.lines[i].receiptCanonical
                            /\ i \in 1..Len(W)
      <4>1. \A i \in 1..n : manifest.lines[i] \in ManifestRecord
        BY <2>2, ElementOfSeq
      <4>2. \A i \in 1..n : Supersede(manifest.lines[i], r).receiptCanonical
                              = manifest.lines[i].receiptCanonical
        BY <4>1 DEF Supersede, ManifestRecord
      <4> HIDE DEF W
      <4> QED BY <2>4, <4>2
    <3> HIDE DEF W
    <3> QED BY <3>1 DEF Kept
  <2> HIDE DEF W
  <2>8. SerialsInv' /\ BundleInv(p)'
    BY <1>1, <1>2, <2>1 DEF SerialInv, SerialsInv, BundleInv, DecisionIsThere, ReceiptIsThere
  <2>9. ManifestInv(p)' /\ LogInv(p)'
    BY <1>1, <1>2, <2>1, <2>5, <2>6, <2>7 DEF SerialInv, ManifestInv, LogInv
  <2> QED BY <2>8, <2>9 DEF SerialInv
<1> QED BY <1>3, <1>4

LEMMA OpenManifestKeepsIt ==
    ASSUME NEW p \in Issuers, SerialInv(p), TypeInv', OpenManifest(p)
    PROVE  SerialInv(p)'
<1>1. /\ pc[p] = "openManifest" /\ pc'[p] = "fillManifest"
      /\ manifest' = [exists |-> TRUE, lines |-> <<>>, torn |-> FALSE]
      /\ completed' = completed /\ issued' = issued /\ crashes' = crashes
      /\ art' = art /\ outcome' = outcome /\ text' = text
      /\ decisionFile' = decisionFile /\ receiptFile' = receiptFile
  BY DEF OpenManifest, Goto, files, SerialInv, TypeInv, TypeOK
<1>2. Latest(manifest'.lines, completed')
  BY <1>1 DEF Latest
<1>3. SerialsInv' /\ BundleInv(p)'
  BY <1>1 DEF SerialInv, SerialsInv, BundleInv, DecisionIsThere, ReceiptIsThere
<1>4. ManifestInv(p)' /\ LogInv(p)'
  BY <1>1, <1>2 DEF SerialInv, ManifestInv, LogInv
<1> QED BY <1>3, <1>4 DEF SerialInv

LEMMA FillManifestKeepsIt ==
    ASSUME NEW p \in Issuers, SerialInv(p), TypeInv', FillManifest(p)
    PROVE  SerialInv(p)'
<1> DEFINE a == art[p]
           slot == SlotOf(a.rid)
           t == text[p]
           n == Len(t)
<1>1. /\ pc[p] = "fillManifest" /\ a \in Artifact /\ a.serial = issued
      /\ decisionFile[slot] = a /\ receiptFile[slot] = a
      /\ EndsWith(t, a) /\ Latest(t, completed)
      /\ manifest = [exists |-> TRUE, lines |-> <<>>, torn |-> FALSE]
      /\ t \in Seq(ManifestRecord)
  BY DEF FillManifest, SerialInv, BundleInv, ManifestInv, DecisionIsThere, ReceiptIsThere,
         TypeInv, TypeOK, ArtInHand
<1>2. /\ pc'[p] = "idle" /\ outcome'[p] = "issued" /\ completed' = completed \cup {a}
      /\ issued' = issued /\ crashes' = crashes /\ art' = art
      /\ decisionFile' = decisionFile /\ receiptFile' = receiptFile
  BY DEF FillManifest, Goto, files, SerialInv, TypeInv, TypeOK
<1>3. manifest' = [exists |-> TRUE, lines |-> t, torn |-> FALSE]
  <2>1. manifest' \in Overwritten(t)
    BY DEF FillManifest
  <2> HIDE DEF t
  <2> QED BY <1>1, <2>1, FirstWrite
<1>4. n \in 1..n /\ t[n] = RecordOf(a, a, a)
  BY <1>1, LenProperties DEF EndsWith
<1>5. t[n].receiptCanonical = a /\ t[n].status = "active" /\ t[n].rid = a.rid
      /\ a.serial \in Nat
  BY <1>1, <1>4, ArtifactFields DEF RecordOf
<1> HIDE DEF t, a
<1>6. Latest(t, completed')
  <2>1. ASSUME NEW i \in 1..n, t[i].status = "active", NEW b \in completed', b.rid = t[i].rid
        PROVE  b.serial <= t[i].receiptCanonical.serial
    <3>1. CASE b \in completed
      BY <1>1, <2>1, <3>1 DEF Latest
    <3>2. CASE b = a
      <4>1. i = n
        BY <1>1, <1>4, <1>5, <2>1, <3>2 DEF Latest
      <4> QED BY <1>5, <3>2, <4>1
    <3> QED BY <1>2, <2>1, <3>1, <3>2
  <2> QED BY <1>1, <2>1 DEF Latest
<1>7. Kept(t, completed) => Kept(t, completed')
  BY <1>2, <1>4, <1>5 DEF Kept
<1>8. SerialsInv'
  BY <1>1, <1>2, <1>5 DEF SerialInv, SerialsInv
<1>9. BundleInv(p)'
  BY <1>1, <1>2, <1>3 DEF BundleInv, DecisionIsThere, ReceiptIsThere, a, t
<1>10. ManifestInv(p)'
  BY <1>2, <1>3, <1>6 DEF ManifestInv
<1>11. LogInv(p)'
  <2> SUFFICES ASSUME crashes = 0, \A b \in completed' : b.rid.purpose = "issue"
               PROVE  Kept(t, completed')
    BY <1>2, <1>3 DEF LogInv
  <2>1. a.rid.purpose = "issue" /\ \A b \in completed : b.rid.purpose = "issue"
    BY <1>2
  <2>2. Kept(t, completed)
    BY <1>1, <2>1 DEF SerialInv, LogInv, a, t
  <2> QED BY <1>7, <2>2
<1> QED BY <1>8, <1>9, <1>10, <1>11 DEF SerialInv

LEMMA DieKeepsIt ==
    ASSUME NEW p \in Issuers, SerialInv(p), TypeInv', Die(p)
    PROVE  SerialInv(p)'
<1>1. /\ pc[p] # "idle" /\ pc'[p] = "idle" /\ outcome'[p] = "died" /\ crashes' # 0
      /\ completed' = completed /\ issued' = issued /\ art' = art
  BY BoundsAssumption DEF Die, Goto, SerialInv, TypeInv, TypeOK
<1>2. Latest(manifest'.lines, completed)
  <2>1. CASE UNCHANGED manifest
    BY <2>1 DEF SerialInv, ManifestInv
  <2>2. CASE /\ pc[p] = "fillManifest"
             /\ \E n \in 0..Len(text[p]) - 1 :
                  LET whole == SubSeq(text[p], 1, n) IN
                  manifest' \in Overwritten(whole)
                        \cup {[exists |-> TRUE, lines |-> whole, torn |-> TRUE]}
    <3>1. PICK n \in 0..Len(text[p]) - 1 :
             \/ manifest' \in Overwritten(SubSeq(text[p], 1, n))
             \/ manifest' = [exists |-> TRUE, lines |-> SubSeq(text[p], 1, n),
                             torn |-> TRUE]
      BY <2>2
    <3> DEFINE whole == SubSeq(text[p], 1, n)
    <3>2. text[p] \in Seq(ManifestRecord) /\ Len(text[p]) \in Nat
      BY LenProperties DEF SerialInv, TypeInv, TypeOK
    <3>3. n \in 0..Len(text[p])
      BY <3>2
    <3>4. Latest(text[p], completed)
          /\ manifest = [exists |-> TRUE, lines |-> <<>>, torn |-> FALSE]
      BY <2>2 DEF SerialInv, ManifestInv
    <3>5. Latest(whole, completed) /\ whole \in Seq(ManifestRecord)
      BY <3>2, <3>3, <3>4, PrefixIsLatest, PrefixShape
    <3> HIDE DEF whole
    <3>6. CASE manifest' \in Overwritten(whole)
      BY <3>4, <3>5, <3>6, FirstWrite
    <3>7. CASE manifest' = [exists |-> TRUE, lines |-> whole, torn |-> TRUE]
      BY <3>5, <3>7
    <3> QED BY <3>1, <3>6, <3>7 DEF whole
  <2> QED BY <2>1, <2>2 DEF Die
<1>3. SerialsInv' /\ BundleInv(p)' /\ ManifestInv(p)' /\ LogInv(p)'
  BY <1>1, <1>2 DEF SerialInv, SerialsInv, BundleInv, ManifestInv, LogInv, DecisionIsThere,
                    ReceiptIsThere
<1> QED BY <1>3 DEF SerialInv

LEMMA InitSerial ==
    ASSUME NEW p \in Issuers, Init
    PROVE  SerialInv(p)
<1>1. TypeInv
  BY InitType
<1>2. /\ pc[p] = "idle" /\ outcome[p] = "none" /\ completed = {} /\ manifest.lines = <<>>
  BY DEF Init, EmptyManifest
<1>3. SerialsInv /\ BundleInv(p) /\ ManifestInv(p) /\ LogInv(p)
  BY <1>2 DEF SerialsInv, BundleInv, ManifestInv, LogInv, Latest, Kept, DecisionIsThere,
              ReceiptIsThere
<1> QED BY <1>1, <1>3 DEF SerialInv

LEMMA NextSerial ==
    ASSUME NEW p, Issuers = {p}, SerialInv(p), [Next]_vars
    PROVE  SerialInv(p)'
<1>1. TypeInv' /\ p \in Issuers
  BY NextType DEF SerialInv
<1>2. CASE \/ UNCHANGED vars
           \/ \E d \in Drafts, c \in Contents : EditContent(d, c)
           \/ \E q \in Replayers, s \in Slots : ReadReceipt(q, s)
           \/ \E q \in Replayers :
                EvaluateFresh(q) \/ ReadDecision(q) \/ ReadManifest(q) \/ FinishReplay(q)
  <2>1. UNCHANGED <<issued, crashes, files, manifest, issuerVars, completed>>
    BY <1>2 DEF vars, EditContent, ReadReceipt, EvaluateFresh, ReadDecision, ReadManifest,
                FinishReplay, files, issuerVars
  <2> QED BY <1>1, <2>1, BystandersKeepIt
<1>3. CASE \E d \in Drafts, k \in Kinds, v \in Contracts : Evaluate(p, d, k, v)
  BY <1>1, <1>3, EvaluateKeepsIt
<1>4. CASE WriteStep(p)
  <2>1. CASE \/ OpenDecision(p) \/ FillDecision(p) \/ OpenReceipt(p)
             \/ FillReceipt(p) \/ HashReceipt(p)
    BY <1>1, <2>1, FileStepsKeepIt
  <2>2. CASE HashDecision(p)
    BY <1>1, <2>2, HashDecisionKeepsIt
  <2>3. CASE RefuseDefective(p) \/ LoadManifest(p)
    BY <1>1, <2>3, LoadKeepsIt
  <2>4. CASE OpenManifest(p)
    BY <1>1, <2>4, OpenManifestKeepsIt
  <2>5. CASE FillManifest(p)
    BY <1>1, <2>5, FillManifestKeepsIt
  <2> QED BY <1>4, <2>1, <2>2, <2>3, <2>4, <2>5 DEF WriteStep
<1>5. CASE Die(p)
  BY <1>1, <1>5, DieKeepsIt
<1>6. \/ UNCHANGED vars
      \/ \E d \in Drafts, c \in Contents : EditContent(d, c)
      \/ \E d \in Drafts, k \in Kinds, v \in Contracts : Evaluate(p, d, k, v)
      \/ WriteStep(p) \/ Die(p)
      \/ \E q \in Replayers, s \in Slots : ReadReceipt(q, s)
      \/ \E q \in Replayers :
           EvaluateFresh(q) \/ ReadDecision(q) \/ ReadManifest(q) \/ FinishReplay(q)
  BY DEF Next
<1> QED BY <1>2, <1>3, <1>4, <1>5, <1>6

LEMMA SpecSerial ==
    ASSUME NEW p, Issuers = {p}
    PROVE  Spec => []SerialInv(p)
<1>1. Init => SerialInv(p)
  BY InitSerial
<1>2. SerialInv(p) /\ [Next]_vars => SerialInv(p)'
  BY NextSerial
<1> QED BY <1>1, <1>2, PTL DEF Spec

(* With one issuer at a time, whatever it does and whenever it dies, an    *)
(* active record is the only one of its id, and of the newest finished     *)
(* run of it.                                                              *)
THEOREM ActiveRecordIsLatest ==
    ASSUME NEW p, Issuers = {p}
    PROVE  Spec => []ActiveIsLatest
<1>1. ASSUME SerialInv(p) PROVE ActiveIsLatest
  <2>1. DOMAIN manifest.lines = 1..Len(manifest.lines)
    <3>1. manifest.lines \in Seq(ManifestRecord)
      BY <1>1 DEF SerialInv, TypeInv, TypeOK, Manifest
    <3> QED BY <3>1, LenProperties
  <2>2. Latest(manifest.lines, completed)
    BY <1>1 DEF SerialInv, ManifestInv
  <2> QED BY <2>1, <2>2 DEF ActiveIsLatest, ActiveOf, Latest
<1> QED BY <1>1, SpecSerial, PTL

(* With one issuer at a time, a bundle replays from the moment its command *)
(* returns success, as long as its draft is as it was.                     *)
THEOREM FinishedBundlesReplay ==
    ASSUME NEW p, Issuers = {p}
    PROVE  Spec => []FinishedBundleReplays
<1>1. ASSUME SerialInv(p) PROVE FinishedBundleReplays
  <2> SUFFICES ASSUME outcome[p] = "issued", Reproduced(art[p])
               PROVE  ReplaysNow(SlotOf(art[p].rid))
    BY DEF FinishedBundleReplays
  <2>1. /\ art[p] \in Artifact /\ decisionFile[SlotOf(art[p].rid)] = art[p]
        /\ receiptFile[SlotOf(art[p].rid)] = art[p]
        /\ manifest.exists /\ ~manifest.torn /\ EndsWith(manifest.lines, art[p])
        /\ Latest(manifest.lines, completed) /\ TypeInv
    BY <1>1 DEF SerialInv, BundleInv, ManifestInv
  <2> QED BY <2>1, WholeBundleReplays
<1> QED BY <1>1, SpecSerial, PTL

(* One issuer at a time that runs `receipt issue` and never dies keeps a   *)
(* record of each finished issue.                                          *)
THEOREM TheLogIsKept ==
    ASSUME NEW p, Issuers = {p}
    PROVE  Spec => []IssuesKeepTheLog
<1>1. ASSUME SerialInv(p) PROVE IssuesKeepTheLog
  <2> SUFFICES ASSUME crashes = 0, \A a \in completed : a.rid.purpose = "issue",
                      pc[p] # "fillManifest", NEW a \in completed
               PROVE  \E i \in DOMAIN manifest.lines : manifest.lines[i].receiptCanonical = a
    <3>1. completed \subseteq Artifact
      BY <1>1 DEF SerialInv, TypeInv, TypeOK
    <3> QED BY <3>1 DEF IssuesKeepTheLog, KeepsTheLog
  <2>1. manifest.lines \in Seq(ManifestRecord)
    BY <1>1 DEF SerialInv, TypeInv, TypeOK, Manifest
  <2>2. Kept(manifest.lines, completed)
    BY <1>1 DEF SerialInv, LogInv
  <2> QED BY <2>1, <2>2, LenProperties DEF Kept
<1> QED BY <1>1, SpecSerial, PTL

(* With one issuer at a time, no `receipt issue` writes to a manifest with *)
(* a broken line: only the gate bundle, which replaces it, does.           *)
THEOREM TornManifestsAreKept ==
    ASSUME NEW self, Issuers = {self}
    PROVE  Spec => TornManifestIsKept
<1> DEFINE Kind == manifest.torn =>
                     \/ UNCHANGED manifest
                     \/ \E p \in Issuers : OpenManifest(p) /\ art[p].rid.purpose = "gate"
<1>1. SerialInv(self) /\ [Next]_vars => [Kind]_vars
  <2> SUFFICES ASSUME SerialInv(self), [Next]_vars, manifest.torn, manifest' # manifest
               PROVE  OpenManifest(self) /\ art[self].rid.purpose = "gate"
    OBVIOUS
  <2>1. pc[self] # "fillManifest"
    BY DEF SerialInv, ManifestInv
  <2>2. OpenManifest(self)
    BY <2>1 DEF Next, vars, EditContent, Evaluate, WriteStep, OpenDecision, FillDecision,
          OpenReceipt, FillReceipt, HashReceipt, HashDecision, RefuseDefective, LoadManifest,
          FillManifest, Die, ReadReceipt, EvaluateFresh, ReadDecision, ReadManifest, FinishReplay
  <2>3. pc[self] = "openManifest"
    BY <2>2 DEF OpenManifest
  <2>4. art[self].rid.purpose # "issue"
    BY <2>3 DEF SerialInv, ManifestInv
  <2>5. art[self].rid.purpose \in {"issue", "gate"}
    BY <2>3, ArtifactFields, KindsAssumption DEF SerialInv, TypeInv, ArtInHand, Rids
  <2> QED BY <2>2, <2>4, <2>5
<1>2. Init => SerialInv(self)
  BY InitSerial
<1>3. SerialInv(self) /\ [Next]_vars => SerialInv(self)'
  BY NextSerial
<1>4. Spec => [][Kind]_vars
  <2> HIDE DEF Kind
  <2> QED BY <1>1, <1>2, <1>3, PTL DEF Spec
<1> QED BY <1>4 DEF TornManifestIsKept

=============================================================================
