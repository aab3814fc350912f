------------------------ MODULE VerifiedIntentProofs ------------------------
(***************************************************************************)
(* What VerifiedIntent promises, for every registry, consumer, set of      *)
(* drafts, environments and exporters, and every bound.                    *)
(*                                                                         *)
(* Two things are argued apart.  What the files and a handoff check hold,  *)
(* whoever wrote, cut short or edited them: the inductive invariant IInv,  *)
(* and from it the refinement of HandoffPromise, step by step.  And what   *)
(* the judgement says of a draft, a matter of operators alone: what is     *)
(* exported is described as it was judged, and judged as if it had been    *)
(* written with canonical names.                                           *)
(***************************************************************************)
EXTENDS VerifiedIntent, SequenceTheorems, TLAPS

(* Bodies of packets that some export, as it is or reworded, has made. *)
ExportBodies == {b \in Bodies : <<b.draft, b.env>> \in Exports}

Projections == [draft : Drafts, env : Environments, body : ExportBodies]

(* Hands make a receipt's projection again when they change it. *)
Receipts ==
    {r \in [draft : Drafts, env : Environments, body : ExportBodies, proj : Projections] :
        r.proj = StableProjection(r)}

Packets == [body : ExportBodies, proj : Projections]

Seen == [Names \ {"manifest"} -> Packets \cup Receipts \cup {Missing, Torn}]

Manifests == [raw : Seen, receipt : Receipts, decision : Receipts, packet : ExportBodies]

Contents == Packets \cup Receipts \cup Manifests \cup {Missing, Torn}

(* A file that can be read holds something of its own kind. *)
FilesHoldTheirKind(D) ==
    /\ D \in [Names -> Contents]
    /\ Readable(D["packet"]) => D["packet"] \in Packets
    /\ Readable(D["receipt"]) => D["receipt"] \in Receipts
    /\ Readable(D["decision"]) => D["decision"] \in Receipts
    /\ Readable(D["manifest"]) => D["manifest"] \in Manifests

(* A manifest is written by an export that is finished then; after that    *)
(* only hands can put another packet's hash into it, a reworded one.       *)
OfFinished(m, F) == ~m.packet.reworded => <<m.packet.draft, m.packet.env>> \in F

ManifestIsOfFinished == Readable(dir.manifest) => OfFinished(dir.manifest, finished)

(* An exporter that is at work has an export to write. *)
ExporterStates ==
    [at : {"idle", "write", "read", "manifest"}, k : 0..4, open : BOOLEAN,
     draft : Drafts \cup {None}, env : Environments \cup {None}, seen : Seen, alone : BOOLEAN]

AtWork(e) ==
    /\ e.at # "idle" => <<e.draft, e.env>> \in Exports
    /\ e.at \in {"write", "read"} => e.k \in 1..3

(* The stages of a handoff check, and those that follow its agreements. *)
AfterSidecar == {"decision", "manifest", "bytes", "accepted"}
AfterJudge == {"sidecar"} \cup AfterSidecar
AfterReceipt == {"replay", "judge"} \cup AfterJudge
Stages == {"idle", "packet", "receipt", "refused"} \cup AfterReceipt

Slots == {"packet", "receipt", "sidecar", "decision", "manifest"}

Jobs == [at : Stages, read : [Slots -> Contents], draft : Drafts \cup {None}]

(* What a check j knows of the files it has read, of which those read at   *)
(* different times have been found to agree.  F are the finished exports.  *)
Knows(j, F) ==
    /\ j.at \in {"receipt"} \cup AfterReceipt => j.read["packet"] \in Packets
    /\ j.at \in AfterReceipt =>
          /\ j.read["receipt"] \in Receipts
          /\ j.read["packet"].body = j.read["receipt"].body
          /\ j.read["packet"].proj = j.read["receipt"].proj
    /\ j.at \in AfterJudge => j.read["receipt"] = Receipt(j.draft, j.read["receipt"].env)
    /\ j.at \in AfterSidecar => j.read["sidecar"].body = j.read["receipt"].body
    /\ j.at = "bytes" => OfFinished(j.read["manifest"], F)
    /\ j.at = "accepted" => <<j.draft, j.read["receipt"].env>> \in F

IInv ==
    /\ draft \in Drafts
    /\ FilesHoldTheirKind(dir) /\ ManifestIsOfFinished
    /\ Readable(dir.manifest) => finished # {}
    /\ exporters \in [Exporters -> ExporterStates]
    /\ \A x \in Exporters : AtWork(exporters[x])
    /\ job \in Jobs /\ Knows(job, finished)
    /\ finished \subseteq Exports
    /\ whole \in BOOLEAN

-----------------------------------------------------------------------------
(*                     Lemmas about what an export makes                   *)

LEMMA ExportsAre ==
    ASSUME NEW d, NEW env, <<d, env>> \in Exports
    PROVE  d \in Drafts /\ env \in Environments
BY DEF Exports, Where

LEMMA ReceiptIs ==
    ASSUME NEW d, NEW env
    PROVE  Receipt(d, env) = [draft |-> d, env |-> env, body |-> Body(d, env),
                              proj |-> [draft |-> d, env |-> env, body |-> Body(d, env)]]
<1> DEFINE gate == [draft |-> d, env |-> env, body |-> Missing,
                    proj |-> [draft |-> d, env |-> env, body |-> Missing]]
           bound == [draft |-> d, env |-> env, body |-> Body(d, env),
                     proj |-> [draft |-> d, env |-> env, body |-> Missing]]
<1>1. GateReceipt(d, env) = gate
  BY DEF GateReceipt, StableProjection
<1>2. [gate EXCEPT !.body = Body(d, env)] = bound
  OBVIOUS
<1>3. Receipt(d, env) = [bound EXCEPT !.proj = StableProjection(bound)]
  BY <1>1, <1>2 DEF Receipt, Attach
<1> QED BY <1>3 DEF StableProjection

LEMMA ExportMakes ==
    ASSUME NEW d, NEW env, <<d, env>> \in Exports
    PROVE  /\ Body(d, env) \in ExportBodies /\ ~Body(d, env).reworded
           /\ Body(d, env).draft = d /\ Body(d, env).env = env
           /\ Receipt(d, env) \in Receipts
           /\ Packet(d, env) \in Packets
<1>1. d \in Drafts /\ env \in Environments
  BY ExportsAre
<1>2. Body(d, env) = [draft |-> d, env |-> env, reworded |-> FALSE]
  BY DEF Body
<1>3. Body(d, env) \in ExportBodies
  BY <1>1, <1>2 DEF ExportBodies, Bodies
<1> HIDE DEF Body
<1>4. [draft |-> d, env |-> env, body |-> Body(d, env)] \in Projections
  BY <1>1, <1>3 DEF Projections
<1>5. Receipt(d, env) \in Receipts
  BY <1>1, <1>3, <1>4, ReceiptIs DEF Receipts, StableProjection
<1>6. Packet(d, env) \in Packets
  BY <1>3, <1>4, ReceiptIs DEF Packets, Packet
<1> QED BY <1>2, <1>3, <1>5, <1>6

(* Rewording a body changes nothing it names. *)
LEMMA RewordedBody ==
    ASSUME NEW b \in ExportBodies
    PROVE  Reword(b) \in ExportBodies /\ Reword(b).reworded
<1>0. b \in [draft : Drafts, env : Environments, reworded : BOOLEAN]
  BY DEF ExportBodies, Bodies
<1>1. Reword(b) \in [draft : Drafts, env : Environments, reworded : BOOLEAN]
  BY <1>0 DEF Reword
<1>2. Reword(b).draft = b.draft /\ Reword(b).env = b.env /\ Reword(b).reworded
  BY <1>0 DEF Reword
<1> QED BY <1>1, <1>2 DEF ExportBodies, Bodies

LEMMA RewordedReceipt ==
    ASSUME NEW r \in Receipts
    PROVE  RewordReceipt(r) \in Receipts
<1> DEFINE b == Reword(r.body)
<1>1. r.draft \in Drafts /\ r.env \in Environments /\ b \in ExportBodies
  BY RewordedBody DEF Receipts
<1>2. RewordReceipt(r) = [draft |-> r.draft, env |-> r.env, body |-> b,
                          proj |-> [draft |-> r.draft, env |-> r.env, body |-> b]]
  <2>1. r \in [draft : Drafts, env : Environments, body : ExportBodies, proj : Projections]
    BY DEF Receipts
  <2> DEFINE bound == [draft |-> r.draft, env |-> r.env, body |-> b, proj |-> r.proj]
  <2>2. [r EXCEPT !.body = b] = bound
    BY <2>1
  <2>3. RewordReceipt(r) = [bound EXCEPT !.proj = StableProjection(bound)]
    BY <2>2 DEF RewordReceipt, Attach
  <2> QED BY <2>3 DEF StableProjection
<1> HIDE DEF b
<1>3. [draft |-> r.draft, env |-> r.env, body |-> b] \in Projections
  BY <1>1 DEF Projections
<1> QED BY <1>1, <1>2, <1>3 DEF Receipts, StableProjection

LEMMA KnowsMore ==
    ASSUME NEW j, NEW F, NEW G, F \subseteq G, Knows(j, F)
    PROVE  Knows(j, G)
BY DEF Knows, OfFinished

-----------------------------------------------------------------------------
LEMMA IdleIs == Idle \in ExporterStates /\ AtWork(Idle)
<1>1. Nothing \in Seen
  BY DEF Nothing, Seen
<1> HIDE DEF Nothing
<1> QED BY <1>1 DEF Idle, ExporterStates, AtWork

LEMMA InitIInv == Init => IInv
<1> SUFFICES ASSUME Init PROVE IInv
  OBVIOUS
<1>1. NoJob \in Jobs /\ Knows(NoJob, finished)
  <2>1. NotRead \in [Slots -> Contents]
    BY DEF NotRead, Slots, Contents
  <2> HIDE DEF NotRead
  <2>2. NoJob \in Jobs
    BY <2>1 DEF NoJob, Jobs, Stages
  <2>3. NoJob.at = "idle"
    BY DEF NoJob
  <2> QED BY <2>2, <2>3 DEF Knows, AfterReceipt, AfterJudge, AfterSidecar
<1>2. FilesHoldTheirKind(dir) /\ ~Readable(dir.manifest)
  BY DEF Init, FilesHoldTheirKind, Names, Contents, Readable
<1> QED BY <1>1, <1>2, IdleIs DEF Init, IInv, ManifestIsOfFinished

-----------------------------------------------------------------------------
(*                          The check reads on                             *)

LEMMA RefusedJob ==
    ASSUME NEW F
    PROVE  LET j == [NoJob EXCEPT !.at = "refused"]
           IN  j \in Jobs /\ j.at = "refused" /\ Knows(j, F)
<1> DEFINE j == [at |-> "refused", read |-> NotRead, draft |-> None]
<1>1. [NoJob EXCEPT !.at = "refused"] = j
  BY DEF NoJob
<1>2. NotRead \in [Slots -> Contents]
  BY DEF NotRead, Slots, Contents
<1>3. j \in Jobs
  BY <1>2 DEF Jobs, Stages
<1> QED BY <1>1, <1>3 DEF Knows, AfterReceipt, AfterJudge, AfterSidecar

(* A check that goes on has read one file more. *)
LEMMA ReadsOn ==
    ASSUME job \in Jobs, NEW next \in Stages, NEW slot \in Slots, NEW content \in Contents,
           job' = [job EXCEPT !.at = next, !.read[slot] = content]
    PROVE  /\ job' \in Jobs /\ job'.at = next /\ job'.draft = job.draft
           /\ job'.read[slot] = content
           /\ \A f \in Slots \ {slot} : job'.read[f] = job.read[f]
<1>1. job.read \in [Slots -> Contents]
  BY DEF Jobs
<1>2. job' = [at |-> next, read |-> [job.read EXCEPT ![slot] = content], draft |-> job.draft]
  BY DEF Jobs
<1>3. [job.read EXCEPT ![slot] = content] \in [Slots -> Contents]
  BY <1>1
<1>4. job' \in Jobs
  BY <1>2, <1>3 DEF Jobs
<1> QED BY <1>1, <1>2, <1>4

HandoffSteps == StartHandoff \/ Check

(* A check changes nothing but itself. *)
LEMMA HandoffLeaves ==
    ASSUME HandoffSteps
    PROVE  UNCHANGED <<draft, dir, exporters, finished, whole, used>>
BY DEF HandoffSteps, StartHandoff, Check, ReadPacket, ReadReceipt, ReplayReceipt, JudgeDraft,
       ReadSidecar, ReadDecision, ReadManifest, ReadReceiptBytes

LEMMA DirIs ==
    ASSUME IInv
    PROVE  /\ dir.packet \in Contents /\ dir.receipt \in Contents
           /\ dir.decision \in Contents /\ dir.manifest \in Contents
           /\ Readable(dir.packet) => dir.packet \in Packets
           /\ Readable(dir.receipt) => dir.receipt \in Receipts
           /\ Readable(dir.decision) => dir.decision \in Receipts
           /\ Readable(dir.manifest) => dir.manifest \in Manifests /\ OfFinished(dir.manifest, finished)
BY DEF IInv, FilesHoldTheirKind, ManifestIsOfFinished, Names

(* A receipt with its projection made of it: equal projections, equal      *)
(* receipts.                                                               *)
LEMMA ProjectionDecides ==
    ASSUME NEW r \in Receipts, NEW q \in Receipts, r.proj = q.proj
    PROVE  r.body = q.body /\ r.draft = q.draft /\ r.env = q.env
BY DEF Receipts, StableProjection

LEMMA ReadPacketKnows ==
    ASSUME IInv, ReadPacket
    PROVE  job' \in Jobs /\ Knows(job', finished)
<1>1. CASE Readable(dir.packet) /\ job' = [job EXCEPT !.at = "receipt", !.read["packet"] = dir.packet]
  <2>1. job' \in Jobs /\ job'.at = "receipt" /\ job'.read["packet"] = dir.packet
    BY <1>1, ReadsOn, DirIs DEF IInv, Slots, Stages
  <2> QED BY <1>1, <2>1, DirIs DEF Knows, AfterReceipt, AfterJudge, AfterSidecar
<1>2. CASE job' = [NoJob EXCEPT !.at = "refused"]
  BY <1>2, RefusedJob
<1> QED BY <1>1, <1>2 DEF ReadPacket, Go

LEMMA ReadReceiptKnows ==
    ASSUME IInv, ReadReceipt
    PROVE  job' \in Jobs /\ Knows(job', finished)
<1>1. CASE /\ Readable(dir.receipt) /\ Linked(job.read.packet, dir.receipt)
           /\ job' = [job EXCEPT !.at = "replay", !.read["receipt"] = dir.receipt]
  <2>1. /\ job' \in Jobs /\ job'.at = "replay" /\ job'.read["receipt"] = dir.receipt
        /\ job'.read["packet"] = job.read["packet"]
    BY <1>1, ReadsOn, DirIs DEF IInv, Slots, Stages, AfterReceipt
  <2>2. job.read["packet"] \in Packets
    BY DEF ReadReceipt, IInv, Knows
  <2> QED BY <1>1, <2>1, <2>2, DirIs DEF Linked, Knows, AfterReceipt, AfterJudge, AfterSidecar
<1>2. CASE job' = [NoJob EXCEPT !.at = "refused"]
  BY <1>2, RefusedJob
<1> QED BY <1>1, <1>2 DEF ReadReceipt, Go

LEMMA ReplayReceiptKnows ==
    ASSUME IInv, ReplayReceipt
    PROVE  job' \in Jobs /\ Knows(job', finished)
<1>1. CASE /\ Readable(dir.receipt) /\ dir.receipt.proj = job.read.receipt.proj
           /\ job' = [job EXCEPT !.at = "judge", !.read["receipt"] = dir.receipt]
  <2>1. /\ job' \in Jobs /\ job'.at = "judge" /\ job'.read["receipt"] = dir.receipt
        /\ job'.read["packet"] = job.read["packet"]
    BY <1>1, ReadsOn, DirIs DEF IInv, Slots, Stages, AfterReceipt
  <2>2. /\ job.read["packet"] \in Packets /\ job.read["receipt"] \in Receipts
        /\ job.read["packet"].body = job.read["receipt"].body
        /\ job.read["packet"].proj = job.read["receipt"].proj
    BY DEF ReplayReceipt, IInv, Knows, AfterReceipt
  <2>3. dir.receipt.body = job.read["receipt"].body
    BY <1>1, <2>2, DirIs, ProjectionDecides
  <2> QED BY <1>1, <2>1, <2>2, <2>3, DirIs DEF Knows, AfterReceipt, AfterJudge, AfterSidecar
<1>2. CASE job' = [NoJob EXCEPT !.at = "refused"]
  BY <1>2, RefusedJob
<1> QED BY <1>1, <1>2 DEF ReplayReceipt, Go

LEMMA JudgeDraftKnows ==
    ASSUME IInv, JudgeDraft
    PROVE  job' \in Jobs /\ Knows(job', finished)
<1>1. CASE Replays(job.read.receipt, draft)
  <2> DEFINE r == job.read["receipt"]
  <2>1. job \in Jobs /\ job.at = "judge" /\ draft \in Drafts
    BY DEF JudgeDraft, IInv
  <2>2. job' = [at |-> "sidecar", read |-> job.read, draft |-> draft]
    BY <1>1, <2>1 DEF JudgeDraft, Jobs
  <2>3. job' \in Jobs
    BY <2>1, <2>2 DEF Jobs, Stages, AfterReceipt, AfterJudge
  <2>4. r = Receipt(draft, r.env)
    BY <1>1 DEF Replays, Receipt
  <2>5. /\ job.read["packet"] \in Packets /\ r \in Receipts
        /\ job.read["packet"].body = r.body /\ job.read["packet"].proj = r.proj
    BY <2>1 DEF IInv, Knows, AfterReceipt
  <2> HIDE DEF r
  <2>6. /\ job'.at = "sidecar" /\ job'.draft = draft /\ job'.read["receipt"] = r
        /\ job'.read["packet"] = job.read["packet"]
    BY <2>2 DEF r
  <2> QED BY <2>3, <2>4, <2>5, <2>6 DEF Knows, AfterReceipt, AfterJudge, AfterSidecar
<1>2. CASE ~Replays(job.read.receipt, draft)
  BY <1>2, RefusedJob DEF JudgeDraft
<1> QED BY <1>1, <1>2

(* What stands of a check from its judgement of the draft on. *)
LEMMA JudgedStands ==
    ASSUME IInv, job.at \in AfterJudge,
           job' \in Jobs, job'.at \in AfterJudge, job'.draft = job.draft,
           job'.read["packet"] = job.read["packet"], job'.read["receipt"] = job.read["receipt"]
    PROVE  /\ job'.read["packet"] \in Packets /\ job'.read["receipt"] \in Receipts
           /\ job'.read["packet"].body = job'.read["receipt"].body
           /\ job'.read["packet"].proj = job'.read["receipt"].proj
           /\ job'.read["receipt"] = Receipt(job'.draft, job'.read["receipt"].env)
BY DEF IInv, Knows, AfterReceipt

LEMMA ReadSidecarKnows ==
    ASSUME IInv, ReadSidecar
    PROVE  job' \in Jobs /\ Knows(job', finished)
<1>1. CASE /\ Readable(dir.packet) /\ dir.packet.body = job.read.receipt.body
           /\ job' = [job EXCEPT !.at = "decision", !.read["sidecar"] = dir.packet]
  <2>1. /\ job' \in Jobs /\ job'.at = "decision" /\ job'.read["sidecar"] = dir.packet
        /\ job'.read["packet"] = job.read["packet"] /\ job'.read["receipt"] = job.read["receipt"]
        /\ job'.draft = job.draft
    BY <1>1, ReadsOn, DirIs DEF IInv, Slots, Stages, AfterReceipt, AfterJudge, AfterSidecar
  <2> QED BY <1>1, <2>1, JudgedStands DEF ReadSidecar, Knows, AfterReceipt, AfterJudge, AfterSidecar
<1>2. CASE job' = [NoJob EXCEPT !.at = "refused"]
  BY <1>2, RefusedJob
<1> QED BY <1>1, <1>2 DEF ReadSidecar, Go

LEMMA ReadDecisionKnows ==
    ASSUME IInv, ReadDecision
    PROVE  job' \in Jobs /\ Knows(job', finished)
<1>1. CASE /\ Readable(dir.decision)
           /\ job' = [job EXCEPT !.at = "manifest", !.read["decision"] = dir.decision]
  <2>1. /\ job' \in Jobs /\ job'.at = "manifest" /\ job'.read["sidecar"] = job.read["sidecar"]
        /\ job'.read["packet"] = job.read["packet"] /\ job'.read["receipt"] = job.read["receipt"]
        /\ job'.draft = job.draft
    BY <1>1, ReadsOn, DirIs DEF IInv, Slots, Stages, AfterReceipt, AfterJudge, AfterSidecar
  <2>2. job.read["sidecar"].body = job.read["receipt"].body
    BY DEF ReadDecision, IInv, Knows, AfterSidecar
  <2> QED BY <1>1, <2>1, <2>2, JudgedStands DEF ReadDecision, Knows, AfterReceipt, AfterJudge, AfterSidecar
<1>2. CASE job' = [NoJob EXCEPT !.at = "refused"]
  BY <1>2, RefusedJob
<1> QED BY <1>1, <1>2 DEF ReadDecision, Go

LEMMA ReadManifestKnows ==
    ASSUME IInv, ReadManifest
    PROVE  job' \in Jobs /\ Knows(job', finished)
<1>1. CASE /\ Readable(dir.manifest)
           /\ job' = [job EXCEPT !.at = "bytes", !.read["manifest"] = dir.manifest]
  <2>1. /\ job' \in Jobs /\ job'.at = "bytes" /\ job'.read["sidecar"] = job.read["sidecar"]
        /\ job'.read["packet"] = job.read["packet"] /\ job'.read["receipt"] = job.read["receipt"]
        /\ job'.draft = job.draft /\ job'.read["manifest"] = dir.manifest
    BY <1>1, ReadsOn, DirIs DEF IInv, Slots, Stages, AfterReceipt, AfterJudge, AfterSidecar
  <2>2. job.read["sidecar"].body = job.read["receipt"].body
    BY DEF ReadManifest, IInv, Knows, AfterSidecar
  <2> QED BY <1>1, <2>1, <2>2, JudgedStands, DirIs
        DEF ReadManifest, Knows, AfterReceipt, AfterJudge, AfterSidecar
<1>2. CASE job' = [NoJob EXCEPT !.at = "refused"]
  BY <1>2, RefusedJob
<1> QED BY <1>1, <1>2 DEF ReadManifest, Go

(* The manifest records the packet's body, and the receipt's is that of    *)
(* the draft that was judged: the export it is of is finished.             *)
LEMMA ReadReceiptBytesKnows ==
    ASSUME IInv, ReadReceiptBytes
    PROVE  job' \in Jobs /\ Knows(job', finished)
<1>1. CASE /\ RecordMatches(job.read.manifest, dir.receipt)
           /\ job' = [job EXCEPT !.at = "accepted"]
  <2> DEFINE r == job.read["receipt"]
  <2>1. job \in Jobs /\ job.at = "bytes"
    BY DEF IInv, ReadReceiptBytes
  <2>2. job' = [at |-> "accepted", read |-> job.read, draft |-> job.draft]
    BY <1>1, <2>1 DEF Jobs
  <2>3. job' \in Jobs
    BY <2>1, <2>2 DEF Jobs, Stages, AfterReceipt, AfterJudge, AfterSidecar
  <2>4. /\ r = Receipt(job.draft, r.env) /\ job.read["sidecar"].body = r.body
        /\ OfFinished(job.read["manifest"], finished)
    BY <2>1 DEF IInv, Knows, AfterJudge, AfterSidecar
  <2>5. job.read["manifest"].packet = Body(job.draft, r.env)
    BY <1>1, <2>4, ReceiptIs DEF RecordMatches
  <2>6. <<job.draft, r.env>> \in finished
    BY <2>4, <2>5 DEF OfFinished, Body
  <2> QED BY <2>1, <2>2, <2>3, <2>4, <2>6, JudgedStands DEF Knows, AfterReceipt, AfterJudge, AfterSidecar
<1>2. CASE job' = [NoJob EXCEPT !.at = "refused"]
  BY <1>2, RefusedJob
<1> QED BY <1>1, <1>2 DEF ReadReceiptBytes

LEMMA HandoffKnows ==
    ASSUME IInv, HandoffSteps
    PROVE  job' \in Jobs /\ Knows(job', finished)
<1>1. CASE StartHandoff
  <2>1. job' = [at |-> "packet", read |-> NotRead, draft |-> None]
    BY <1>1 DEF StartHandoff, NoJob
  <2>2. NotRead \in [Slots -> Contents]
    BY DEF NotRead, Slots, Contents
  <2>3. job' \in Jobs
    BY <2>1, <2>2 DEF Jobs, Stages
  <2> QED BY <2>1, <2>3 DEF Knows, AfterReceipt, AfterJudge, AfterSidecar
<1> QED BY <1>1, ReadPacketKnows, ReadReceiptKnows, ReplayReceiptKnows, JudgeDraftKnows,
           ReadSidecarKnows, ReadDecisionKnows, ReadManifestKnows, ReadReceiptBytesKnows
        DEF HandoffSteps, Check

LEMMA HandoffKeeps == IInv /\ HandoffSteps => IInv'
<1> SUFFICES ASSUME IInv, HandoffSteps PROVE IInv'
  OBVIOUS
<1>1. job' \in Jobs /\ Knows(job', finished)
  BY HandoffKnows
<1>2. UNCHANGED <<draft, dir, exporters, finished, whole, used>>
  BY HandoffLeaves
<1> QED BY <1>1, <1>2 DEF IInv, ManifestIsOfFinished

-----------------------------------------------------------------------------
(*                    Exporters and hands change the files                 *)

(* What such a step must leave in order: the check has read what it read,  *)
(* and exports only finish.                                                *)
LEMMA FilesKeep ==
    ASSUME IInv, UNCHANGED job, draft' \in Drafts, whole' \in BOOLEAN,
           finished \subseteq finished', finished' \subseteq Exports,
           FilesHoldTheirKind(dir'),
           Readable(dir'.manifest) => OfFinished(dir'.manifest, finished') /\ finished' # {},
           exporters' \in [Exporters -> ExporterStates],
           \A x \in Exporters : AtWork(exporters'[x])
    PROVE  IInv'
BY KnowsMore DEF IInv, ManifestIsOfFinished

LEMMA FileWritten ==
    ASSUME NEW D, FilesHoldTheirKind(D), NEW file \in Names, NEW c \in Contents,
           Readable(c) => /\ file = "packet" => c \in Packets
                          /\ file \in {"receipt", "decision"} => c \in Receipts
                          /\ file = "manifest" => c \in Manifests
    PROVE  /\ FilesHoldTheirKind([D EXCEPT ![file] = c])
           /\ file # "manifest" => [D EXCEPT ![file] = c].manifest = D.manifest
           /\ file = "manifest" => [D EXCEPT ![file] = c].manifest = c
BY DEF FilesHoldTheirKind, Names

LEMMA Disturbed ==
    ASSUME IInv, NEW x \in Exporters, NEW mine \in ExporterStates, AtWork(mine)
    PROVE  /\ Disturb(x, mine) \in [Exporters -> ExporterStates]
           /\ \A y \in Exporters : AtWork(Disturb(x, mine)[y])
<1>1. ASSUME NEW y \in Exporters
      PROVE  LET e == [exporters[y] EXCEPT !.alone = FALSE]
             IN  e \in ExporterStates /\ AtWork(e)
  <2>1. exporters[y] \in ExporterStates /\ AtWork(exporters[y])
    BY DEF IInv
  <2> QED BY <2>1 DEF ExporterStates, AtWork
<1> QED BY <1>1 DEF Disturb

LEMMA ExportKeeps ==
    ASSUME IInv, NEW x \in Exporters, Export(x)
    PROVE  IInv'
<1>1. PICK env \in Environments :
         exporters' = IF Granted(draft, env)
                        THEN [exporters EXCEPT ![x] =
                                [Idle EXCEPT !.at = "write", !.k = 1, !.draft = draft, !.env = env]]
                        ELSE exporters
  BY DEF Export
<1>2. ASSUME Granted(draft, env)
      PROVE  LET e == [Idle EXCEPT !.at = "write", !.k = 1, !.draft = draft, !.env = env]
             IN  e \in ExporterStates /\ AtWork(e)
  <2> DEFINE one == 1
             e == [Idle EXCEPT !.at = "write", !.k = one, !.draft = draft, !.env = env]
  <2>1. Idle \in ExporterStates /\ draft \in Drafts /\ one \in 0..4
    BY IdleIs DEF IInv
  <2>2. one = 1
    OBVIOUS
  <2> HIDE DEF one
  <2>3. e \in ExporterStates
    BY <2>1 DEF ExporterStates
  <2>4. e.at = "write" /\ e.k = 1 /\ e.draft = draft /\ e.env = env
    BY <2>1, <2>2 DEF ExporterStates
  <2>5. e \in ExporterStates /\ AtWork(e)
    BY <1>2, <2>3, <2>4 DEF AtWork, Granted
  <2> QED BY <2>2, <2>5
<1>3. /\ exporters' \in [Exporters -> ExporterStates]
      /\ \A y \in Exporters : AtWork(exporters'[y])
  BY <1>1, <1>2 DEF IInv
<1> QED BY <1>3, FilesKeep DEF Export, IInv, ManifestIsOfFinished

LEMMA OpenFileKeeps ==
    ASSUME IInv, NEW x \in Exporters, OpenFile(x)
    PROVE  IInv'
<1> DEFINE e == exporters[x]
           mine == [e EXCEPT !.open = TRUE, !.alone = @ \/ (e.at = "write" /\ e.k = 1)]
<1>1. e \in ExporterStates /\ AtWork(e)
  BY DEF IInv
<1>2. mine \in ExporterStates /\ AtWork(mine)
  <2>1. /\ mine.at = e.at /\ mine.k = e.k /\ mine.draft = e.draft /\ mine.env = e.env
        /\ mine \in ExporterStates
    BY <1>1 DEF ExporterStates
  <2> QED BY <1>1, <2>1 DEF AtWork
<1>3. PICK file \in Names : dir' = [dir EXCEPT ![file] = Torn]
  BY <1>1 DEF OpenFile, WriteOrder, Names, AtWork
<1>4. /\ FilesHoldTheirKind(dir')
      /\ Readable(dir'.manifest) => dir'.manifest = dir.manifest
  <2>1. Torn \in Contents /\ ~Readable(Torn) /\ FilesHoldTheirKind(dir)
    BY DEF Contents, Readable, IInv
  <2> DEFINE D == [dir EXCEPT ![file] = Torn]
  <2>2. /\ FilesHoldTheirKind(D)
        /\ file # "manifest" => D.manifest = dir.manifest
        /\ file = "manifest" => D.manifest = Torn
    BY <2>1, FileWritten
  <2> HIDE DEF D
  <2>3. dir' = D
    BY <1>3 DEF D
  <2> QED BY <2>1, <2>2, <2>3
<1>5. exporters' = Disturb(x, mine)
  BY DEF OpenFile
<1> QED BY <1>2, <1>4, <1>5, Disturbed, FilesKeep DEF OpenFile, IInv, ManifestIsOfFinished

LEMMA WriteFileKeeps ==
    ASSUME IInv, NEW x \in Exporters, WriteFile(x)
    PROVE  IInv'
<1> DEFINE e == exporters[x]
           file == WriteOrder[e.k]
           mine == IF e.k < 3 THEN [e EXCEPT !.k = @ + 1, !.open = FALSE]
                              ELSE [e EXCEPT !.at = "read", !.k = 1, !.open = FALSE]
<1>1. e \in ExporterStates /\ AtWork(e) /\ e.at = "write"
  BY DEF IInv, WriteFile
<1>2. e.k \in 1..3 /\ <<e.draft, e.env>> \in Exports
  BY <1>1 DEF AtWork
<1>3. mine \in ExporterStates /\ AtWork(mine)
  <2>1. CASE e.k < 3
    <3> DEFINE k == e.k + 1
               on == [e EXCEPT !.k = k, !.open = FALSE]
    <3>1. k \in 0..4 /\ k \in 1..3
      BY <1>2, <2>1
    <3>2. mine = on
      BY <2>1
    <3> HIDE DEF k, mine
    <3>3. on \in ExporterStates
      BY <1>1, <3>1 DEF ExporterStates
    <3>4. on.draft = e.draft /\ on.env = e.env /\ on.k = k
      BY <1>1 DEF ExporterStates
    <3> QED BY <1>2, <3>1, <3>2, <3>3, <3>4 DEF AtWork
  <2>2. CASE ~(e.k < 3)
    <3> DEFINE k == 1
               over == [e EXCEPT !.at = "read", !.k = k, !.open = FALSE]
    <3>1. k \in 0..4 /\ k \in 1..3
      OBVIOUS
    <3>2. mine = over
      BY <2>2
    <3> HIDE DEF k, mine
    <3>3. over \in ExporterStates
      BY <1>1, <3>1 DEF ExporterStates
    <3>4. over.draft = e.draft /\ over.env = e.env /\ over.k = k
      BY <1>1 DEF ExporterStates
    <3> QED BY <1>2, <3>1, <3>2, <3>3, <3>4 DEF AtWork
  <2> QED BY <2>1, <2>2
<1>4. file \in {"packet", "receipt", "decision"}
  BY <1>2 DEF WriteOrder
<1>5. PICK c \in {Content(file, e.draft, e.env), Torn} : dir' = [dir EXCEPT ![file] = c]
  BY DEF WriteFile, Written
<1>6. /\ c \in Contents
      /\ Readable(c) => /\ file = "packet" => c \in Packets
                        /\ file \in {"receipt", "decision"} => c \in Receipts
  BY <1>2, <1>4, <1>5, ExportMakes DEF Content, Contents, Readable
<1> HIDE DEF file
<1>7. FilesHoldTheirKind(dir') /\ dir'.manifest = dir.manifest
  <2>1. file \in Names /\ file # "manifest" /\ FilesHoldTheirKind(dir)
    BY <1>4 DEF Names, IInv
  <2> DEFINE D == [dir EXCEPT ![file] = c]
  <2>2. FilesHoldTheirKind(D) /\ D.manifest = dir.manifest
    BY <1>6, <2>1, FileWritten
  <2> HIDE DEF D
  <2>3. dir' = D
    BY <1>5 DEF D
  <2> QED BY <2>2, <2>3
<1>8. exporters' = Disturb(x, mine)
  BY DEF WriteFile
<1> HIDE DEF mine
<1> QED BY <1>3, <1>7, <1>8, Disturbed, FilesKeep DEF WriteFile, IInv, ManifestIsOfFinished

LEMMA ReadBackKeeps ==
    ASSUME IInv, NEW x \in Exporters, ReadBack(x)
    PROVE  IInv'
<1> DEFINE e == exporters[x]
           file == ReadOrder[e.k]
           mine == [e EXCEPT !.seen[file] = dir[file],
                             !.at = IF e.k = 3 THEN "manifest" ELSE @, !.k = @ + 1]
<1>1. e \in ExporterStates /\ AtWork(e) /\ e.at = "read"
  BY DEF IInv, ReadBack
<1>2. e.k \in 1..3 /\ <<e.draft, e.env>> \in Exports
  BY <1>1 DEF AtWork
<1>3. file \in {"packet", "receipt", "decision"}
  BY <1>2 DEF ReadOrder
<1>4. dir[file] \in Packets \cup Receipts \cup {Missing, Torn}
  BY <1>3 DEF IInv, FilesHoldTheirKind, Readable, Names
<1>5. exporters' = [exporters EXCEPT ![x] = mine]
  BY DEF ReadBack
<1> HIDE DEF file
<1>6. mine \in ExporterStates /\ AtWork(mine)
  <2>1. [e.seen EXCEPT ![file] = dir[file]] \in Seen
    BY <1>1, <1>3, <1>4 DEF ExporterStates, Seen, Names
  <2> DEFINE seen == [e.seen EXCEPT ![file] = dir[file]]
             at == IF e.k = 3 THEN "manifest" ELSE e.at
             k == e.k + 1
  <2>2. mine = [e EXCEPT !.seen = seen, !.at = at, !.k = k]
    BY <1>1 DEF ExporterStates
  <2>3. at \in {"read", "manifest"} /\ k \in 0..4 /\ (at = "read" => k \in 1..3)
    BY <1>1, <1>2
  <2> HIDE DEF mine, seen, at, k
  <2>4. /\ mine \in ExporterStates
        /\ mine.at = at /\ mine.k = k /\ mine.draft = e.draft /\ mine.env = e.env
    BY <1>1, <2>1, <2>2, <2>3 DEF ExporterStates, seen
  <2> QED BY <1>2, <2>3, <2>4 DEF AtWork
<1> HIDE DEF mine
<1>7. /\ exporters' \in [Exporters -> ExporterStates]
      /\ \A y \in Exporters : AtWork(exporters'[y])
  BY <1>5, <1>6 DEF IInv
<1> QED BY <1>7, FilesKeep DEF ReadBack, IInv, ManifestIsOfFinished

LEMMA WriteManifestKeeps ==
    ASSUME IInv, NEW x \in Exporters, WriteManifest(x)
    PROVE  IInv'
<1> DEFINE e == exporters[x]
           m == Record(e.seen, e.draft, e.env)
<1>1. e \in ExporterStates /\ <<e.draft, e.env>> \in Exports
  BY DEF IInv, WriteManifest, AtWork
<1>2. PICK c \in {m, Torn} : dir' = [dir EXCEPT !["manifest"] = c]
  BY DEF WriteManifest, Written
<1>3. m \in Manifests /\ OfFinished(m, finished')
  <2>1. m = [raw |-> e.seen, receipt |-> Receipt(e.draft, e.env),
             decision |-> Receipt(e.draft, e.env), packet |-> Body(e.draft, e.env)]
    BY DEF Record
  <2>2. e.seen \in Seen
    BY <1>1 DEF ExporterStates
  <2>3. finished' = finished \cup {<<e.draft, e.env>>}
    BY DEF WriteManifest
  <2> QED BY <1>1, <2>1, <2>2, <2>3, ExportMakes DEF Manifests, OfFinished
<1> HIDE DEF m
<1>4. FilesHoldTheirKind(dir') /\ dir'.manifest = c
  <2>1. c \in Contents /\ (Readable(c) => c \in Manifests)
    BY <1>2, <1>3 DEF Contents, Readable
  <2>2. "manifest" \in Names /\ FilesHoldTheirKind(dir)
    BY DEF Names, IInv
  <2> DEFINE D == [dir EXCEPT !["manifest"] = c]
  <2>3. FilesHoldTheirKind(D) /\ D.manifest = c
    BY <2>1, <2>2, FileWritten
  <2> HIDE DEF D
  <2>4. dir' = D
    BY <1>2 DEF D
  <2> QED BY <2>3, <2>4
<1>5. /\ finished \subseteq finished' /\ finished' \subseteq Exports /\ finished' # {}
      /\ exporters' = Disturb(x, Idle) /\ UNCHANGED <<draft, job>>
      /\ whole' \in BOOLEAN
  BY <1>1 DEF WriteManifest, IInv
<1>6. Readable(dir'.manifest) => OfFinished(dir'.manifest, finished')
  BY <1>2, <1>3, <1>4 DEF Readable
<1>7. draft' \in Drafts
  BY <1>5 DEF IInv
<1> QED BY <1>4, <1>5, <1>6, <1>7, IdleIs, Disturbed, FilesKeep

LEMMA CrashKeeps ==
    ASSUME IInv, NEW x \in Exporters, Crash(x)
    PROVE  IInv'
<1>1. /\ exporters' \in [Exporters -> ExporterStates]
      /\ \A y \in Exporters : AtWork(exporters'[y])
  BY IdleIs DEF IInv, Crash
<1> QED BY <1>1, FilesKeep DEF Crash, IInv, ManifestIsOfFinished

LEMMA EditDraftKeeps == IInv /\ EditDraft => IInv'
BY FilesKeep, DraftsAreKnown DEF EditDraft, IInv, ManifestIsOfFinished

(* A hand that makes some of the hashes again keeps every file of its kind *)
(* and records a reworded packet.                                          *)
LEMMA RewordBundleKeeps == IInv /\ RewordBundle => IInv'
<1> SUFFICES ASSUME IInv, RewordBundle PROVE IInv'
  OBVIOUS
<1>1. PICK others \in SUBSET (Names \ {"packet"}) :
        LET rec == IF "receipt" \in others THEN RewordReceipt(dir.receipt) ELSE dir.receipt
            dec == IF "decision" \in others THEN RewordReceipt(dir.decision) ELSE dir.decision
            pac == [body |-> Reword(dir.packet.body), proj |-> rec.proj]
            man == IF "manifest" \in others
                     THEN [raw |-> [receipt |-> rec, decision |-> dec, packet |-> pac],
                           receipt |-> rec, decision |-> dec, packet |-> pac.body]
                     ELSE dir.manifest
        IN dir' = [packet |-> pac, receipt |-> rec, decision |-> dec, manifest |-> man]
  BY DEF RewordBundle
<1> DEFINE rec == IF "receipt" \in others THEN RewordReceipt(dir.receipt) ELSE dir.receipt
           dec == IF "decision" \in others THEN RewordReceipt(dir.decision) ELSE dir.decision
           pac == [body |-> Reword(dir.packet.body), proj |-> rec.proj]
           raw == [receipt |-> rec, decision |-> dec, packet |-> pac]
           made == [raw |-> raw, receipt |-> rec, decision |-> dec, packet |-> pac.body]
           man == IF "manifest" \in others THEN made ELSE dir.manifest
<1>2. dir' = [packet |-> pac, receipt |-> rec, decision |-> dec, manifest |-> man]
  BY <1>1
<1>3. /\ dir.packet \in Packets /\ dir.receipt \in Receipts /\ dir.decision \in Receipts
      /\ dir.manifest \in Manifests /\ OfFinished(dir.manifest, finished) /\ finished # {}
  BY DirIs DEF RewordBundle, Names, IInv
<1>4. rec \in Receipts /\ dec \in Receipts
  BY <1>3, RewordedReceipt
<1> HIDE DEF rec, dec
<1>5. pac \in Packets /\ pac.body \in ExportBodies /\ pac.body.reworded
  <2>1. dir.packet.body \in ExportBodies /\ rec.proj \in Projections
    BY <1>3, <1>4 DEF Packets, Receipts
  <2>2. Reword(dir.packet.body) \in ExportBodies /\ Reword(dir.packet.body).reworded
    BY <2>1, RewordedBody
  <2> QED BY <2>1, <2>2 DEF Packets
<1> HIDE DEF pac
<1>6. raw \in Seen
  BY <1>4, <1>5 DEF Seen, Names
<1> HIDE DEF raw
<1>7. made \in Manifests /\ made.packet.reworded
  BY <1>4, <1>5, <1>6 DEF Manifests
<1> HIDE DEF made
<1>8. man \in Manifests /\ OfFinished(man, finished)
  BY <1>3, <1>7 DEF OfFinished
<1> HIDE DEF man
<1>9. FilesHoldTheirKind(dir') /\ dir'.manifest = man
  BY <1>2, <1>4, <1>5, <1>8 DEF FilesHoldTheirKind, Names, Contents
<1>10. /\ exporters' \in [Exporters -> ExporterStates]
       /\ \A y \in Exporters : AtWork(exporters'[y])
  <2>1. ASSUME NEW y \in Exporters
        PROVE  LET e == [exporters[y] EXCEPT !.alone = FALSE]
               IN  e \in ExporterStates /\ AtWork(e)
    <3>1. exporters[y] \in ExporterStates /\ AtWork(exporters[y])
      BY DEF IInv
    <3> QED BY <3>1 DEF ExporterStates, AtWork
  <2> QED BY <2>1 DEF RewordBundle
<1>11. UNCHANGED <<draft, job, finished>> /\ whole' \in BOOLEAN
  BY DEF RewordBundle
<1>12. draft' \in Drafts /\ finished' \subseteq Exports
  BY <1>11 DEF IInv
<1> QED BY <1>3, <1>8, <1>9, <1>10, <1>11, <1>12, FilesKeep

LEMMA NextIInv == IInv /\ [Next]_vars => IInv'
<1> SUFFICES ASSUME IInv, [Next]_vars PROVE IInv'
  OBVIOUS
<1>1. CASE UNCHANGED vars
  BY <1>1 DEF vars, IInv, ManifestIsOfFinished
<1>2. CASE \E x \in Exporters : \/ Export(x) \/ OpenFile(x) \/ WriteFile(x)
                               \/ ReadBack(x) \/ WriteManifest(x) \/ Crash(x)
  BY <1>2, ExportKeeps, OpenFileKeeps, WriteFileKeeps, ReadBackKeeps, WriteManifestKeeps, CrashKeeps
<1>3. CASE HandoffSteps \/ EditDraft \/ RewordBundle
  BY <1>3, HandoffKeeps, EditDraftKeeps, RewordBundleKeeps
<1> QED BY <1>1, <1>2, <1>3 DEF Next, HandoffSteps

LEMMA SpecIInv == Spec => []IInv
BY InitIInv, NextIInv, PTL DEF Spec

-----------------------------------------------------------------------------
(*                          The files and the check                        *)

(* TypeOK: whatever is written, killed, edited or reworded, a file that    *)
(* can be read names an export, an exporter at work has one to write, and  *)
(* a manifest that can be read means that some export had finished.        *)
THEOREM TypeCorrect == Spec => []TypeOK
<1>1. IInv => TypeOK
  <2> SUFFICES ASSUME IInv PROVE TypeOK
    OBVIOUS
  <2>1. \A f \in Names : Readable(dir[f]) =>
          /\ f = "packet" => dir[f].body \in Bodies
          /\ f \in {"receipt", "decision"} => dir[f].body \in Bodies
          /\ f = "manifest" => dir[f].packet \in Bodies
    BY DEF IInv, FilesHoldTheirKind, Names, Packets, Receipts, Manifests, ExportBodies
  <2> QED BY <2>1 DEF IInv, TypeOK, AtWork
<1> QED BY <1>1, SpecIInv, PTL

(* What the check hands over, and whether it has answered.                 *)
Exported == {Handoff(x) : x \in finished}
Answer == IF job.at = "accepted" THEN [draft |-> job.draft, packet |-> job.read.packet]
          ELSE NoHandoff(IF job.at \in {"idle", "refused"} THEN "refused" ELSE "pending")

(* What an accepted check hands over is the handoff of a finished export.  *)
LEMMA AcceptedIsExported ==
    ASSUME NEW j \in Jobs, NEW F, Knows(j, F), j.at = "accepted"
    PROVE  [draft |-> j.draft, packet |-> j.read.packet] \in {Handoff(x) : x \in F}
<1> DEFINE x == <<j.draft, j.read["receipt"].env>>
<1>1. /\ j.read["packet"] \in Packets /\ j.read["receipt"] = Receipt(x[1], x[2])
      /\ j.read["packet"].body = j.read["receipt"].body
      /\ j.read["packet"].proj = j.read["receipt"].proj
      /\ x \in F
  BY DEF Knows, AfterReceipt, AfterJudge, AfterSidecar
<1>2. j.read["packet"] = Packet(x[1], x[2])
  BY <1>1, ReceiptIs DEF Packet, Packets
<1> QED BY <1>1, <1>2 DEF Handoff

LEMMA PendingIsNotRefused == NoHandoff("pending") # NoHandoff("refused")
BY DEF NoHandoff

(* A step of the check answers, or asks, or goes on. *)
LEMMA HandoffAnswers ==
    ASSUME IInv, HandoffSteps
    PROVE  /\ Exported' = Exported
           /\ \/ Answer' = Answer
              \/ Answer' = NoHandoff("pending")
              \/ Answer = NoHandoff("pending") /\ Answer' \in Exported \cup {NoHandoff("refused")}
<1>1. Exported' = Exported
  BY HandoffLeaves DEF Exported, Handoff
<1>2. CASE StartHandoff
  <2>1. job'.at = "packet"
    BY <1>2 DEF StartHandoff, NoJob
  <2> QED BY <1>1, <2>1 DEF Answer
<1>3. CASE Check
  <2>1. job.at \notin {"idle", "refused", "accepted"} /\ Answer = NoHandoff("pending")
    BY <1>3 DEF Check, ReadPacket, ReadReceipt, ReplayReceipt, JudgeDraft,
              ReadSidecar, ReadDecision, ReadManifest, ReadReceiptBytes, Answer
  <2>2. job' \in Jobs /\ Knows(job', finished)
    BY HandoffKnows
  <2>3. CASE job'.at = "accepted"
    BY <1>1, <2>1, <2>2, <2>3, AcceptedIsExported DEF Answer, Exported
  <2>4. CASE job'.at # "accepted"
    BY <1>1, <2>1, <2>4 DEF Answer
  <2> QED BY <2>3, <2>4
<1> QED BY <1>1, <1>2, <1>3 DEF HandoffSteps

(* Any other step lets an export finish, or does nothing that counts. *)
LEMMA OthersExport ==
    ASSUME IInv, Next, ~HandoffSteps
    PROVE  /\ UNCHANGED job
           /\ \/ UNCHANGED finished
              \/ \E x \in Exports : finished' = finished \cup {x}
BY DEF IInv, AtWork, Next, HandoffSteps, Export, OpenFile, WriteFile, ReadBack, WriteManifest, Crash,
       EditDraft, RewordBundle

(* HandoffIsOneExport: the files, written and read one at a time while     *)
(* exporters race and crash and hands edit them, implement a handoff that  *)
(* is a single step: what a check accepts is exactly one finished export.  *)
THEOREM HandoffsAreExports == Spec => HandoffIsOneExport
<1>1. Init => Promise!Init
  BY DEF Init, NoJob, Promise!Init
<1>2. IInv /\ [Next]_vars => [Promise!Next]_(Promise!vars)
  <2> SUFFICES ASSUME IInv, [Next]_vars
               PROVE  [Promise!Next]_(Promise!vars)
    OBVIOUS
  <2>1. CASE UNCHANGED vars
    BY <2>1 DEF vars, Promise!vars, Handoff, NoHandoff
  <2>2. CASE HandoffSteps
    BY <2>2, HandoffAnswers, PendingIsNotRefused
       DEF Exported, Answer, Promise!vars, Promise!Next, Promise!Ask, Promise!Answer
  <2>3. CASE Next /\ ~HandoffSteps
    <3>1. Answer' = Answer
      BY <2>3, OthersExport DEF Answer, NoHandoff
    <3>2. CASE UNCHANGED finished
      BY <3>1, <3>2 DEF Answer, Promise!vars, Handoff
    <3>3. CASE \E x \in Exports : finished' = finished \cup {x}
      <4>1. PICK x \in Exports : finished' = finished \cup {x}
        BY <3>3
      <4>2. Exported' = Exported \cup {Handoff(x)} /\ Handoff(x) \in {Handoff(y) : y \in Exports}
        BY <4>1 DEF Exported, Handoff
      <4> QED BY <3>1, <4>2 DEF Exported, Answer, Promise!Next, Promise!Export
    <3> QED BY <2>3, <3>2, <3>3, OthersExport
  <2> QED BY <2>1, <2>2, <2>3
<1>3. Spec => Promise!Init /\ [][Promise!Next]_(Promise!vars)
  BY <1>1, <1>2, SpecIInv, PTL DEF Spec
<1> QED BY <1>3 DEF HandoffIsOneExport, Promise!Spec

-----------------------------------------------------------------------------
(*                     Lemmas about normalization                          *)

(* A name that has been resolved is resolved. *)
LEMMA ResolvedStays ==
    /\ \A w : NormalizeWorkflow(NormalizeWorkflow(w)) = NormalizeWorkflow(w)
    /\ \A e : NormalizeEffect(e) \notin DOMAIN Registry.effectAlias
    /\ \A e : NormalizeEffect(NormalizeEffect(e)) = NormalizeEffect(e)
    /\ \A o : ResolveOp(o) # None => ResolveOp(ResolveOp(o)) = ResolveOp(o)
<1>1. \A w : NormalizeWorkflow(NormalizeWorkflow(w)) = NormalizeWorkflow(w)
  BY AliasesAreOneStep DEF NormalizeWorkflow
<1>2. \A e : NormalizeEffect(e) \notin DOMAIN Registry.effectAlias
  BY AliasesAreOneStep DEF NormalizeEffect
<1>3. \A e : NormalizeEffect(NormalizeEffect(e)) = NormalizeEffect(e)
  BY <1>2 DEF NormalizeEffect
<1>4. \A o : ResolveOp(o) # None => ResolveOp(ResolveOp(o)) = ResolveOp(o)
  BY AliasesAreOneStep DEF ResolveOp
<1> QED BY <1>1, <1>2, <1>3, <1>4

NormalizedName(o) == IF ResolveOp(o) # None THEN ResolveOp(o) ELSE o
NormalizedEffects(es) == {NormalizeEffect(e) : e \in es}

LEMMA NormalizeOpIs ==
    ASSUME NEW i, NEW o, NEW es, NEW cs, NEW ps
    PROVE  NormalizeOp([id |-> i, op |-> o, effects |-> es, capabilities |-> cs, policies |-> ps]) =
             [id |-> i, op |-> NormalizedName(o), effects |-> NormalizedEffects(es),
              capabilities |-> cs, policies |-> ps]
<1> DEFINE op == [id |-> i, op |-> o, effects |-> es, capabilities |-> cs, policies |-> ps]
           name == NormalizedName(o)
           effects == NormalizedEffects(es)
           mid == [id |-> i, op |-> o, effects |-> effects, capabilities |-> cs, policies |-> ps]
<1>1. NormalizeOp(op) = [[op EXCEPT !.effects = effects] EXCEPT !.op = name]
  BY DEF NormalizeOp, NormalizedName, NormalizedEffects
<1> HIDE DEF name, effects
<1>2. [op EXCEPT !.effects = effects] = mid
  OBVIOUS
<1>3. [mid EXCEPT !.op = name] =
        [id |-> i, op |-> name, effects |-> effects, capabilities |-> cs, policies |-> ps]
  OBVIOUS
<1> QED BY <1>1, <1>2, <1>3 DEF name, effects

LEMMA OperationIs ==
    ASSUME NEW op \in Operations
    PROVE  op = [id |-> op.id, op |-> op.op, effects |-> op.effects,
                 capabilities |-> op.capabilities, policies |-> op.policies]
BY DEF Operations

LEMMA NormalizeOpTwice ==
    ASSUME NEW op \in Operations
    PROVE  NormalizeOp(NormalizeOp(op)) = NormalizeOp(op)
<1> DEFINE n == [id |-> op.id, op |-> NormalizedName(op.op), effects |-> NormalizedEffects(op.effects),
                 capabilities |-> op.capabilities, policies |-> op.policies]
<1>1. NormalizeOp(op) = n
  <2>1. NormalizeOp([id |-> op.id, op |-> op.op, effects |-> op.effects,
                     capabilities |-> op.capabilities, policies |-> op.policies]) = n
    BY NormalizeOpIs
  <2> QED BY <2>1, OperationIs
<1>2. NormalizedName(NormalizedName(op.op)) = NormalizedName(op.op)
  BY ResolvedStays DEF NormalizedName
<1>3. NormalizedEffects(NormalizedEffects(op.effects)) = NormalizedEffects(op.effects)
  BY ResolvedStays DEF NormalizedEffects
<1>4. NormalizeOp(n) = n
  BY <1>2, <1>3, NormalizeOpIs
<1> QED BY <1>1, <1>4

NormalizedOps(ops) == [i \in DOMAIN ops |-> NormalizeOp(ops[i])]

(* A draft with a workflow, operations and an environment of its own, and  *)
(* the rest of another.                                                    *)
Rewritten(d, workflow, ops, environment) ==
    [bytes |-> d.bytes, faults |-> d.faults, workflow |-> workflow, ops |-> ops,
     claims |-> d.claims, policies |-> d.policies, holes |-> d.holes,
     environment |-> environment, executable |-> d.executable, ambiguity |-> d.ambiguity,
     unresolved |-> d.unresolved, types |-> d.types, returns |-> d.returns,
     boundary |-> d.boundary]

LEMMA DraftIs ==
    ASSUME NEW d \in DraftRecords
    PROVE  d = Rewritten(d, d.workflow, d.ops, d.environment)
BY DEF DraftRecords, Rewritten

LEMMA NormalizeIs ==
    ASSUME NEW d, NEW workflow, NEW ops, NEW environment
    PROVE  Normalize(Rewritten(d, workflow, ops, environment)) =
             Rewritten(d, NormalizeWorkflow(workflow), NormalizedOps(ops), environment)
<1> DEFINE r == Rewritten(d, workflow, ops, environment)
           w == NormalizeWorkflow(workflow)
           o == NormalizedOps(ops)
<1>1. r.workflow = workflow /\ r.ops = ops
  BY DEF Rewritten
<1>2. Normalize(r) = [[r EXCEPT !.workflow = w] EXCEPT !.ops = o]
  BY <1>1 DEF Normalize, NormalizedOps
<1> HIDE DEF w, o
<1>3. [r EXCEPT !.workflow = w] = Rewritten(d, w, ops, environment)
  BY DEF Rewritten
<1>4. [Rewritten(d, w, ops, environment) EXCEPT !.ops = o] = Rewritten(d, w, o, environment)
  BY DEF Rewritten
<1> QED BY <1>2, <1>3, <1>4 DEF w, o

(* A draft normalized and without its environment, as SpellingNeverHelps   *)
(* writes it, and the same normalized once more.                           *)
LEMMA CanonicalIs ==
    ASSUME NEW d \in DraftRecords
    PROVE  LET n == Rewritten(d, NormalizeWorkflow(d.workflow), NormalizedOps(d.ops), d.environment)
               c == Rewritten(d, NormalizeWorkflow(d.workflow), NormalizedOps(d.ops), None)
           IN  Normalize(d) = n /\ [Normalize(d) EXCEPT !.environment = None] = c /\ Normalize(c) = c
<1> DEFINE w == NormalizeWorkflow(d.workflow)
           o == NormalizedOps(d.ops)
<1>1. Normalize(d) = Rewritten(d, w, o, d.environment)
  BY DraftIs, NormalizeIs
<1>2. NormalizeWorkflow(w) = w
  BY ResolvedStays
<1>3. NormalizedOps(o) = o
  <2>1. \A i \in DOMAIN d.ops : d.ops[i] \in Operations
    BY DEF DraftRecords
  <2> QED BY <2>1, NormalizeOpTwice DEF NormalizedOps
<1> HIDE DEF w, o
<1>4. [Rewritten(d, w, o, d.environment) EXCEPT !.environment = None] = Rewritten(d, w, o, None)
  BY DEF Rewritten
<1>5. Normalize(Rewritten(d, w, o, None)) = Rewritten(d, w, o, None)
  BY <1>2, <1>3, NormalizeIs
<1> QED BY <1>1, <1>4, <1>5 DEF w, o

-----------------------------------------------------------------------------
(*                     Lemmas about the judgement                          *)

(* The checks of the verifier read nothing of a draft but this.  Its own   *)
(* environment is not among it.                                            *)
JudgedAlike(c, d) ==
    /\ c.faults = d.faults /\ c.workflow = d.workflow /\ c.ops = d.ops
    /\ c.claims = d.claims /\ c.policies = d.policies /\ c.holes = d.holes
    /\ c.executable = d.executable /\ c.boundary = d.boundary

LEMMA AlikeFindings ==
    ASSUME NEW c, NEW d, JudgedAlike(c, d), NEW env
    PROVE  /\ OpsOf(c) = OpsOf(d) /\ EffectsOf(c) = EffectsOf(d)
           /\ WorkflowFindings(c) = WorkflowFindings(d)
           /\ ContextFindings(c) = ContextFindings(d)
           /\ TrustFindings(c) = TrustFindings(d)
           /\ CapabilityFindings(c) = CapabilityFindings(d)
           /\ ProfileFindings(c) = ProfileFindings(d)
           /\ HoleFindings(c) = HoleFindings(d)
           /\ PolicyFindings(c, env) = PolicyFindings(d, env)
<1>1. OpsOf(c) = OpsOf(d) /\ EffectsOf(c) = EffectsOf(d) /\ RolesOf(c) = RolesOf(d)
  BY DEF JudgedAlike, OpsOf, EffectsOf, RolesOf
<1>2. WorkflowFindings(c) = WorkflowFindings(d) /\ ContextFindings(c) = ContextFindings(d)
      /\ HoleFindings(c) = HoleFindings(d)
  BY DEF JudgedAlike, WorkflowFindings, ContextFindings, HoleFindings
<1>3. TrustFindings(c) = TrustFindings(d)
  BY DEF JudgedAlike, TrustFindings, Warranted, Accepts
<1>4. CapabilityFindings(c) = CapabilityFindings(d)
  BY <1>1 DEF CapabilityFindings
<1>5. ProfileFindings(c) = ProfileFindings(d)
  BY <1>1 DEF JudgedAlike, ProfileFindings
<1>6. PolicyFindings(c, env) = PolicyFindings(d, env)
  BY <1>1 DEF JudgedAlike, PolicyFindings
<1> QED BY <1>1, <1>2, <1>3, <1>4, <1>5, <1>6

(* A draft that passes the verifier has no finding of any kind. *)
LEMMA PassedHasNoFindings ==
    ASSUME NEW d, NEW env, Verify(d, env).status = "passed"
    PROVE  /\ ParseFindings(d) = {} /\ NormalizeFindings(d) = {}
           /\ LET n == Normalize(d) IN
              /\ WorkflowFindings(n) = {} /\ ContextFindings(n) = {} /\ TrustFindings(n) = {}
              /\ \A op \in OpsOf(n) : OperationFindings(n.workflow, op) = {}
              /\ CapabilityFindings(n) = {} /\ ProfileFindings(n) = {} /\ n.boundary = {}
              /\ HoleFindings(n) = {} /\ PolicyFindings(n, env) = {}
<1>1. ParseFindings(d) = {} /\ SemanticFindings(d, env) = {}
  BY DEF Verify
<1> DEFINE n == Normalize(d)
           operations == UNION {OperationFindings(n.workflow, op) : op \in OpsOf(n)}
<1>2. SemanticFindings(d, env) =
        NormalizeFindings(d)
          \cup (WorkflowFindings(n) \cup ContextFindings(n) \cup TrustFindings(n)
                  \cup operations \cup CapabilityFindings(n) \cup ProfileFindings(n) \cup n.boundary
                  \cup HoleFindings(n) \cup PolicyFindings(n, env))
  BY Zenon DEF SemanticFindings, Judged
<1> HIDE DEF n, operations
<1>3. /\ NormalizeFindings(d) = {} /\ operations = {}
      /\ WorkflowFindings(n) = {} /\ ContextFindings(n) = {} /\ TrustFindings(n) = {}
      /\ CapabilityFindings(n) = {} /\ ProfileFindings(n) = {} /\ n.boundary = {}
      /\ HoleFindings(n) = {} /\ PolicyFindings(n, env) = {}
  BY <1>1, <1>2
<1>4. \A op \in OpsOf(n) : OperationFindings(n.workflow, op) = {}
  BY <1>3 DEF operations
<1> QED BY <1>1, <1>3, <1>4 DEF n

LEMMA NoFindingsPasses ==
    ASSUME NEW d, NEW env,
           ParseFindings(d) = {}, NormalizeFindings(d) = {},
           LET n == Normalize(d) IN
              /\ WorkflowFindings(n) = {} /\ ContextFindings(n) = {} /\ TrustFindings(n) = {}
              /\ \A op \in OpsOf(n) : OperationFindings(n.workflow, op) = {}
              /\ CapabilityFindings(n) = {} /\ ProfileFindings(n) = {} /\ n.boundary = {}
              /\ HoleFindings(n) = {} /\ PolicyFindings(n, env) = {}
    PROVE  Verify(d, env).status = "passed"
<1> DEFINE n == Normalize(d)
<1>1. UNION {OperationFindings(n.workflow, op) : op \in OpsOf(n)} = {}
  OBVIOUS
<1>2. SemanticFindings(d, env) = {}
  BY <1>1 DEF SemanticFindings, Judged
<1> QED BY <1>2 DEF Verify

(* A draft written with canonical names parses as it did, and none of its  *)
(* effects is an alias.                                                    *)
LEMMA CanonicalParses ==
    ASSUME NEW d \in DraftRecords, ParseFindings(d) = {}, NEW w, NEW env
    PROVE  LET c == Rewritten(d, w, NormalizedOps(d.ops), env)
           IN  ParseFindings(c) = {} /\ NormalizeFindings(c) = {}
<1> DEFINE o == NormalizedOps(d.ops)
           c == Rewritten(d, w, o, env)
<1>1. /\ c.bytes = d.bytes /\ c.faults = d.faults /\ c.claims = d.claims /\ c.ops = o
  BY DEF Rewritten
<1>2. /\ DOMAIN o = DOMAIN d.ops
      /\ \A i \in DOMAIN o :
            /\ o[i].id = d.ops[i].id
            /\ o[i].effects = NormalizedEffects(d.ops[i].effects)
  <2>1. ASSUME NEW i \in DOMAIN d.ops
        PROVE  /\ NormalizeOp(d.ops[i]).id = d.ops[i].id
               /\ NormalizeOp(d.ops[i]).effects = NormalizedEffects(d.ops[i].effects)
    <3> DEFINE op == d.ops[i]
    <3>1. op \in Operations
      BY DEF DraftRecords
    <3>2. NormalizeOp([id |-> op.id, op |-> op.op, effects |-> op.effects,
                       capabilities |-> op.capabilities, policies |-> op.policies]) =
            [id |-> op.id, op |-> NormalizedName(op.op), effects |-> NormalizedEffects(op.effects),
             capabilities |-> op.capabilities, policies |-> op.policies]
      BY NormalizeOpIs
    <3> QED BY <3>1, <3>2, OperationIs
  <2> QED BY <2>1 DEF NormalizedOps
<1> HIDE DEF o, c
<1>3. d.bytes = "ok" /\ d.ops # <<>> /\ ~DuplicateIds(d)
  BY DEF ParseFindings
<1>4. c.ops # <<>> /\ ~DuplicateIds(c)
  <2>1. d.ops \in Seq(Operations)
    BY DEF DraftRecords
  <2>2. Len(d.ops) \in Nat \ {0} /\ DOMAIN d.ops = 1 .. Len(d.ops)
    BY <1>3, <2>1, EmptySeq, LenProperties
  <2>3. 1 \in DOMAIN d.ops
    BY <2>2
  <2> QED BY <1>1, <1>2, <1>3, <2>3 DEF DuplicateIds
<1>5. ParseFindings(c) = {}
  BY <1>1, <1>3, <1>4 DEF ParseFindings
<1>6. EffectsOf(c) \cap DOMAIN Registry.effectAlias = {}
  BY <1>1, <1>2, ResolvedStays DEF EffectsOf, OpsOf, NormalizedEffects
<1>7. NormalizeFindings(c) = {}
  BY <1>6 DEF NormalizeFindings
<1> QED BY <1>5, <1>7 DEF o, c

(* A draft that passes the verifier also passes as it is normalized and    *)
(* without its environment.                                                *)
LEMMA CanonicalPasses ==
    ASSUME NEW d \in DraftRecords, NEW env, VerifiesAsWritten(d, env)
    PROVE  VerifiesCanonically(d, env)
<1> DEFINE w == NormalizeWorkflow(d.workflow)
           o == NormalizedOps(d.ops)
           n == Rewritten(d, w, o, d.environment)
           c == Rewritten(d, w, o, None)
<1>1. Normalize(d) = n /\ [Normalize(d) EXCEPT !.environment = None] = c /\ Normalize(c) = c
  BY CanonicalIs
<1>2. JudgedAlike(c, n) /\ c.boundary = n.boundary /\ c.workflow = n.workflow
  BY DEF JudgedAlike, Rewritten
<1>3. /\ ParseFindings(d) = {}
      /\ WorkflowFindings(n) = {} /\ ContextFindings(n) = {} /\ TrustFindings(n) = {}
      /\ \A op \in OpsOf(n) : OperationFindings(n.workflow, op) = {}
      /\ CapabilityFindings(n) = {} /\ ProfileFindings(n) = {} /\ n.boundary = {}
      /\ HoleFindings(n) = {} /\ PolicyFindings(n, env) = {}
  BY <1>1, PassedHasNoFindings DEF VerifiesAsWritten
<1>4. ParseFindings(c) = {} /\ NormalizeFindings(c) = {}
  BY <1>3, CanonicalParses
<1> HIDE DEF w, o, n, c
<1>5. /\ WorkflowFindings(c) = {} /\ ContextFindings(c) = {} /\ TrustFindings(c) = {}
      /\ \A op \in OpsOf(c) : OperationFindings(c.workflow, op) = {}
      /\ CapabilityFindings(c) = {} /\ ProfileFindings(c) = {} /\ c.boundary = {}
      /\ HoleFindings(c) = {} /\ PolicyFindings(c, env) = {}
  BY <1>2, <1>3, AlikeFindings
<1>6. Verify(c, env).status = "passed"
  BY <1>1, <1>4, <1>5, NoFindingsPasses
<1> QED BY <1>1, <1>6 DEF VerifiesCanonically, VerifiesAsWritten

(* SpellingNeverHelps: an alias or a declared environment never makes a    *)
(* draft pass, in whatever registry.                                       *)
THEOREM AliasesNeverHelp == Spec => []SpellingNeverHelps
<1>1. IInv => SpellingNeverHelps
  <2> SUFFICES ASSUME draft \in Drafts, NEW env \in Environments, <<draft, env>> \in Verified
               PROVE  <<draft, env>> \in VerifiedCanonically
    BY DEF IInv, SpellingNeverHelps
  <2>1. VerifiesAsWritten(DraftOf[draft], env)
    BY DEF Verified, Where
  <2>2. VerifiesCanonically(DraftOf[draft], env)
    BY <2>1, DraftsAreKnown, CanonicalPasses
  <2> QED BY <2>2 DEF VerifiedCanonically, Where
<1> QED BY <1>1, SpecIInv, PTL

(* What an export grants had passed the gate, and so the verifier. *)
LEMMA ExportedPassed ==
    ASSUME NEW d, NEW env, Exportable(d, env)
    PROVE  /\ ValidPacket(BuildPacket(d, env))
           /\ Verify(d, env).status = "passed"
BY DEF Exportable, TrustGate

(* A consumer has no name for an alias, so a packet that is valid lists    *)
(* none among its effects.                                                 *)
LEMMA ExportedHasNoAlias ==
    ASSUME NEW d, NEW env, ValidPacket(BuildPacket(d, env))
    PROVE  /\ d.workflow \in Registry.workflows
           /\ \A op \in OpsOf(d) : NormalizedEffects(op.effects) = op.effects
<1> DEFINE p == BuildPacket(d, env)
<1>1. p.workflow = d.workflow /\ p.workflow \in Consumer.workflows
  BY DEF BuildPacket, ValidPacket
<1>2. p.allowed \subseteq Consumer.allowedEffects
  BY DEF ValidPacket, ValidEffects
<1>3. \A e \in EffectsOf(d) : ConsumerName(Consumer.effectName, e) \in p.allowed
  BY DEF BuildPacket
<1> HIDE DEF p
<1>4. \A e \in EffectsOf(d) : e \notin DOMAIN Registry.effectAlias
  BY <1>2, <1>3, ConsumerIsCanonical DEF ConsumerName
<1>5. \A op \in OpsOf(d) : NormalizedEffects(op.effects) = op.effects
  BY <1>4 DEF EffectsOf, NormalizedEffects, NormalizeEffect
<1> QED BY <1>1, <1>5, ConsumerIsCanonical

(* The operations a packet lists are those that were judged. *)
LEMMA CanonicalOperations ==
    ASSUME NEW d \in DraftRecords, NEW env, ValidPacket(BuildPacket(d, env))
    PROVE  BuildPacket(d, env).canonical = OpsOf(Normalize(d))
<1>1. Normalize(d).ops = NormalizedOps(d.ops)
  BY CanonicalIs DEF Rewritten
<1>2. OpsOf(Normalize(d)) = {NormalizeOp(op) : op \in OpsOf(d)}
  BY <1>1 DEF OpsOf, NormalizedOps
<1> DEFINE Named(op) == [op EXCEPT !.op = IF ResolveOp(@) # None THEN ResolveOp(@) ELSE @]
<1>3. BuildPacket(d, env).canonical = {Named(op) : op \in OpsOf(d)}
  BY DEF BuildPacket
<1>4. ASSUME NEW op \in OpsOf(d) PROVE NormalizeOp(op) = Named(op)
  <2> DEFINE name == NormalizedName(op.op)
             same == [id |-> op.id, op |-> name, effects |-> op.effects,
                      capabilities |-> op.capabilities, policies |-> op.policies]
  <2>1. op \in Operations
    BY DEF OpsOf, DraftRecords
  <2>2. op = [id |-> op.id, op |-> op.op, effects |-> op.effects,
              capabilities |-> op.capabilities, policies |-> op.policies]
    BY <2>1, OperationIs
  <2>3. NormalizeOp([id |-> op.id, op |-> op.op, effects |-> op.effects,
                     capabilities |-> op.capabilities, policies |-> op.policies]) = same
    BY NormalizeOpIs, ExportedHasNoAlias
  <2>4. Named(op) = [op EXCEPT !.op = name]
    BY DEF NormalizedName
  <2> HIDE DEF name
  <2>5. [op EXCEPT !.op = name] = same
    BY <2>1 DEF Operations
  <2> QED BY <2>2, <2>3, <2>4, <2>5
<1> QED BY <1>2, <1>3, <1>4

(* The verifier found every effect of a specified operation admitted by    *)
(* its spec, and none of a family the workflow forbids.                    *)
LEMMA PassedEffects ==
    ASSUME NEW n, NEW op \in OpsOf(n), NEW e \in op.effects,
           OperationFindings(n.workflow, op) = {}, ProfileFindings(n) = {}
    PROVE  /\ ResolveOp(op.op) # None => EffectAllowed(SpecOf(op.op), e)
           /\ Families(e) \cap Demand(n.workflow, "forbidden_families") = {}
<1>1. ResolveOp(op.op) # None => EffectAllowed(SpecOf(op.op), e)
  <2> SUFFICES ASSUME ResolveOp(op.op) # None PROVE EffectAllowed(SpecOf(op.op), e)
    OBVIOUS
  <2>1. SpecFindings(n.workflow, op, SpecOf(op.op)) = {}
    BY DEF OperationFindings
  <2> DEFINE s == SpecOf(op.op)
             admitted == \A f \in op.effects : EffectAllowed(s, f)
  <2>2. (IF admitted THEN {} ELSE {"O009"}) \subseteq SpecFindings(n.workflow, op, s)
    BY DEF SpecFindings
  <2>3. admitted
    <3> HIDE DEF admitted, s
    <3> QED BY <2>1, <2>2 DEF s
  <2> QED BY <2>3
<1>2. Families(e) \cap Demand(n.workflow, "forbidden_families") = {}
  <2> DEFINE clear == Demand(n.workflow, "forbidden_families") \cap FamiliesOf(EffectsOf(n)) = {}
  <2>1. (IF clear THEN {} ELSE {"M004"}) \subseteq ProfileFindings(n)
    BY DEF ProfileFindings
  <2>2. clear
    <3> HIDE DEF clear
    <3> QED BY <2>1
  <2> QED BY <2>2 DEF FamiliesOf, EffectsOf
<1> QED BY <1>1, <1>2

LEMMA ExportedIsDescribed ==
    ASSUME NEW d \in DraftRecords, NEW env, Exportable(d, env)
    PROVE  DescribedAsJudged(d, env)
<1> DEFINE p == BuildPacket(d, env)
           n == Normalize(d)
<1>1. ValidPacket(p) /\ Verify(d, env).status = "passed"
  BY ExportedPassed
<1>2. p.canonical = OpsOf(n)
  BY <1>1, CanonicalOperations
<1>3. p.workflow = n.workflow
  <2>1. p.workflow = d.workflow /\ n.workflow = NormalizeWorkflow(d.workflow)
    BY CanonicalIs DEF BuildPacket, Rewritten
  <2> QED BY <1>1, <2>1, ExportedHasNoAlias DEF NormalizeWorkflow
<1>4. ProfileFindings(n) = {} /\ \A op \in OpsOf(n) : OperationFindings(n.workflow, op) = {}
  BY <1>1, PassedHasNoFindings
<1> HIDE DEF p, n
<1>5. \A op \in p.canonical : \A e \in op.effects :
         /\ ResolveOp(op.op) # None => EffectAllowed(SpecOf(op.op), e)
         /\ Families(e) \cap Demand(p.workflow, "forbidden_families") = {}
  BY <1>2, <1>3, <1>4, PassedEffects
<1> QED BY <1>2, <1>3, <1>5 DEF DescribedAsJudged, p, n

(* PacketDescribesWhatWasJudged: whatever packet is in the directory, it   *)
(* tells a consumer of the operations, effects and workflow the verifier   *)
(* judged, although it is built from the draft as it was written.          *)
THEOREM PacketsDescribe == Spec => []PacketDescribesWhatWasJudged
<1>1. IInv => PacketDescribesWhatWasJudged
  <2> SUFFICES ASSUME IInv, Readable(dir.packet)
               PROVE  <<dir.packet.body.draft, dir.packet.body.env>> \in Described
    BY DEF PacketDescribesWhatWasJudged
  <2> DEFINE d == dir.packet.body.draft
             env == dir.packet.body.env
  <2>1. <<d, env>> \in Exports
    BY DirIs DEF Packets, ExportBodies
  <2>2. d \in Drafts /\ env \in Environments /\ Exportable(DraftOf[d], env)
    BY <2>1 DEF Exports, Where
  <2>3. DescribedAsJudged(DraftOf[d], env)
    BY <2>2, DraftsAreKnown, ExportedIsDescribed
  <2> QED BY <2>2, <2>3 DEF Described, Where
<1> QED BY <1>1, SpecIInv, PTL

=============================================================================
