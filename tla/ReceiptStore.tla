---------------------------- MODULE ReceiptStore ----------------------------
(***************************************************************************)
(* The artifact directory of src/ainir/trust_receipt_store.py: issuers     *)
(* that persist a Trust Gate decision, its TrustReceipt and a JSONL        *)
(* manifest, and replayers that read them back.                            *)
(*                                                                         *)
(* Every file is written by Path.write_text, which truncates the file when *)
(* it opens it and writes it afterwards; nothing takes a lock, renames a   *)
(* file or syncs it.  So each write is two steps here, other processes run *)
(* between any two steps, and an issuer may die at any of them.            *)
(*                                                                         *)
(* SHA-256 and canonical JSON are taken as injective: a digest is modelled *)
(* by the value it digests.                                                *)
(***************************************************************************)
EXTENDS Naturals, Sequences

CONSTANTS
    Issuers,    \* processes that run `receipt issue` or `trust evaluate --out-dir`
    Replayers,  \* processes that run `receipt replay`
    Drafts,     \* draft paths
    Contents,   \* what a draft and the registries it is judged by may hold
    Kinds,      \* subset of {"issue", "gate"}: the two commands that write a bundle
    Contracts,  \* receipt serializers: the v1 contract and the legacy one
    MaxIssues,  \* bound: evaluations over the life of the directory
    MaxEdits,   \* bound: edits of a draft or a registry
    MaxCrashes, \* bound: issuers that die
    GateSlot,   \* the fixed file names trust_receipt.json, trust_gate_decision.json
    NoFile,     \* a path nothing was written to
    Torn        \* a file that was truncated and not, or only partly, written

ASSUME KindsAssumption == Kinds \subseteq {"issue", "gate"}
ASSUME BoundsAssumption ==
    MaxIssues \in Nat /\ MaxEdits \in Nat /\ MaxCrashes \in Nat

-----------------------------------------------------------------------------
(* A receipt id is a digest of the draft, the registry snapshot, the       *)
(* verifier report and the trusted context; the context's purpose differs  *)
(* from one command to the other.                                          *)
Rids == [draft : Drafts, content : Contents, purpose : Kinds]

(* One run of the Trust Gate: its decision, the receipt embedded in it,    *)
(* and the bytes both are written as.  `generated_at` makes the bytes of   *)
(* two runs differ (the serial); the stable projection leaves it out.      *)
Artifact == [rid : Rids, contract : Contracts, serial : 1..MaxIssues]
StableProjection(a) == <<a.rid, a.contract>>

IssueRids == {r \in Rids : r.purpose = "issue"}
Slots == IssueRids \cup {GateSlot}
SlotOf(rid) == IF rid.purpose = "issue" THEN rid ELSE GateSlot

ASSUME ConstantsDistinct ==
    /\ NoFile # Torn
    /\ NoFile \notin Artifact /\ Torn \notin Artifact
    /\ GateSlot \notin Rids

FileState == Artifact \cup {NoFile, Torn}

ManifestRecord ==
    [rid : Rids, status : {"active", "superseded"},
     receiptRaw : FileState, receiptCanonical : Artifact,
     decisionRaw : FileState, decisionCanonical : Artifact,
     supersededBy : FileState]

Manifest == [exists : BOOLEAN, lines : Seq(ManifestRecord), torn : BOOLEAN]

VARIABLES
    content,      \* draft |-> what it and its registries hold now
    edits, issued, crashes,   \* counters, bounded by the constants
    decisionFile, \* slot |-> state of its decision file
    receiptFile,  \* slot |-> state of its receipt file
    manifest,     \* trust_receipt_manifest.jsonl; torn: its last line is broken
    pc,           \* issuer |-> the step it is at
    art,          \* issuer |-> the run of the gate it is persisting
    rawReceipt,   \* issuer |-> receipt bytes it read back
    rawDecision,  \* issuer |-> decision bytes it read back
    text,         \* issuer |-> manifest lines it is about to write
    outcome,      \* issuer |-> how its latest command ended
    completed,    \* runs whose manifest record was written in full
    replay        \* replayer |-> what it has read so far

vars == <<content, edits, issued, crashes, decisionFile, receiptFile, manifest,
          pc, art, rawReceipt, rawDecision, text, outcome, completed, replay>>

world     == <<content, edits>>
issuerVars == <<pc, art, rawReceipt, rawDecision, text, outcome>>
files     == <<decisionFile, receiptFile>>

Steps == {"idle", "openDecision", "fillDecision", "openReceipt", "fillReceipt",
          "hashReceipt", "hashDecision", "load", "openManifest", "fillManifest"}

ReplayState ==
    [pc : {"idle", "evaluate", "decision", "manifest", "reread", "passed", "failed"},
     slot : Slots \cup {NoFile}, first : FileState, fresh : BOOLEAN,
     decision : FileState, manifest : Manifest]

TypeOK ==
    /\ content \in [Drafts -> Contents]
    /\ edits \in 0..MaxEdits /\ issued \in 0..MaxIssues /\ crashes \in 0..MaxCrashes
    /\ decisionFile \in [Slots -> FileState]
    /\ receiptFile \in [Slots -> FileState]
    /\ manifest \in Manifest
    /\ pc \in [Issuers -> Steps]
    /\ art \in [Issuers -> FileState]
    /\ rawReceipt \in [Issuers -> FileState]
    /\ rawDecision \in [Issuers -> FileState]
    /\ text \in [Issuers -> Seq(ManifestRecord)]
    /\ outcome \in [Issuers -> {"none", "issued", "refused", "died"}]
    /\ completed \subseteq Artifact
    /\ replay \in [Replayers -> ReplayState]

EmptyManifest == [exists |-> FALSE, lines |-> <<>>, torn |-> FALSE]

NoReplay == [pc |-> "idle", slot |-> NoFile, first |-> NoFile, fresh |-> FALSE,
             decision |-> NoFile, manifest |-> EmptyManifest]

Init ==
    /\ content \in [Drafts -> Contents]
    /\ edits = 0 /\ issued = 0 /\ crashes = 0
    /\ decisionFile = [s \in Slots |-> NoFile]
    /\ receiptFile = [s \in Slots |-> NoFile]
    /\ manifest = EmptyManifest
    /\ pc = [p \in Issuers |-> "idle"]
    /\ art = [p \in Issuers |-> NoFile]
    /\ rawReceipt = [p \in Issuers |-> NoFile]
    /\ rawDecision = [p \in Issuers |-> NoFile]
    /\ text = [p \in Issuers |-> <<>>]
    /\ outcome = [p \in Issuers |-> "none"]
    /\ completed = {}
    /\ replay = [q \in Replayers |-> NoReplay]

-----------------------------------------------------------------------------
(*                          Writing a bundle                               *)

Goto(p, step) == pc' = [pc EXCEPT ![p] = step]

(* A draft or a registry file is edited while the directory is in use. *)
EditContent(d, c) ==
    /\ edits < MaxEdits /\ c # content[d]
    /\ content' = [content EXCEPT ![d] = c]
    /\ edits' = edits + 1
    /\ UNCHANGED <<issued, crashes, files, manifest, issuerVars, completed, replay>>

(* load_draft and evaluate_trust_gate. *)
Evaluate(p, d, kind, contract) ==
    /\ pc[p] = "idle" /\ issued < MaxIssues
    /\ issued' = issued + 1
    /\ art' = [art EXCEPT ![p] =
         [rid |-> [draft |-> d, content |-> content[d], purpose |-> kind],
          contract |-> contract, serial |-> issued + 1]]
    /\ outcome' = [outcome EXCEPT ![p] = "none"]
    /\ Goto(p, "openDecision")
    /\ UNCHANGED <<world, crashes, files, manifest, rawReceipt, rawDecision, text,
                   completed, replay>>

(* What write_text leaves when it writes over a file in state old: old is  *)
(* Torn, because the same call truncated it, unless another process has    *)
(* filled the file since.  The bytes then go on top of the other's, and    *)
(* end before them or not, depending on the two lengths.                   *)
Written(a, old) == IF old \in Artifact THEN {a, Torn} ELSE {a}

OpenDecision(p) ==
    /\ pc[p] = "openDecision"
    /\ decisionFile' = [decisionFile EXCEPT ![SlotOf(art[p].rid)] = Torn]
    /\ Goto(p, "fillDecision")
    /\ UNCHANGED <<world, issued, crashes, receiptFile, manifest, art, rawReceipt,
                   rawDecision, text, outcome, completed, replay>>

FillDecision(p) ==
    /\ pc[p] = "fillDecision"
    /\ \E new \in Written(art[p], decisionFile[SlotOf(art[p].rid)]) :
         decisionFile' = [decisionFile EXCEPT ![SlotOf(art[p].rid)] = new]
    /\ Goto(p, "openReceipt")
    /\ UNCHANGED <<world, issued, crashes, receiptFile, manifest, art, rawReceipt,
                   rawDecision, text, outcome, completed, replay>>

OpenReceipt(p) ==
    /\ pc[p] = "openReceipt"
    /\ receiptFile' = [receiptFile EXCEPT ![SlotOf(art[p].rid)] = Torn]
    /\ Goto(p, "fillReceipt")
    /\ UNCHANGED <<world, issued, crashes, decisionFile, manifest, art, rawReceipt,
                   rawDecision, text, outcome, completed, replay>>

FillReceipt(p) ==
    /\ pc[p] = "fillReceipt"
    /\ \E new \in Written(art[p], receiptFile[SlotOf(art[p].rid)]) :
         receiptFile' = [receiptFile EXCEPT ![SlotOf(art[p].rid)] = new]
    /\ Goto(p, "hashReceipt")
    /\ UNCHANGED <<world, issued, crashes, decisionFile, manifest, art, rawReceipt,
                   rawDecision, text, outcome, completed, replay>>

(* The raw digests come from reading the files back, the canonical ones    *)
(* from the objects in memory.                                             *)
HashReceipt(p) ==
    /\ pc[p] = "hashReceipt"
    /\ rawReceipt' = [rawReceipt EXCEPT ![p] = receiptFile[SlotOf(art[p].rid)]]
    /\ Goto(p, "hashDecision")
    /\ UNCHANGED <<world, issued, crashes, files, manifest, art, rawDecision, text,
                   outcome, completed, replay>>

RecordOf(a, receiptBytes, decisionBytes) ==
    [rid |-> a.rid, status |-> "active",
     receiptRaw |-> receiptBytes, receiptCanonical |-> a,
     decisionRaw |-> decisionBytes, decisionCanonical |-> a,
     supersededBy |-> NoFile]

(* The gate bundle writes a manifest of its one record whatever the file   *)
(* holds; an issue first loads the manifest it extends.                    *)
HashDecision(p) ==
    /\ pc[p] = "hashDecision"
    /\ LET bytes == decisionFile[SlotOf(art[p].rid)] IN
         /\ rawDecision' = [rawDecision EXCEPT ![p] = bytes]
         /\ IF art[p].rid.purpose = "issue"
              THEN Goto(p, "load") /\ UNCHANGED text
              ELSE /\ Goto(p, "openManifest")
                   /\ text' = [text EXCEPT ![p] =
                                 <<RecordOf(art[p], rawReceipt[p], bytes)>>]
    /\ UNCHANGED <<world, issued, crashes, files, manifest, art, rawReceipt,
                   outcome, completed, replay>>

(* Faulty variants of Supersede and WithActiveRecord, for mutation runs. *)
SupersedeUnknownStatus(old, record) ==
    IF old.rid = record.rid THEN [old EXCEPT !.status = "replaced"] ELSE old
SupersedeOthers(old, record) ==
    IF old.rid # record.rid THEN [old EXCEPT !.status = "superseded"] ELSE old
SupersedeSameBytes(old, record) ==
    IF old.rid = record.rid /\ old.receiptRaw = record.receiptRaw
      THEN [old EXCEPT !.status = "superseded"] ELSE old
OnlyThisRecord(lines, record) == <<record>>

(* Older active records of the receipt id are marked superseded. *)
Supersede(old, record) ==
    IF old.rid = record.rid /\ old.status # "superseded"
      THEN [old EXCEPT !.status = "superseded", !.supersededBy = record.receiptRaw]
      ELSE old

WithActiveRecord(lines, record) ==
    Append([i \in DOMAIN lines |-> Supersede(lines[i], record)], record)

(* A manifest with a broken line raises ValueError: the bundle's other two *)
(* files stay as they were written.                                        *)
RefuseDefective(p) ==
    /\ pc[p] = "load" /\ manifest.torn
    /\ outcome' = [outcome EXCEPT ![p] = "refused"]
    /\ Goto(p, "idle")
    /\ UNCHANGED <<world, issued, crashes, files, manifest, art, rawReceipt,
                   rawDecision, text, completed, replay>>

(* Faulty variant: the broken line is skipped. *)
LoadReadableLines(p) ==
    /\ pc[p] = "load"
    /\ text' = [text EXCEPT ![p] =
         WithActiveRecord(manifest.lines,
                          RecordOf(art[p], rawReceipt[p], rawDecision[p]))]
    /\ Goto(p, "openManifest")
    /\ UNCHANGED <<world, issued, crashes, files, manifest, art, rawReceipt,
                   rawDecision, outcome, completed, replay>>

LoadManifest(p) ==
    /\ pc[p] = "load" /\ ~manifest.torn
    /\ text' = [text EXCEPT ![p] =
         WithActiveRecord(manifest.lines,
                          RecordOf(art[p], rawReceipt[p], rawDecision[p]))]
    /\ Goto(p, "openManifest")
    /\ UNCHANGED <<world, issued, crashes, files, manifest, art, rawReceipt,
                   rawDecision, outcome, completed, replay>>

OpenManifest(p) ==
    /\ pc[p] = "openManifest"
    /\ manifest' = [exists |-> TRUE, lines |-> <<>>, torn |-> FALSE]
    /\ Goto(p, "fillManifest")
    /\ UNCHANGED <<world, issued, crashes, files, art, rawReceipt, rawDecision, text,
                   outcome, completed, replay>>

(* What the manifest may hold once new has been written at its beginning:  *)
(* just new, when nothing else was written since the truncation; otherwise *)
(* what the other wrote may stick out, by whole lines or by part of one.   *)
Overwritten(new) ==
    LET old == manifest.lines
        kept == new \o SubSeq(old, Len(new) + 1, Len(old))
    IN  {[exists |-> TRUE, lines |-> kept, torn |-> manifest.torn]} \cup
        (IF old = <<>> THEN {}
         ELSE {[exists |-> TRUE, lines |-> new, torn |-> TRUE]})

FillManifest(p) ==
    /\ pc[p] = "fillManifest"
    /\ manifest' \in Overwritten(text[p])
    /\ completed' = completed \cup {art[p]}
    /\ outcome' = [outcome EXCEPT ![p] = "issued"]
    /\ Goto(p, "idle")
    /\ UNCHANGED <<world, issued, crashes, files, art, rawReceipt, rawDecision, text,
                   replay>>

(* The process is killed, or a write raises OSError: whatever was written  *)
(* stays.  In the middle of the manifest that is any number of whole       *)
(* lines, and perhaps a part of the next.                                  *)
Die(p) ==
    /\ pc[p] # "idle" /\ crashes < MaxCrashes
    /\ crashes' = crashes + 1
    /\ outcome' = [outcome EXCEPT ![p] = "died"]
    /\ Goto(p, "idle")
    /\ \/ UNCHANGED manifest
       \/ /\ pc[p] = "fillManifest"
          /\ \E n \in 0..Len(text[p]) - 1 :
               LET whole == SubSeq(text[p], 1, n) IN
               manifest' \in Overwritten(whole)
                     \cup {[exists |-> TRUE, lines |-> whole, torn |-> TRUE]}
    /\ UNCHANGED <<world, issued, files, art, rawReceipt, rawDecision, text,
                   completed, replay>>

-----------------------------------------------------------------------------
(*                          Replaying a receipt                            *)

(* The decision beside a receipt: the first of the candidates that exists. *)
SiblingDecision(rid) ==
    IF rid \in IssueRids /\ decisionFile[rid] # NoFile
      THEN decisionFile[rid] ELSE decisionFile[GateSlot]

(* The fresh Trust Gate run reproduces the receipt's stable projection. *)
Reproduced(receipt) == content[receipt.rid.draft] = receipt.rid.content

ActiveOf(lines, rid) ==
    {i \in DOMAIN lines : lines[i].rid = rid /\ lines[i].status = "active"}

(* Faulty variant: the record is compared by raw digests only. *)
RecordMatchesRaw(record, receipt, receiptBytes, decision) ==
    record.receiptRaw = receiptBytes /\ record.decisionRaw = decision

(* A manifest record agrees with the digests of the bundle being replayed. *)
RecordMatches(record, receipt, receiptBytes, decision) ==
    /\ record.receiptRaw = receiptBytes
    /\ record.receiptCanonical = receipt
    /\ record.decisionRaw = decision
    /\ record.decisionCanonical = decision

(* Faulty variant: no active record is as good as no conflicting one. *)
BundleWithoutConflict(receipt, receiptBytes, decision, man) ==
    /\ decision \in Artifact
    /\ StableProjection(decision) = StableProjection(receipt)
    /\ man.exists /\ ~man.torn
    /\ \A i \in ActiveOf(man.lines, receipt.rid) :
         RecordMatches(man.lines[i], receipt, receiptBytes, decision)

(* _bundle_integrity_checks for a receipt that binds no VerifiedIntent     *)
(* packet.  A receipt with no decision beside it is replayed on its own.   *)
BundleIntact(receipt, receiptBytes, decision, man) ==
    \/ decision = NoFile
    \/ /\ decision \in Artifact
       /\ StableProjection(decision) = StableProjection(receipt)
       /\ man.exists /\ ~man.torn
       /\ ActiveOf(man.lines, receipt.rid) # {}
       /\ \A i \in ActiveOf(man.lines, receipt.rid) :
            RecordMatches(man.lines[i], receipt, receiptBytes, decision)

ReplayStep(q, state) == replay' = [replay EXCEPT ![q] = state]

ReadReceipt(q, s) ==
    /\ replay[q].pc \in {"idle", "passed", "failed"}
    /\ receiptFile[s] # NoFile
    /\ ReplayStep(q, [NoReplay EXCEPT
         !.pc = IF receiptFile[s] = Torn THEN "failed" ELSE "evaluate",
         !.slot = s, !.first = receiptFile[s]])
    /\ UNCHANGED <<world, issued, crashes, files, manifest, issuerVars, completed>>

EvaluateFresh(q) ==
    /\ replay[q].pc = "evaluate"
    /\ ReplayStep(q, [replay[q] EXCEPT !.pc = "decision",
                                       !.fresh = Reproduced(replay[q].first)])
    /\ UNCHANGED <<world, issued, crashes, files, manifest, issuerVars, completed>>

ReadDecision(q) ==
    /\ replay[q].pc = "decision"
    /\ ReplayStep(q, [replay[q] EXCEPT !.pc = "manifest",
                        !.decision = SiblingDecision(replay[q].first.rid)])
    /\ UNCHANGED <<world, issued, crashes, files, manifest, issuerVars, completed>>

ReadManifest(q) ==
    /\ replay[q].pc = "manifest"
    /\ ReplayStep(q, [replay[q] EXCEPT !.pc = "reread", !.manifest = manifest])
    /\ UNCHANGED <<world, issued, crashes, files, manifest, issuerVars, completed>>

(* The receipt file is read a second time for its raw digest. *)
FinishReplay(q) ==
    /\ replay[q].pc = "reread"
    /\ LET r == replay[q]
           ok == r.fresh /\ BundleIntact(r.first, receiptFile[r.slot],
                                         r.decision, r.manifest)
       IN ReplayStep(q, [r EXCEPT !.pc = IF ok THEN "passed" ELSE "failed"])
    /\ UNCHANGED <<world, issued, crashes, files, manifest, issuerVars, completed>>

-----------------------------------------------------------------------------
WriteStep(p) ==
    \/ OpenDecision(p) \/ FillDecision(p) \/ OpenReceipt(p) \/ FillReceipt(p)
    \/ HashReceipt(p) \/ HashDecision(p) \/ RefuseDefective(p) \/ LoadManifest(p)
    \/ OpenManifest(p) \/ FillManifest(p)

Next ==
    \/ \E d \in Drafts, c \in Contents : EditContent(d, c)
    \/ \E p \in Issuers, d \in Drafts, k \in Kinds, v \in Contracts :
         Evaluate(p, d, k, v)
    \/ \E p \in Issuers : WriteStep(p) \/ Die(p)
    \/ \E q \in Replayers, s \in Slots : ReadReceipt(q, s)
    \/ \E q \in Replayers :
         EvaluateFresh(q) \/ ReadDecision(q) \/ ReadManifest(q) \/ FinishReplay(q)

Spec == Init /\ [][Next]_vars

-----------------------------------------------------------------------------
(*                              Properties                                 *)

(* What a replay of the receipt in slot s would report if it ran now,      *)
(* alone.                                                                  *)
ReplaysNow(s) ==
    /\ receiptFile[s] \in Artifact
    /\ Reproduced(receiptFile[s])
    /\ BundleIntact(receiptFile[s], receiptFile[s],
                    SiblingDecision(receiptFile[s].rid), manifest)

(* A replay that passes has read the receipt and the decision of one and   *)
(* the same run of the Trust Gate, however issuers and replayers interleave *)
(* and die: a bundle mixed from two runs with equal stable projections does *)
(* not pass.                                                               *)
NoMixedBundle ==
    \A q \in Replayers :
        replay[q].pc = "passed" => replay[q].decision = replay[q].first

(* A replay never passes on the receipt of a run whose bundle was not      *)
(* written to its end: an issuer that dies between two of its writes       *)
(* leaves nothing a replay accepts.                                        *)
OnlyFinishedIssuesPass ==
    \A q \in Replayers : replay[q].pc = "passed" => replay[q].first \in completed

(* With one issuer at a time, an active record is the only one of its      *)
(* receipt id and never older than a finished issue of it, also after      *)
(* crashes and refusals: what was superseded stays so.                     *)
ActiveIsLatest ==
    \A rid \in Rids : \A i \in ActiveOf(manifest.lines, rid) :
        /\ ActiveOf(manifest.lines, rid) = {i}
        /\ \A a \in completed : a.rid = rid =>
              a.serial <= manifest.lines[i].receiptCanonical.serial

(* With one issuer at a time, a bundle replays from the moment its command *)
(* returns success, whatever earlier commands left half written.           *)
FinishedBundleReplays ==
    \A p \in Issuers :
        outcome[p] = "issued" /\ Reproduced(art[p]) => ReplaysNow(SlotOf(art[p].rid))

(* Each finished issue has a record in the manifest. *)
KeepsTheLog ==
    (\A p \in Issuers : pc[p] # "fillManifest") =>
        \A a \in completed :
            \E i \in DOMAIN manifest.lines : manifest.lines[i].receiptCanonical = a

(* One issuer at a time that runs `receipt issue` and never dies keeps the *)
(* log: each finished issue has a record in the manifest, whatever was     *)
(* issued after it.                                                        *)
IssuesKeepTheLog ==
    /\ crashes = 0
    /\ \A a \in completed \cup {art[p] : p \in Issuers} :
          a \in Artifact => a.rid.purpose = "issue"
    => KeepsTheLog

(* A manifest left with a broken line is refused by `receipt issue`, never *)
(* rewritten: only someone who repairs it, or `trust evaluate`, which      *)
(* replaces it, makes the directory usable again.                          *)
TornManifestIsKept ==
    [][manifest.torn =>
         \/ UNCHANGED manifest
         \/ \E p \in Issuers : OpenManifest(p) /\ art[p].rid.purpose = "gate"]_vars

=============================================================================
