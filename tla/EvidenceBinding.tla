-------------------------- MODULE EvidenceBinding --------------------------
(***************************************************************************)
(* What an accepted piece of evidence says about the draft being judged.   *)
(*                                                                         *)
(* evaluate_trust_gate judges a draft that load_draft read into memory.    *)
(* It asks EvidenceLedger.decide six times whether the ledger's record     *)
(* warrants the draft's claim, and passes only if every answer is yes.     *)
(* The record names an artifact by path and hash.  Each decision reads     *)
(* three things that other programs may change meanwhile: the artifact,    *)
(* the file the draft was loaded from, and the artifact once more.         *)
(*                                                                         *)
(* One draft with one verified claim and one reference to evidence, and a  *)
(* record that is checked, trusted and reliable.  After a refused decision *)
(* the code goes on to collect findings; its verdict is fixed, so the run  *)
(* ends here.                                                              *)
(***************************************************************************)
EXTENDS Naturals, Sequences, FiniteSets

CONSTANTS
    Payloads,      \* parsed drafts, without the loader's own fields
    Layouts,       \* ways to write the same payload: comments, order of keys
    Canon,         \* payload |-> the payload normalize_draft makes of it
    Scoped,        \* payloads with the module, workflow and claim of the record
    Recorded,      \* the contents whose hash is the record's artifact_sha256
    Missing,       \* no file
    Garbled,       \* a file that load_yaml_no_duplicate_keys rejects
    Paths,         \* the files that matter
    DraftPath, ArtifactPath,
    HasRoot,       \* the ledger knows the directory its artifacts are in
    MaxEdits       \* bound: path |-> changes of the file in the course of a run

Content == [payload : Payloads, layout : Layouts]
FileContents == Content \cup {Missing, Garbled}

ASSUME CanonAssumption == Canon \in [Payloads -> Payloads]
ASSUME RecordAssumption == Recorded \in Content /\ Scoped \subseteq Payloads
ASSUME FilesAssumption ==
    /\ Missing \notin Content /\ Garbled \notin Content /\ Missing # Garbled
    /\ DraftPath \in Paths /\ ArtifactPath \in Paths
ASSUME BoundsAssumption == HasRoot \in BOOLEAN /\ MaxEdits \in [Paths -> Nat]

(* Who asks for a decision, in order: verify_draft; the lowering gate's    *)
(* summary and its loop over the claims; the lowering gate's own           *)
(* verify_draft; the trust gate's summary and loop.                        *)
Evaluation == <<"verifier", "gate", "gate", "verifier", "gate", "gate">>
GateDecisions == Cardinality({k \in DOMAIN Evaluation : Evaluation[k] = "gate"})

VARIABLES
    files,     \* path |-> contents
    loaded,    \* the draft in memory
    pc,        \* what the current decision reads next, or the verdict
    done,      \* decisions taken, all of them in favour
    edits      \* history: path |-> changes since the draft was loaded

vars == <<files, loaded, pc, done, edits>>

Reading == {"artifact", "draft", "again"}

TypeOK ==
    /\ files \in [Paths -> FileContents]
    /\ loaded \in Content
    /\ pc \in Reading \cup {"idle", "passed", "refused"}
    /\ done \in 0..Len(Evaluation)
    /\ pc \in Reading => done < Len(Evaluation)
    /\ edits \in [Paths -> Nat]
    /\ \A p \in Paths : edits[p] <= MaxEdits[p]

Init ==
    /\ files \in [Paths -> FileContents]
    /\ loaded = Recorded
    /\ pc = "idle"
    /\ done = 0
    /\ edits = [p \in Paths |-> 0]

-----------------------------------------------------------------------------
(* The first thing a decision reads.  Without a root the artifact cannot   *)
(* be found and is not read at all.                                        *)
FirstReading == IF HasRoot THEN "artifact" ELSE "draft"

(* The payload a decision is about: verify_draft asks with the normalized  *)
(* draft, the gates with the draft as it was loaded.                       *)
Subject == IF Evaluation[done + 1] = "verifier"
             THEN Canon[loaded.payload] ELSE loaded.payload

(* Faulty variant: whatever the file holds is judged. *)
LoadAnything ==
    /\ pc \in {"idle", "passed", "refused"}
    /\ edits' = [p \in Paths |-> 0]
    /\ done' = 0
    /\ loaded' = files[DraftPath]
    /\ pc' = FirstReading
    /\ UNCHANGED files

(* load_draft.  A draft that cannot be read or parsed is judged invalid    *)
(* before any evidence is looked at.                                       *)
Load ==
    /\ pc \in {"idle", "passed", "refused"}
    /\ edits' = [p \in Paths |-> 0]
    /\ done' = 0
    /\ \/ /\ files[DraftPath] \in Content
          /\ loaded' = files[DraftPath]
          /\ pc' = FirstReading
       \/ /\ files[DraftPath] \notin Content
          /\ pc' = "refused"
          /\ UNCHANGED loaded
    /\ UNCHANGED files

(* The decision is in favour: on to the next one, or the draft passes. *)
Accept ==
    /\ done' = done + 1
    /\ pc' = IF done + 1 = Len(Evaluation) THEN "passed" ELSE FirstReading

Refuse == pc' = "refused" /\ UNCHANGED done

(* Faulty variant: the artifact need only exist. *)
ReadArtifactUnhashed ==
    /\ pc = "artifact"
    /\ IF Subject \in Scoped /\ files[ArtifactPath] # Missing
         THEN pc' = "draft" /\ UNCHANGED done
         ELSE Refuse
    /\ UNCHANGED <<files, loaded, edits>>

(* The artifact must have the recorded hash. *)
ReadArtifact ==
    /\ pc = "artifact"
    /\ \/ /\ Subject \in Scoped /\ files[ArtifactPath] = Recorded
          /\ pc' = "draft" /\ UNCHANGED done
       \/ /\ ~(Subject \in Scoped /\ files[ArtifactPath] = Recorded)
          /\ Refuse
    /\ UNCHANGED <<files, loaded, edits>>

(* Faulty variants: a draft in scope is bound to the artifact wherever it  *)
(* came from; only a file with the recorded hash is.                       *)
ReadDraftUnbound ==
    /\ pc = "draft"
    /\ IF Subject \in Scoped /\ files[DraftPath] # Missing THEN Accept ELSE Refuse
    /\ UNCHANGED <<files, loaded, edits>>

ReadDraftByHash ==
    /\ pc = "draft"
    /\ IF Subject \in Scoped /\ files[DraftPath] = Recorded THEN Accept ELSE Refuse
    /\ UNCHANGED <<files, loaded, edits>>

(* The file the draft came from.  If it has the recorded hash, that is     *)
(* enough, whatever was loaded from it.  Otherwise the payloads are        *)
(* compared; without a root the artifact's cannot be read, neither hash    *)
(* exists, and two hashes that do not exist count as equal.                *)
ReadDraft ==
    /\ pc = "draft"
    /\ \/ /\ ~(Subject \in Scoped) \/ files[DraftPath] = Missing
          /\ Refuse
       \/ /\ Subject \in Scoped /\ files[DraftPath] # Missing
          /\ IF files[DraftPath] = Recorded \/ ~HasRoot
               THEN Accept
               ELSE pc' = "again" /\ UNCHANGED done
    /\ UNCHANGED <<files, loaded, edits>>

(* The artifact again, for its payload.  If it cannot be read or parsed    *)
(* any more, neither hash exists, as above.                                *)
ReadArtifactAgain ==
    /\ pc = "again"
    /\ \/ /\ files[ArtifactPath] \in Content
          /\ files[ArtifactPath].payload # Subject
          /\ Refuse
       \/ /\ files[ArtifactPath] \in Content => files[ArtifactPath].payload = Subject
          /\ Accept
    /\ UNCHANGED <<files, loaded, edits>>

(* Another program changes a file, in the course of a run or between runs. *)
Edit(p) ==
    /\ pc \in Reading => edits[p] < MaxEdits[p]
    /\ \E c \in FileContents : files' = [files EXCEPT ![p] = c]
    /\ edits' = IF pc \in Reading THEN [edits EXCEPT ![p] = @ + 1] ELSE edits
    /\ UNCHANGED <<loaded, pc, done>>

Next ==
    \/ Load
    \/ ReadArtifact
    \/ ReadDraft
    \/ ReadArtifactAgain
    \/ \E p \in Paths : Edit(p)

Spec == Init /\ [][Next]_vars

-----------------------------------------------------------------------------
(* Bound: what was judged is what the evidence was recorded for. *)
Bound == loaded.payload = Recorded.payload

(* If neither file changes while a draft is judged, the draft passes only  *)
(* if the evidence was recorded for its payload.  About decide: the three  *)
(* readings of the two files.                                              *)
QuietRunIsBound ==
    pc = "passed" /\ (\A p \in Paths : edits[p] = 0) => Bound

(* If the draft's file does not change, the artifact may: each of the      *)
(* gates' four decisions wants to see the recorded artifact first and then *)
(* another one, so a draft the evidence was not recorded for cannot pass   *)
(* before the artifact has changed seven times.  About the decisions that  *)
(* verify_draft, the lowering gate and the trust gate each repeat.         *)
StableDraftIsBound ==
    /\ pc = "passed"
    /\ edits[DraftPath] = 0
    /\ edits[ArtifactPath] < 2 * GateDecisions - 1
    => Bound

(* Evidence survives another layout: while neither file changes, the       *)
(* artifact is as recorded and the payload judged is the recorded one, in  *)
(* scope, no decision refuses the draft, however its file is written.      *)
(* About the comment in decide: a harmless YAML comment must not erase a   *)
(* warrant when the canonical payload is unchanged.                        *)
CommentKeepsWarrant ==
    [][ /\ pc \in Reading
        /\ \A p \in Paths : edits[p] = 0
        /\ files[ArtifactPath] = Recorded /\ Bound
        /\ {loaded.payload, Canon[loaded.payload]} \subseteq Scoped
        => pc' # "refused" ]_vars

=============================================================================
