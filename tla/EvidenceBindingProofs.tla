----------------------- MODULE EvidenceBindingProofs -----------------------
(***************************************************************************)
(* What EvidenceBinding promises of a ledger that has a root, for every    *)
(* set of drafts, every normal form, every record and every bound.         *)
(*                                                                         *)
(* The argument counts.  Consider a draft the evidence was not recorded    *)
(* for, in a file that does not change.  A decision of a gate first reads  *)
(* the recorded artifact and then, to be in favour, another one: between   *)
(* the two the artifact changes.  Before the next decision it changes      *)
(* back.  IInv relates the number of changes to the number of decisions.   *)
(***************************************************************************)
EXTENDS EvidenceBinding, FiniteSetTheorems, TLAPS

(* Decisions the gates have taken among the first k. *)
GatesAmong == [k \in 0..6 |-> IF k < 2 THEN 0 ELSE IF k = 2 THEN 1
                              ELSE IF k < 5 THEN 2 ELSE k - 2]

Changes == edits[ArtifactPath]

(* The draft in memory is what its file still holds. *)
FileIsLoaded ==
    pc \in Reading /\ edits[DraftPath] = 0 => files[DraftPath] = loaded

(* Between decisions: two changes for each gate's decision, or one fewer   *)
(* while the artifact is not the recorded one.  Within a decision the      *)
(* recorded artifact has been seen, and one more change undoes it.         *)
CountedChanges ==
    edits[DraftPath] = 0 /\ ~Bound =>
        /\ pc = "artifact" =>
              \/ Changes >= 2 * GatesAmong[done]
              \/ Changes + 1 >= 2 * GatesAmong[done] /\ files[ArtifactPath] # Recorded
        /\ pc \in {"draft", "again"} =>
              /\ Changes >= 2 * GatesAmong[done]
              /\ files[ArtifactPath] # Recorded => Changes >= 2 * GatesAmong[done] + 1
        /\ pc = "passed" => Changes >= 7

IInv == TypeOK /\ FileIsLoaded /\ CountedChanges

(* Six decisions, four of them by the gates. *)
LEMMA SixDecisions ==
    /\ Len(Evaluation) = 6
    /\ DOMAIN Evaluation = 1..6
    /\ GateDecisions = 4
PROOF
<1>1. Len(Evaluation) = 6 /\ DOMAIN Evaluation = 1..6
  BY DEF Evaluation
<1>2. {k \in DOMAIN Evaluation : Evaluation[k] = "gate"} = {2, 3, 5, 6}
  BY <1>1 DEF Evaluation
<1>3. Cardinality({2, 3, 5, 6}) = 4
  <2>1. IsFiniteSet({}) /\ Cardinality({}) = 0
    BY FS_EmptySet
  <2>2. IsFiniteSet({2}) /\ Cardinality({2}) = 1
    BY FS_Singleton
  <2>3. IsFiniteSet({2} \cup {3}) /\ Cardinality({2} \cup {3}) = 2
    BY <2>2, FS_AddElement
  <2>4. IsFiniteSet(({2} \cup {3}) \cup {5}) /\ Cardinality(({2} \cup {3}) \cup {5}) = 3
    BY <2>3, FS_AddElement
  <2>5. Cardinality((({2} \cup {3}) \cup {5}) \cup {6}) = 4
    BY <2>4, FS_AddElement
  <2>6. (({2} \cup {3}) \cup {5}) \cup {6} = {2, 3, 5, 6}
    OBVIOUS
  <2> QED BY <2>5, <2>6
<1> QED BY <1>1, <1>2, <1>3 DEF GateDecisions

(* What one more decision adds to the count. *)
LEMMA GatesStep ==
    ASSUME NEW k \in 0..5
    PROVE  /\ GatesAmong[k] \in Nat
           /\ GatesAmong[k + 1] = GatesAmong[k] + (IF Evaluation[k + 1] = "gate" THEN 1 ELSE 0)
           /\ Evaluation[k + 1] \in {"gate", "verifier"}
PROOF
<1>1. CASE k = 0 BY <1>1 DEF GatesAmong, Evaluation
<1>2. CASE k = 1 BY <1>2 DEF GatesAmong, Evaluation
<1>3. CASE k = 2 BY <1>3 DEF GatesAmong, Evaluation
<1>4. CASE k = 3 BY <1>4 DEF GatesAmong, Evaluation
<1>5. CASE k = 4 BY <1>5 DEF GatesAmong, Evaluation
<1>6. CASE k = 5 BY <1>6 DEF GatesAmong, Evaluation
<1> QED BY <1>1, <1>2, <1>3, <1>4, <1>5, <1>6

LEMMA GatesAtEnds == GatesAmong[0] = 0 /\ GatesAmong[6] = 4
BY DEF GatesAmong

-----------------------------------------------------------------------------
(*                           Type correctness                              *)

LEMMA TypeInit == Init => TypeOK
<1> SUFFICES ASSUME Init PROVE TypeOK
  OBVIOUS
<1>1. edits \in [Paths -> Nat] /\ \A p \in Paths : edits[p] <= MaxEdits[p]
  BY BoundsAssumption DEF Init
<1> QED BY <1>1, SixDecisions, RecordAssumption DEF Init, TypeOK, Reading

LEMMA TypeNext == TypeOK /\ [Next]_vars => TypeOK'
<1> SUFFICES ASSUME TypeOK, [Next]_vars PROVE TypeOK'
  OBVIOUS
<1> USE SixDecisions
<1>1. CASE Load
  <2>1. edits' \in [Paths -> Nat] /\ \A p \in Paths : edits'[p] <= MaxEdits[p]
    BY <1>1, BoundsAssumption DEF Load
  <2>2. loaded' \in Content
    BY <1>1 DEF Load, TypeOK
  <2>3. pc' \in {"artifact", "draft", "refused"} /\ done' = 0
    BY <1>1 DEF Load, FirstReading
  <2> QED BY <1>1, <2>1, <2>2, <2>3 DEF Load, TypeOK, Reading
<1>2. CASE ReadArtifact
  BY <1>2 DEF ReadArtifact, Refuse, TypeOK, Reading
<1>3. ASSUME Accept, pc \in Reading PROVE done' \in 0..6 /\ pc' \in Reading \cup {"passed"}
                                        /\ (pc' \in Reading => done' < 6)
  BY <1>3 DEF Accept, FirstReading, TypeOK, Reading
<1>4. CASE ReadDraft
  <2>1. pc \in Reading /\ UNCHANGED <<files, loaded, edits>>
    BY <1>4 DEF ReadDraft, Reading
  <2>2. CASE Accept
    BY <1>3, <2>1, <2>2 DEF TypeOK
  <2>3. CASE pc' \in {"again", "refused"} /\ UNCHANGED done
    BY <2>1, <2>3 DEF TypeOK, Reading
  <2> QED BY <1>4, <2>2, <2>3 DEF ReadDraft, Refuse
<1>5. CASE ReadArtifactAgain
  <2>1. pc \in Reading /\ UNCHANGED <<files, loaded, edits>>
    BY <1>5 DEF ReadArtifactAgain, Reading
  <2>2. CASE Accept
    BY <1>3, <2>1, <2>2 DEF TypeOK
  <2>3. CASE Refuse
    BY <2>1, <2>3 DEF Refuse, TypeOK, Reading
  <2> QED BY <1>5, <2>2, <2>3 DEF ReadArtifactAgain
<1>6. ASSUME NEW q \in Paths, Edit(q) PROVE TypeOK'
  <2>1. files' \in [Paths -> FileContents]
    BY <1>6 DEF Edit, TypeOK
  <2>2. edits' \in [Paths -> Nat] /\ \A p \in Paths : edits'[p] <= MaxEdits[p]
    <3>1. CASE pc \notin Reading
      BY <1>6, <3>1 DEF Edit, TypeOK
    <3>2. CASE pc \in Reading
      <4>1. edits[q] < MaxEdits[q] /\ edits' = [edits EXCEPT ![q] = @ + 1]
        BY <1>6, <3>2 DEF Edit
      <4>2. MaxEdits[q] \in Nat /\ edits[q] \in Nat
        BY BoundsAssumption DEF TypeOK
      <4> QED BY <4>1, <4>2 DEF TypeOK
    <3> QED BY <3>1, <3>2
  <2> QED BY <1>6, <2>1, <2>2 DEF Edit, TypeOK
<1>7. CASE UNCHANGED vars
  BY <1>7 DEF vars, TypeOK
<1> QED BY <1>1, <1>2, <1>4, <1>5, <1>6, <1>7 DEF Next

-----------------------------------------------------------------------------
(*                     The file a draft was loaded from                    *)

LEMMA FileInit == Init => FileIsLoaded
BY DEF Init, FileIsLoaded, Reading

LEMMA FileNext == TypeOK /\ FileIsLoaded /\ [Next]_vars => FileIsLoaded'
<1> SUFFICES ASSUME TypeOK, FileIsLoaded, [Next]_vars,
                    pc' \in Reading, edits'[DraftPath] = 0
             PROVE  files'[DraftPath] = loaded'
  BY DEF FileIsLoaded, Reading
<1>1. CASE Load
  BY <1>1 DEF Load, Reading
<1>2. CASE ReadArtifact
  BY <1>2 DEF ReadArtifact, Refuse, FileIsLoaded, Reading
<1>3. CASE ReadDraft
  BY <1>3 DEF ReadDraft, FileIsLoaded, Reading
<1>4. CASE ReadArtifactAgain
  BY <1>4 DEF ReadArtifactAgain, FileIsLoaded, Reading
<1>5. ASSUME NEW q \in Paths, Edit(q) PROVE files'[DraftPath] = loaded'
  <2>1. pc \in Reading /\ edits' = [edits EXCEPT ![q] = @ + 1] /\ UNCHANGED loaded
    BY <1>5 DEF Edit
  <2>2. q # DraftPath /\ edits[DraftPath] = 0
    BY <2>1, FilesAssumption DEF TypeOK
  <2>3. files'[DraftPath] = files[DraftPath]
    BY <1>5, <2>2 DEF Edit, TypeOK
  <2> QED BY <2>1, <2>2, <2>3 DEF FileIsLoaded
<1>6. CASE UNCHANGED vars
  BY <1>6 DEF vars, FileIsLoaded
<1> QED BY <1>1, <1>2, <1>3, <1>4, <1>5, <1>6 DEF Next

-----------------------------------------------------------------------------
(*                          Counting the changes                           *)

LEMMA CountInit == Init => CountedChanges
BY DEF Init, CountedChanges

(* A decision in favour of a draft it should refuse: what the next one, or *)
(* the verdict, may assume.                                                *)
LEMMA CountAccept ==
    ASSUME TypeOK, HasRoot, pc = "again", Accept, UNCHANGED <<files, loaded, edits>>,
           Changes >= 2 * GatesAmong[done],
           Evaluation[done + 1] = "gate" =>
              files[ArtifactPath] # Recorded /\ Changes >= 2 * GatesAmong[done] + 1
    PROVE  CountedChanges'
PROOF
<1>1. done \in 0..5 /\ Changes \in Nat
  BY SixDecisions, FilesAssumption DEF TypeOK, Reading, Changes
<1>2. /\ done' = done + 1
      /\ pc' = IF done' = 6 THEN "passed" ELSE "artifact"
  BY SixDecisions DEF Accept, FirstReading
<1>3. /\ GatesAmong[done] \in Nat
      /\ GatesAmong[done'] = GatesAmong[done] + (IF Evaluation[done + 1] = "gate" THEN 1 ELSE 0)
  BY <1>1, <1>2, GatesStep
<1>4. /\ Changes' = Changes /\ files'[ArtifactPath] = files[ArtifactPath]
  BY DEF Changes
<1>5. \/ Changes >= 2 * GatesAmong[done']
      \/ Changes + 1 >= 2 * GatesAmong[done'] /\ files[ArtifactPath] # Recorded
  <2>1. CASE Evaluation[done + 1] = "gate"
    BY <1>1, <1>3, <2>1
  <2>2. CASE Evaluation[done + 1] # "gate"
    BY <1>1, <1>3, <2>2
  <2> QED BY <2>1, <2>2
<1>6. done' = 6 => Changes >= 7
  <2> SUFFICES ASSUME done' = 6 PROVE Changes >= 7
    OBVIOUS
  <2>1. GatesAmong[done'] = 4
    BY GatesAtEnds
  <2> QED BY <1>1, <1>5, <2>1
<1> QED BY <1>2, <1>4, <1>5, <1>6 DEF CountedChanges

LEMMA CountNext ==
    ASSUME HasRoot, TypeOK, FileIsLoaded, CountedChanges, [Next]_vars
    PROVE  CountedChanges'
PROOF
<1>1. CASE Load
  <2>1. edits'[ArtifactPath] = 0 /\ done' = 0 /\ pc' \in {"artifact", "refused"}
    BY <1>1, FilesAssumption DEF Load, FirstReading
  <2> QED BY <2>1, GatesAtEnds DEF CountedChanges, Changes
<1>2. CASE ReadArtifact
  <2>1. /\ UNCHANGED <<files, loaded, edits, done>> /\ pc = "artifact"
        /\ \/ pc' = "draft" /\ files[ArtifactPath] = Recorded
           \/ pc' = "refused"
    BY <1>2 DEF ReadArtifact, Refuse
  <2>2. done \in 0..5 /\ Changes \in Nat /\ GatesAmong[done] \in Nat
    BY <2>1, SixDecisions, GatesStep, FilesAssumption DEF TypeOK, Reading, Changes
  <2> QED BY <2>1, <2>2 DEF CountedChanges, Changes, Bound
<1>3. CASE ReadDraft
  <2> SUFFICES ASSUME edits'[DraftPath] = 0, ~Bound' PROVE CountedChanges'
    BY DEF CountedChanges
  <2>1. /\ UNCHANGED <<files, loaded, edits>> /\ pc = "draft"
    BY <1>3 DEF ReadDraft
  <2>2. files[DraftPath] # Recorded
    BY <2>1 DEF FileIsLoaded, Bound, Reading
  <2>3. pc' \in {"again", "refused"} /\ UNCHANGED done
    BY <1>3, <2>2 DEF ReadDraft, Refuse
  <2> QED BY <2>1, <2>3 DEF CountedChanges, Changes, Bound
<1>4. CASE ReadArtifactAgain
  <2> SUFFICES ASSUME edits'[DraftPath] = 0, ~Bound' PROVE CountedChanges'
    BY DEF CountedChanges
  <2>1. /\ UNCHANGED <<files, loaded, edits>> /\ pc = "again"
    BY <1>4 DEF ReadArtifactAgain
  <2>2. /\ Changes >= 2 * GatesAmong[done]
        /\ files[ArtifactPath] # Recorded => Changes >= 2 * GatesAmong[done] + 1
        /\ ~Bound
    BY <2>1 DEF CountedChanges, Bound
  <2>3. CASE Refuse
    BY <2>3 DEF Refuse, CountedChanges
  <2>4. CASE /\ files[ArtifactPath] \in Content => files[ArtifactPath].payload = Subject
             /\ Accept
    <3>1. Evaluation[done + 1] = "gate" => Subject = loaded.payload
      BY DEF Subject
    <3>2. Evaluation[done + 1] = "gate" => files[ArtifactPath] # Recorded
      BY <2>2, <2>4, <3>1, RecordAssumption DEF Bound
    <3> QED BY <2>1, <2>2, <2>4, <3>2, CountAccept
  <2> QED BY <1>4, <2>3, <2>4 DEF ReadArtifactAgain
<1>5. ASSUME NEW q \in Paths, Edit(q) PROVE CountedChanges'
  <2> SUFFICES ASSUME edits'[DraftPath] = 0, ~Bound' PROVE CountedChanges'
    BY DEF CountedChanges
  <2>1. UNCHANGED <<loaded, pc, done>>
    BY <1>5 DEF Edit
  <2>2. CASE pc \notin Reading
    BY <1>5, <2>1, <2>2 DEF Edit, CountedChanges, Changes, Bound, Reading
  <2>3. CASE pc \in Reading
    <3>1. edits' = [edits EXCEPT ![q] = @ + 1]
      BY <1>5, <2>3 DEF Edit
    <3>2. q # DraftPath /\ edits[DraftPath] = 0 /\ ~Bound
      BY <2>1, <3>1, FilesAssumption DEF TypeOK, Bound
    <3>3. done \in 0..5 /\ Changes \in Nat /\ GatesAmong[done] \in Nat
      BY <2>3, SixDecisions, GatesStep, FilesAssumption DEF TypeOK, Reading, Changes
    <3>4. CASE q = ArtifactPath
      <4>1. Changes' = Changes + 1
        BY <3>1, <3>4 DEF TypeOK, Changes
      <4>2. pc = "artifact" => Changes' >= 2 * GatesAmong[done]
        BY <3>2, <3>3, <4>1 DEF CountedChanges
      <4>3. pc \in {"draft", "again"} => Changes' >= 2 * GatesAmong[done] + 1
        BY <3>2, <3>3, <4>1 DEF CountedChanges
      <4>4. Changes' \in Nat
        BY <3>3, <4>1
      <4> QED BY <2>1, <2>3, <3>3, <4>2, <4>3, <4>4 DEF CountedChanges, Reading
    <3>5. CASE q # ArtifactPath
      <4>1. Changes' = Changes /\ files'[ArtifactPath] = files[ArtifactPath]
        BY <1>5, <3>1, <3>5, FilesAssumption DEF Edit, TypeOK, Changes
      <4> QED BY <2>1, <3>2, <4>1 DEF CountedChanges
    <3> QED BY <3>4, <3>5
  <2> QED BY <2>2, <2>3
<1>6. CASE UNCHANGED vars
  BY <1>6 DEF vars, CountedChanges, Changes, Bound
<1> QED BY <1>1, <1>2, <1>3, <1>4, <1>5, <1>6 DEF Next

-----------------------------------------------------------------------------
(*                               Theorems                                  *)

(* The variables keep their types: what a run holds in memory is a parsed  *)
(* draft, and a decision is pending only while fewer than six were taken.  *)
THEOREM TypeCorrect == Spec => []TypeOK
<1>1. Init => TypeOK
  BY TypeInit
<1>2. TypeOK /\ [Next]_vars => TypeOK'
  BY TypeNext
<1> QED BY <1>1, <1>2, PTL DEF Spec

(* A ledger with a root: a draft whose file does not change passes with    *)
(* evidence recorded for another payload only if the artifact changes      *)
(* seven times while the draft is judged.                                  *)
THEOREM StableDraftsAreBound ==
    ASSUME HasRoot
    PROVE  Spec => []StableDraftIsBound
<1>1. Init => IInv
  BY TypeInit, FileInit, CountInit DEF IInv
<1>2. IInv /\ [Next]_vars => IInv'
  BY TypeNext, FileNext, CountNext DEF IInv
<1>3. IInv => StableDraftIsBound
  <2> SUFFICES ASSUME TypeOK, CountedChanges, pc = "passed", edits[DraftPath] = 0,
                      Changes < 2 * GateDecisions - 1
               PROVE  Bound
    BY DEF IInv, StableDraftIsBound, Changes
  <2>1. Changes \in Nat /\ Changes < 7
    BY SixDecisions, FilesAssumption DEF TypeOK, Changes
  <2> QED BY <2>1 DEF CountedChanges
<1> QED BY <1>1, <1>2, <1>3, PTL DEF Spec

(* In particular, a draft judged while no file changes passes only if the  *)
(* evidence was recorded for its payload, also when the draft is judged in *)
(* the artifact's own place.                                               *)
THEOREM QuietRunsAreBound ==
    ASSUME HasRoot
    PROVE  Spec => []QuietRunIsBound
<1>1. StableDraftIsBound => QuietRunIsBound
  BY SixDecisions, FilesAssumption DEF StableDraftIsBound, QuietRunIsBound
<1> QED BY <1>1, StableDraftsAreBound, PTL

(* Evidence survives another layout, with a root or without: while neither *)
(* file changes, no decision refuses a draft with the recorded payload, if *)
(* that payload is in normal form.  The verifier asks with the normalized  *)
(* payload, and compares it with the artifact's as written.                *)
THEOREM CommentsKeepTheWarrant ==
    ASSUME Canon[Recorded.payload] = Recorded.payload
    PROVE  Spec => CommentKeepsWarrant
<1> DEFINE Warranted == /\ pc \in Reading
                        /\ \A p \in Paths : edits[p] = 0
                        /\ files[ArtifactPath] = Recorded /\ Bound
                        /\ {loaded.payload, Canon[loaded.payload]} \subseteq Scoped
           Kept == Warranted => pc' # "refused"
<1>1. Init => TypeOK /\ FileIsLoaded
  BY TypeInit, FileInit
<1>2. TypeOK /\ FileIsLoaded /\ [Next]_vars => (TypeOK /\ FileIsLoaded)'
  BY TypeNext, FileNext
<1>3. TypeOK /\ FileIsLoaded /\ [Next]_vars => [Kept]_vars
  <2> SUFFICES ASSUME TypeOK, FileIsLoaded, Next, Warranted
               PROVE  pc' # "refused"
    OBVIOUS
  <2>1. Subject = Recorded.payload /\ Subject \in Scoped
    BY DEF Subject, Bound
  <2>2. files[DraftPath] # Missing
    BY FilesAssumption DEF FileIsLoaded, TypeOK
  <2>3. CASE Load
    BY <2>3 DEF Load, Reading
  <2>4. CASE ReadArtifact
    BY <2>1, <2>4 DEF ReadArtifact
  <2>5. ASSUME Accept PROVE pc' # "refused"
    BY <2>5 DEF Accept, FirstReading
  <2>6. CASE ReadDraft
    BY <2>1, <2>2, <2>5, <2>6 DEF ReadDraft
  <2>7. CASE ReadArtifactAgain
    BY <2>1, <2>5, <2>7 DEF ReadArtifactAgain
  <2>8. ASSUME NEW q \in Paths, Edit(q) PROVE pc' # "refused"
    BY <2>8 DEF Edit, Reading
  <2> QED BY <2>3, <2>4, <2>6, <2>7, <2>8 DEF Next
<1>4. Spec => [][Kept]_vars
  BY <1>1, <1>2, <1>3, PTL DEF Spec
<1> QED BY <1>4, PTL DEF CommentKeepsWarrant

=============================================================================
