-------------------------- MODULE MCEvidenceBinding -------------------------
(* EvidenceBinding with a draft as it was recorded, the same draft with an *)
(* operation alias instead of the operation's id, and an unrelated draft   *)
(* with the same claim; each in two layouts.                               *)
EXTENDS EvidenceBinding

Drafts == {"recorded", "aliased", "other"}
TwoLayouts == {"plain", "commented"}
NormalForm == [p \in Drafts |-> IF p = "aliased" THEN "recorded" ELSE p]

RecordedPlain == [payload |-> "recorded", layout |-> "plain"]

TwoPaths == {"draft", "artifact"}

(* The artifact may change one time more than StableDraftIsBound allows.   *)
DraftOnceArtifactSeven == [p \in TwoPaths |-> IF p = "draft" THEN 1 ELSE 7]
Never == [p \in TwoPaths |-> 0]

=============================================================================
