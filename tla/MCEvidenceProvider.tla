------------------------- MODULE MCEvidenceProvider -------------------------
(* EvidenceProvider with a draft, the same written another way, one with   *)
(* another step in its workflow and the same claim, and one that names     *)
(* other evidence.  The policies want everything, nothing but a fresh      *)
(* check, and one forgets to limit the age of checks.                      *)
EXTENDS EvidenceProvider

Draft(raw, payload, evidence) ==
    [raw |-> raw, payload |-> payload, statement |-> "atomic", evidence |-> evidence]
DraftContents == {Draft("r1", "p1", "e1"), Draft("r2", "p1", "e1"),
                  Draft("r3", "p2", "e1")}

Policy(signed, bound, maxAge) ==
    [sealed |-> TRUE, sources |-> {"signed_bundle", "file", "fixture"}, issuers |-> {"lab"},
     signed |-> signed, keyIds |-> IF signed THEN {"k1"} ELSE {}, bound |-> bound,
     active |-> TRUE, maxAge |-> maxAge, minimum |-> 1]
First == Draft("r1", "p1", "e1")
HostPolicies == {Policy(TRUE, TRUE, 1), Policy(FALSE, FALSE, 1), Policy(FALSE, TRUE, 0)}

Kinds == {"signed_bundle"}
Bindings == {"raw", "raw_or_canonical"}
=============================================================================
